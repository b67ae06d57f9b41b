--------------------------- MODULE StackingProofs ---------------------------
(***************************************************************************)
(* What holds of Stacking for every set of views, groups, outputs and      *)
(* sheets.                                                                 *)
(***************************************************************************)
EXTENDS Stacking, ListFacts

Places == Group \cup {Root}
SheetId == Output \X Sheet
Shown(s) == Mapped(s) \ s.hidden

-----------------------------------------------------------------------------
(* The lists of one kind.  Views are ranked: each list is in the order of   *)
(* the ranks of its views.  A list has the views of M with its key, but    *)
(* for the views X that an operation is about to put in their place.       *)

Shelf(lists, key, M, X, r) ==
  \A i \in DOMAIN lists :
    /\ Rising(lists[i], r)
    /\ \A w \in View \ X : w \in ToSet(lists[i]) <=> w \in M /\ key[w] = i

Line(list, M, X, r) ==
  Rising(list, r) /\ \A w \in View \ X : w \in ToSet(list) <=> w \in M

LEMMA MembersAreViews ==
  ASSUME NEW list \in Seq(View), NEW x \in ToSet(list)
  PROVE  x \in View
<1>1. PICK i \in 1 .. Len(list) : list[i] = x
  BY InList
<1> QED
  BY <1>1

LEMMA ShelfOut ==
  ASSUME NEW I, NEW lists \in [I -> Seq(View)], NEW key, NEW M, NEW X, NEW v \in View,
         X \subseteq {v}, NEW r \in [View -> Int], Shelf(lists, key, M, X, r), v \notin M
  PROVE  Out(lists, v) \in [I -> Seq(View)] /\ Shelf(Out(lists, v), key, M, {}, r)
<1> DEFINE o == Out(lists, v)
<1>1. DOMAIN o = I /\ \A i \in I : o[i] = RemoveFirst(lists[i], v)
  BY DEF Out
<1>2. ASSUME NEW i \in I
      PROVE  /\ Rising(RemoveFirst(lists[i], v), r)
             /\ RemoveFirst(lists[i], v) \in Seq(View)
             /\ ToSet(RemoveFirst(lists[i], v)) = ToSet(lists[i]) \ {v}
  <2> DEFINE list == lists[i]
  <2>1. list \in Seq(View) /\ Rising(list, r)
    BY DEF Shelf
  <2> HIDE DEF list, o
  <2>2. RemoveFirst(list, v) \in Seq(View) /\ Rising(RemoveFirst(list, v), r)
    BY <2>1, RisingWithout, Zenon
  <2>3. ToSet(RemoveFirst(list, v)) = ToSet(list) \ {v}
    BY <2>1, RisingWithout, Zenon
  <2> QED
    BY <2>2, <2>3 DEF list
<1>3. o = [i \in I |-> o[i]]
  BY DEF Out
<1> HIDE DEF o
<1>4. \A i \in I : \A w \in View : w \in ToSet(o[i]) <=> w \in M /\ key[w] = i
  BY <1>1, <1>2 DEF Shelf
<1>5. o \in [I -> Seq(View)]
  BY <1>1, <1>2, <1>3
<1>6. Shelf(o, key, M, {}, r)
  BY <1>1, <1>2, <1>4 DEF Shelf
<1> QED
  BY <1>5, <1>6 DEF o

LEMMA ShelfTop ==
  ASSUME NEW I, NEW lists \in [I -> Seq(View)], NEW key, NEW M, NEW X, NEW v \in View,
         X \subseteq {v}, NEW r \in [View -> Int], Shelf(lists, key, M, X, r),
         v \in M, key[v] \in I,
         NEW lo \in Int, Lowest(lo, View, r)
  PROVE  /\ AtHead(lists, key[v], v) \in [I -> Seq(View)]
         /\ Shelf(AtHead(lists, key[v], v), key, M, {}, [r EXCEPT ![v] = lo])
<1>0. PICK at \in I : key[v] = at
  OBVIOUS
<1> DEFINE o == Out(lists, v)
           h == AtHead(lists, at, v)
           q == [r EXCEPT ![v] = lo]
<1>1. DOMAIN o = I /\ \A i \in I : o[i] = RemoveFirst(lists[i], v)
  BY DEF Out
<1>2. h = [i \in I |-> IF i = at THEN <<v>> \o o[i] ELSE o[i]]
  BY <1>1 DEF AtHead, Out
<1>3. q \in [View -> Int] /\ q[v] = lo /\ \A w \in View \ {v} : q[w] = r[w]
  OBVIOUS
<1> HIDE DEF o, h, q
<1>4. ASSUME NEW i \in I
      PROVE  o[i] \in Seq(View) /\ Rising(o[i], q) /\ ToSet(o[i]) = ToSet(lists[i]) \ {v}
  <2>1. lists[i] \in Seq(View) /\ Rising(lists[i], r)
    BY DEF Shelf
  <2>2. o[i] \in Seq(View) /\ Rising(o[i], r) /\ ToSet(o[i]) = ToSet(lists[i]) \ {v}
    BY <1>1, <2>1, RisingWithout
  <2>3. \A x \in ToSet(o[i]) : x \in View \ {v}
    BY <2>1, <2>2, MembersAreViews
  <2>4. \A x \in ToSet(o[i]) : q[x] = r[x]
    BY <1>3, <2>3
  <2>5. Rising(o[i], q)
    BY <2>2, <2>4, RisingElsewhere
  <2> QED
    BY <2>2, <2>5
<1>5. /\ <<v>> \o o[at] \in Seq(View) /\ Rising(<<v>> \o o[at], q)
      /\ ToSet(<<v>> \o o[at]) = ToSet(lists[at]) \cup {v}
  <2> DEFINE l == o[at]
  <2>1. l \in Seq(View) /\ Rising(l, q) /\ ToSet(l) = ToSet(lists[at]) \ {v}
    BY <1>4
  <2> HIDE DEF l
  <2>2. \A x \in ToSet(l) : x \in View \ {v}
    BY <2>1, MembersAreViews
  <2>3. RanksFirst(v, l, q)
    BY <1>3, <2>2 DEF RanksFirst, Lowest
  <2>4. /\ <<v>> \o l \in Seq(View) /\ Rising(<<v>> \o l, q)
        /\ ToSet(<<v>> \o l) = ToSet(l) \cup {v}
    BY <1>3, <2>1, <2>3, RisingPrepended
  <2>5. ToSet(<<v>> \o l) = ToSet(lists[at]) \cup {v}
    BY <2>1, <2>4
  <2> QED
    BY <2>4, <2>5 DEF l
<1>6. ASSUME NEW i \in I
      PROVE  /\ h[i] \in Seq(View) /\ Rising(h[i], q)
             /\ \A w \in View : w \in ToSet(h[i]) <=> w \in M /\ key[w] = i
  <2>1. \A w \in View \ X : w \in ToSet(lists[i]) <=> w \in M /\ key[w] = i
    BY DEF Shelf
  <2>2. CASE i = at
    <3>1. h[i] = <<v>> \o o[at]
      BY <1>2, <2>2
    <3> QED
      BY <1>0, <1>5, <2>1, <2>2, <3>1
  <2>3. CASE i # at
    <3>1. h[i] = o[i]
      BY <1>2, <2>3
    <3> QED
      BY <1>0, <1>4, <2>1, <2>3, <3>1
  <2> QED
    BY <2>2, <2>3
<1>7. h \in [I -> Seq(View)]
  BY <1>2, <1>6
<1>8. Shelf(h, key, M, {}, q)
  BY <1>6, <1>7 DEF Shelf
<1> QED
  BY <1>0, <1>7, <1>8 DEF h, q

LEMMA ShelfBottom ==
  ASSUME NEW I, NEW lists \in [I -> Seq(View)], NEW key, NEW M, NEW X, NEW v \in View,
         X \subseteq {v}, NEW r \in [View -> Int], Shelf(lists, key, M, X, r),
         v \in M, key[v] \in I,
         NEW hi \in Int, Highest(hi, View, r)
  PROVE  /\ AtTail(lists, key[v], v) \in [I -> Seq(View)]
         /\ Shelf(AtTail(lists, key[v], v), key, M, {}, [r EXCEPT ![v] = hi])
<1>0. PICK at \in I : key[v] = at
  OBVIOUS
<1> DEFINE o == Out(lists, v)
           h == AtTail(lists, at, v)
           q == [r EXCEPT ![v] = hi]
<1>1. DOMAIN o = I /\ \A i \in I : o[i] = RemoveFirst(lists[i], v)
  BY DEF Out
<1>2. h = [i \in I |-> IF i = at THEN Append(o[i], v) ELSE o[i]]
  BY <1>1 DEF AtTail, Out
<1>3. q \in [View -> Int] /\ q[v] = hi /\ \A w \in View \ {v} : q[w] = r[w]
  OBVIOUS
<1> HIDE DEF o, h, q
<1>4. ASSUME NEW i \in I
      PROVE  o[i] \in Seq(View) /\ Rising(o[i], q) /\ ToSet(o[i]) = ToSet(lists[i]) \ {v}
  <2>1. lists[i] \in Seq(View) /\ Rising(lists[i], r)
    BY DEF Shelf
  <2>2. o[i] \in Seq(View) /\ Rising(o[i], r) /\ ToSet(o[i]) = ToSet(lists[i]) \ {v}
    BY <1>1, <2>1, RisingWithout
  <2>3. \A x \in ToSet(o[i]) : x \in View \ {v}
    BY <2>1, <2>2, MembersAreViews
  <2>4. \A x \in ToSet(o[i]) : q[x] = r[x]
    BY <1>3, <2>3
  <2>5. Rising(o[i], q)
    BY <2>2, <2>4, RisingElsewhere
  <2> QED
    BY <2>2, <2>5
<1>5. /\ Append(o[at], v) \in Seq(View) /\ Rising(Append(o[at], v), q)
      /\ ToSet(Append(o[at], v)) = ToSet(lists[at]) \cup {v}
  <2> DEFINE l == o[at]
  <2>1. l \in Seq(View) /\ Rising(l, q) /\ ToSet(l) = ToSet(lists[at]) \ {v}
    BY <1>4
  <2> HIDE DEF l
  <2>2. \A x \in ToSet(l) : x \in View \ {v}
    BY <2>1, MembersAreViews
  <2>3. RanksLast(v, l, q)
    BY <1>3, <2>2 DEF RanksLast, Highest
  <2>4. /\ Append(l, v) \in Seq(View) /\ Rising(Append(l, v), q)
        /\ ToSet(Append(l, v)) = ToSet(l) \cup {v}
    BY <1>3, <2>1, <2>3, RisingAppended
  <2>5. ToSet(Append(l, v)) = ToSet(lists[at]) \cup {v}
    BY <2>1, <2>4
  <2> QED
    BY <2>4, <2>5 DEF l
<1>6. ASSUME NEW i \in I
      PROVE  /\ h[i] \in Seq(View) /\ Rising(h[i], q)
             /\ \A w \in View : w \in ToSet(h[i]) <=> w \in M /\ key[w] = i
  <2>1. \A w \in View \ X : w \in ToSet(lists[i]) <=> w \in M /\ key[w] = i
    BY DEF Shelf
  <2>2. CASE i = at
    <3>1. h[i] = Append(o[at], v)
      BY <1>2, <2>2
    <3> QED
      BY <1>0, <1>5, <2>1, <2>2, <3>1
  <2>3. CASE i # at
    <3>1. h[i] = o[i]
      BY <1>2, <2>3
    <3> QED
      BY <1>0, <1>4, <2>1, <2>3, <3>1
  <2> QED
    BY <2>2, <2>3
<1>7. h \in [I -> Seq(View)]
  BY <1>2, <1>6
<1>8. Shelf(h, key, M, {}, q)
  BY <1>6, <1>7 DEF Shelf
<1> QED
  BY <1>0, <1>7, <1>8 DEF h, q

(* The one list of all visible views, in the same way.                      *)
LEMMA LineOut ==
  ASSUME NEW list \in Seq(View), NEW M, NEW X, NEW v \in View, X \subseteq {v},
         NEW r \in [View -> Int], Line(list, M, X, r), v \notin M
  PROVE  RemoveFirst(list, v) \in Seq(View) /\ Line(RemoveFirst(list, v), M, {}, r)
<1>1. Rising(list, r)
  BY DEF Line
<1>2. /\ Rising(RemoveFirst(list, v), r) /\ RemoveFirst(list, v) \in Seq(View)
      /\ ToSet(RemoveFirst(list, v)) = ToSet(list) \ {v}
  BY <1>1, RisingWithout
<1> QED
  BY <1>2 DEF Line

LEMMA LineTop ==
  ASSUME NEW list \in Seq(View), NEW M, NEW X, NEW v \in View, X \subseteq {v},
         NEW r \in [View -> Int], Line(list, M, X, r), v \in M,
         NEW lo \in Int, Lowest(lo, View, r)
  PROVE  /\ <<v>> \o RemoveFirst(list, v) \in Seq(View)
         /\ Line(<<v>> \o RemoveFirst(list, v), M, {}, [r EXCEPT ![v] = lo])
<1> DEFINE l == RemoveFirst(list, v)
           q == [r EXCEPT ![v] = lo]
<1>1. q \in [View -> Int] /\ q[v] = lo /\ \A w \in View \ {v} : q[w] = r[w]
  OBVIOUS
<1>2. Rising(list, r)
  BY DEF Line
<1>3. l \in Seq(View) /\ Rising(l, r) /\ ToSet(l) = ToSet(list) \ {v}
  BY <1>2, RisingWithout
<1> HIDE DEF l, q
<1>4. \A x \in ToSet(l) : x \in View \ {v}
  BY <1>3, MembersAreViews
<1>5. \A x \in ToSet(l) : q[x] = r[x]
  BY <1>1, <1>4
<1>6. Rising(l, q)
  BY <1>3, <1>5, RisingElsewhere
<1>7. RanksFirst(v, l, q)
  BY <1>1, <1>4 DEF RanksFirst, Lowest
<1>8. /\ <<v>> \o l \in Seq(View) /\ Rising(<<v>> \o l, q)
      /\ ToSet(<<v>> \o l) = ToSet(l) \cup {v}
  BY <1>1, <1>3, <1>6, <1>7, RisingPrepended
<1>9. Line(<<v>> \o l, M, {}, q)
  BY <1>3, <1>8 DEF Line
<1> QED
  BY <1>8, <1>9 DEF l, q

LEMMA LineBottom ==
  ASSUME NEW list \in Seq(View), NEW M, NEW X, NEW v \in View, X \subseteq {v},
         NEW r \in [View -> Int], Line(list, M, X, r), v \in M,
         NEW hi \in Int, Highest(hi, View, r)
  PROVE  /\ Append(RemoveFirst(list, v), v) \in Seq(View)
         /\ Line(Append(RemoveFirst(list, v), v), M, {}, [r EXCEPT ![v] = hi])
<1> DEFINE l == RemoveFirst(list, v)
           q == [r EXCEPT ![v] = hi]
<1>1. q \in [View -> Int] /\ q[v] = hi /\ \A w \in View \ {v} : q[w] = r[w]
  OBVIOUS
<1>2. Rising(list, r)
  BY DEF Line
<1>3. l \in Seq(View) /\ Rising(l, r) /\ ToSet(l) = ToSet(list) \ {v}
  BY <1>2, RisingWithout
<1> HIDE DEF l, q
<1>4. \A x \in ToSet(l) : x \in View \ {v}
  BY <1>3, MembersAreViews
<1>5. \A x \in ToSet(l) : q[x] = r[x]
  BY <1>1, <1>4
<1>6. Rising(l, q)
  BY <1>3, <1>5, RisingElsewhere
<1>7. RanksLast(v, l, q)
  BY <1>1, <1>4 DEF RanksLast, Highest
<1>8. /\ Append(l, v) \in Seq(View) /\ Rising(Append(l, v), q)
      /\ ToSet(Append(l, v)) = ToSet(l) \cup {v}
  BY <1>1, <1>3, <1>6, <1>7, RisingAppended
<1>9. Line(Append(l, v), M, {}, q)
  BY <1>3, <1>8 DEF Line
<1> QED
  BY <1>8, <1>9 DEF l, q

(* Lists in which v is not keep their order when v gets another rank.       *)
LEMMA ShelfElsewhere ==
  ASSUME NEW I, NEW lists \in [I -> Seq(View)], NEW key, NEW M, NEW v \in View, v \notin M,
         NEW r, NEW q, \A w \in View \ {v} : q[w] = r[w], Shelf(lists, key, M, {}, r)
  PROVE  Shelf(lists, key, M, {}, q)
<1>1. ASSUME NEW i \in I PROVE Rising(lists[i], q)
  <2>1. lists[i] \in Seq(View) /\ Rising(lists[i], r) /\ v \notin ToSet(lists[i])
    BY DEF Shelf
  <2>2. \A x \in ToSet(lists[i]) : q[x] = r[x]
    BY <2>1, MembersAreViews
  <2> QED
    BY <2>1, <2>2, RisingElsewhere
<1> QED
  BY <1>1 DEF Shelf

LEMMA LineElsewhere ==
  ASSUME NEW list \in Seq(View), NEW M, NEW v \in View, v \notin M,
         NEW r, NEW q, \A w \in View \ {v} : q[w] = r[w], Line(list, M, {}, r)
  PROVE  Line(list, M, {}, q)
<1>1. Rising(list, r) /\ v \notin ToSet(list)
  BY DEF Line
<1>2. \A x \in ToSet(list) : q[x] = r[x]
  BY <1>1, MembersAreViews
<1>3. Rising(list, q)
  BY <1>1, <1>2, RisingElsewhere
<1> QED
  BY <1>3 DEF Line

(* What is said of all views but X goes on to hold when only v changes.     *)
Agrees(v, key, M, k, N) ==
  \A w \in View \ {v} : k[w] = key[w] /\ (w \in N <=> w \in M)

LEMMA ShelfAgrees ==
  ASSUME NEW lists, NEW key, NEW M, NEW X, NEW r, Shelf(lists, key, M, X, r),
         NEW v, NEW k, NEW N, Agrees(v, key, M, k, N)
  PROVE  Shelf(lists, k, N, X \cup {v}, r)
BY DEF Shelf, Agrees

LEMMA ShelfUnseen ==
  ASSUME NEW lists, NEW key, NEW M, NEW r, Shelf(lists, key, M, {}, r), NEW v, v \notin M,
         NEW k, NEW N, Agrees(v, key, M, k, N), v \notin N
  PROVE  Shelf(lists, k, N, {}, r)
BY DEF Shelf, Agrees

LEMMA LineAgrees ==
  ASSUME NEW list, NEW M, NEW X, NEW r, Line(list, M, X, r),
         NEW v, NEW key, NEW k, NEW N, Agrees(v, key, M, k, N)
  PROVE  Line(list, N, X \cup {v}, r)
BY DEF Line, Agrees

-----------------------------------------------------------------------------
(* The links of the list of visible groups, n forward and p backward: those *)
(* of the groups L lead to each other and to the root.  That they make one *)
(* ring is so only until the root is initialized again.                    *)

Chain(n, p, L) ==
  /\ n \in [Places -> Places \cup {NULL}] /\ p \in [Places -> Places \cup {NULL}]
  /\ n[Root] # NULL /\ p[Root] # NULL
  /\ \A g \in Group : (n[g] # NULL <=> g \in L) /\ (p[g] # NULL <=> g \in L)
  /\ \A x \in Places, g \in Group : (n[x] = g => p[g] = x) /\ (p[x] = g => n[g] = x)

(* The k groups of the ring c, whose places 0 and k + 1 are the root.       *)
Round(n, p, L, k, c) ==
  /\ k \in Nat /\ c \in [0 .. k + 1 -> Places] /\ c[0] = Root /\ c[k + 1] = Root
  /\ \A i \in 0 .. k : n[c[i]] = c[i + 1] /\ p[c[i + 1]] = c[i]
  /\ \A i, j \in 0 .. k : c[i] = c[j] => i = j
  /\ \A g \in Group : g \in L <=> \E i \in 1 .. k : c[i] = g

Ring(n, p, L) == \E k, c : Round(n, p, L, k, c)

Unlinked(f, b, g) == [[f EXCEPT ![b[g]] = f[g]] EXCEPT ![g] = NULL]

LEMMA ChainUnlinked ==
  ASSUME NEW n, NEW p, NEW L, Chain(n, p, L), NEW g \in Group, g \in L
  PROVE  Chain(Unlinked(n, p, g), Unlinked(p, n, g), L \ {g})
<1> DEFINE a == Unlinked(n, p, g)
           b == Unlinked(p, n, g)
<1>1. /\ n \in [Places -> Places \cup {NULL}] /\ p \in [Places -> Places \cup {NULL}]
      /\ g \in Places /\ Root \in Places /\ g # Root /\ NULL \notin Places
      /\ p[g] \in Places /\ n[g] \in Places
  BY NamesAssumption DEF Chain, Places
<1>2. /\ a \in [Places -> Places \cup {NULL}] /\ b \in [Places -> Places \cup {NULL}]
      /\ a[g] = NULL /\ b[g] = NULL
      /\ \A x \in Places \ {g} : a[x] = (IF x = p[g] THEN n[g] ELSE n[x])
      /\ \A x \in Places \ {g} : b[x] = (IF x = n[g] THEN p[g] ELSE p[x])
  BY <1>1 DEF Unlinked
<1> HIDE DEF a, b
<1>3. a[Root] # NULL /\ b[Root] # NULL
  BY <1>1, <1>2 DEF Chain
<1>4. Group \subseteq Places
  BY DEF Places
<1>5. \A h \in Group : (a[h] # NULL <=> h \in L \ {g}) /\ (b[h] # NULL <=> h \in L \ {g})
  BY <1>1, <1>2, <1>4 DEF Chain
<1>6. \A x \in Places, h \in Group : a[x] = h => b[h] = x
  <2> SUFFICES ASSUME NEW x \in Places, NEW h \in Group, a[x] = h PROVE b[h] = x
    OBVIOUS
  <2>1. x # g /\ h \in Places
    BY <1>1, <1>2, <1>4
  <2>2. CASE x = p[g]
    <3>1. n[g] = h
      BY <1>2, <2>1, <2>2
    <3>2. h # g
      BY <2>1, <2>2, <3>1, <1>1 DEF Chain
    <3> QED
      BY <1>2, <2>1, <2>2, <3>1, <3>2
  <2>3. CASE x # p[g]
    <3>1. n[x] = h
      BY <1>2, <2>1, <2>3
    <3>2. p[h] = x
      BY <3>1 DEF Chain
    <3>3. h # g /\ h # n[g]
      BY <2>1, <2>3, <3>1, <3>2, <1>1 DEF Chain
    <3> QED
      BY <1>2, <2>1, <3>2, <3>3
  <2> QED
    BY <2>2, <2>3
<1>7. \A x \in Places, h \in Group : b[x] = h => a[h] = x
  <2> SUFFICES ASSUME NEW x \in Places, NEW h \in Group, b[x] = h PROVE a[h] = x
    OBVIOUS
  <2>1. x # g /\ h \in Places
    BY <1>1, <1>2, <1>4
  <2>2. CASE x = n[g]
    <3>1. p[g] = h
      BY <1>2, <2>1, <2>2
    <3>2. h # g
      BY <2>1, <2>2, <3>1, <1>1 DEF Chain
    <3> QED
      BY <1>2, <2>1, <2>2, <3>1, <3>2
  <2>3. CASE x # n[g]
    <3>1. p[x] = h
      BY <1>2, <2>1, <2>3
    <3>2. n[h] = x
      BY <3>1 DEF Chain
    <3>3. h # g /\ h # p[g]
      BY <2>1, <2>3, <3>1, <3>2, <1>1 DEF Chain
    <3> QED
      BY <1>2, <2>1, <3>2, <3>3
  <2> QED
    BY <2>2, <2>3
<1>8. Chain(a, b, L \ {g})
  BY <1>2, <1>3, <1>5, <1>6, <1>7 DEF Chain
<1> QED
  BY <1>8 DEF a, b

LEMMA RingUnlinked ==
  ASSUME NEW n, NEW p, NEW L, Chain(n, p, L), Ring(n, p, L), NEW g \in Group, g \in L
  PROVE  Ring(Unlinked(n, p, g), Unlinked(p, n, g), L \ {g})
<1> DEFINE a == Unlinked(n, p, g)
           b == Unlinked(p, n, g)
<1>1. PICK k, c : Round(n, p, L, k, c)
  BY DEF Ring
<1>2. PICK m \in 1 .. k : c[m] = g
  BY <1>1 DEF Round
<1> DEFINE d == [i \in 0 .. k |-> IF i < m THEN c[i] ELSE c[i + 1]]
<1>3. k \in Nat /\ m - 1 \in 0 .. k /\ m \in 0 .. k /\ (m - 1) + 1 = m /\ k - 1 \in Nat
  BY <1>1, <1>2 DEF Round
<1>4. p[g] = c[m - 1] /\ n[g] = c[m + 1]
  BY <1>1, <1>2, <1>3 DEF Round
<1>5. \A i \in 0 .. k + 1 : c[i] \in Places
  BY <1>1 DEF Round
<1>6. \A i \in 0 .. k : c[i] = g => i = m
  BY <1>1, <1>2, <1>3 DEF Round
<1>7. c[k + 1] = Root /\ c[0] = Root /\ Root # g /\ Root \in Places /\ g \in Places
  BY <1>1, NamesAssumption DEF Round, Places
<1>8. /\ \A x \in Places \ {g} : a[x] = (IF x = c[m - 1] THEN c[m + 1] ELSE n[x])
      /\ \A x \in Places \ {g} : b[x] = (IF x = c[m + 1] THEN c[m - 1] ELSE p[x])
  BY <1>4, <1>7 DEF Unlinked, Chain
<1> HIDE DEF a, b
<1>9. /\ d \in [0 .. (k - 1) + 1 -> Places] /\ d[0] = Root /\ d[(k - 1) + 1] = Root
      /\ \A i \in 0 .. k : d[i] = IF i < m THEN c[i] ELSE c[i + 1]
  <2>1. \A i \in 0 .. k : i \in 0 .. k + 1 /\ i + 1 \in 0 .. k + 1
    BY <1>3
  <2>2. (k - 1) + 1 = k /\ 0 < m /\ ~(k < m) /\ 0 \in 0 .. k /\ k \in 0 .. k
    BY <1>2, <1>3
  <2> QED
    BY <1>5, <1>7, <2>1, <2>2
<1> HIDE DEF d
<1>10. ASSUME NEW i \in 0 .. (k - 1) PROVE a[d[i]] = d[i + 1] /\ b[d[i + 1]] = d[i]
  <2>1. i \in 0 .. k /\ i + 1 \in 0 .. k /\ i + 2 \in 0 .. k + 1 /\ (i + 1) + 1 = i + 2 /\ i < k
    BY <1>3
  <2>2. CASE i + 1 < m
    <3>1. d[i] = c[i] /\ d[i + 1] = c[i + 1]
      BY <1>9, <2>1, <2>2
    <3>2. n[c[i]] = c[i + 1] /\ p[c[i + 1]] = c[i]
      BY <1>1, <2>1 DEF Round
    <3>3. c[i] # g /\ c[i + 1] # g /\ c[i] # c[m - 1]
      BY <1>1, <1>3, <1>6, <2>1, <2>2 DEF Round
    <3>4. c[i + 1] # c[m + 1]
      <4>1. CASE m = k
        BY <1>1, <1>7, <2>1, <2>2, <4>1 DEF Round
      <4>2. CASE m # k
        <5>1. m + 1 \in 0 .. k /\ m + 1 # i + 1
          BY <1>2, <1>3, <2>2, <4>2
        <5> QED
          BY <1>1, <2>1, <5>1 DEF Round
      <4> QED
        BY <4>1, <4>2
    <3>5. c[i] \in Places /\ c[i + 1] \in Places
      <4>1. i \in 0 .. k + 1 /\ i + 1 \in 0 .. k + 1
        BY <1>3
      <4> QED
        BY <1>5, <4>1
    <3> QED
      BY <1>8, <3>1, <3>2, <3>3, <3>4, <3>5
  <2>3. CASE i + 1 = m
    <3>1. d[i] = c[m - 1] /\ d[i + 1] = c[m + 1] /\ m - 1 \in 0 .. k + 1 /\ m + 1 \in 0 .. k + 1
      BY <1>2, <1>3, <1>9, <2>1, <2>3
    <3>2. c[m - 1] # g /\ c[m + 1] # g
      <4>1. CASE m = k
        BY <1>3, <1>6, <1>7, <4>1
      <4>2. CASE m # k
        <5>1. m + 1 \in 0 .. k
          BY <1>2, <1>3, <4>2
        <5> QED
          BY <1>3, <1>6, <5>1
      <4> QED
        BY <4>1, <4>2
    <3> QED
      BY <1>5, <1>8, <3>1, <3>2
  <2>4. CASE i + 1 > m
    <3>1. d[i] = c[i + 1] /\ d[i + 1] = c[i + 2] /\ i + 1 \in 0 .. k + 1
      <4>1. ~(i < m) /\ ~(i + 1 < m) /\ i + 1 \in 0 .. k + 1
        BY <1>2, <1>3, <2>4
      <4>2. d[i] = c[i + 1] /\ d[i + 1] = c[(i + 1) + 1]
        BY <1>9, <2>1, <4>1
      <4> QED
        BY <2>1, <4>1, <4>2
    <3>2. n[c[i + 1]] = c[i + 2] /\ p[c[i + 2]] = c[i + 1]
      BY <1>1, <2>1 DEF Round
    <3>3. c[i + 1] # g /\ c[i + 1] # c[m - 1]
      BY <1>1, <1>3, <1>6, <2>1, <2>4 DEF Round
    <3>4. c[i + 2] # g /\ c[i + 2] # c[m + 1]
      <4>1. CASE i + 2 = k + 1
        <5>1. m + 1 \in 0 .. k /\ m + 1 # 0 /\ 0 \in 0 .. k
          BY <1>2, <1>3, <2>4, <4>1
        <5> QED
          BY <1>1, <1>7, <4>1, <5>1 DEF Round
      <4>2. CASE i + 2 # k + 1
        <5>1. m + 1 \in 0 .. k /\ i + 2 \in 0 .. k /\ i + 2 # m + 1 /\ i + 2 # m
          BY <1>2, <1>3, <2>1, <2>4, <4>2
        <5> QED
          BY <1>1, <1>6, <5>1 DEF Round
      <4> QED
        BY <4>1, <4>2
    <3> QED
      BY <1>5, <1>8, <2>1, <3>1, <3>2, <3>3, <3>4
  <2> QED
    BY <1>2, <1>3, <2>2, <2>3, <2>4
<1>11. ASSUME NEW i \in 0 .. (k - 1), NEW j \in 0 .. (k - 1), d[i] = d[j] PROVE i = j
  <2>1. i \in 0 .. k /\ j \in 0 .. k /\ i + 1 \in 0 .. k /\ j + 1 \in 0 .. k
    BY <1>3
  <2>2. \A x, y \in 0 .. k : c[x] = c[y] => x = y
    BY <1>1 DEF Round
  <2>3. CASE i < m /\ j < m
    BY <1>9, <1>11, <2>1, <2>2, <2>3
  <2>4. CASE ~(i < m) /\ ~(j < m)
    BY <1>9, <1>11, <2>1, <2>2, <2>4
  <2>5. CASE i < m /\ ~(j < m)
    <3>1. i = j + 1
      BY <1>9, <1>11, <2>1, <2>2, <2>5
    <3> QED
      BY <1>2, <2>1, <2>5, <3>1
  <2>6. CASE ~(i < m) /\ j < m
    <3>1. j = i + 1
      BY <1>9, <1>11, <2>1, <2>2, <2>6
    <3> QED
      BY <1>2, <2>1, <2>6, <3>1
  <2> QED
    BY <2>3, <2>4, <2>5, <2>6
<1>12. ASSUME NEW h \in Group PROVE h \in L \ {g} <=> \E i \in 1 .. (k - 1) : d[i] = h
  <2>1. ASSUME h \in L, h # g PROVE \E i \in 1 .. (k - 1) : d[i] = h
    <3>1. PICK i \in 1 .. k : c[i] = h
      BY <1>1, <2>1 DEF Round
    <3>2. i # m
      BY <1>2, <2>1, <3>1
    <3>3. CASE i < m
      <4>1. i \in 1 .. (k - 1) /\ i \in 0 .. k /\ d[i] = h
        BY <1>3, <1>2, <1>9, <3>1, <3>3
      <4> QED
        BY <4>1
    <3>4. CASE i > m
      <4> DEFINE e == i - 1
      <4>1. e \in 1 .. (k - 1) /\ e \in 0 .. k /\ ~(e < m) /\ e + 1 = i
        BY <1>2, <1>3, <3>4
      <4> HIDE DEF e
      <4>2. d[e] = h
        BY <1>9, <3>1, <4>1
      <4> QED
        BY <4>1, <4>2
    <3> QED
      BY <1>3, <3>2, <3>3, <3>4
  <2>2. ASSUME NEW i \in 1 .. (k - 1), d[i] = h PROVE h \in L /\ h # g
    <3>1. i \in 0 .. k /\ i \in 1 .. k /\ i + 1 \in 1 .. k /\ i + 1 \in 0 .. k
      BY <1>3
    <3>2. CASE i < m
      BY <1>1, <1>6, <1>9, <2>2, <3>1, <3>2 DEF Round
    <3>3. CASE ~(i < m)
      <4>1. c[i + 1] = h /\ i + 1 # m
        BY <1>2, <1>3, <1>9, <2>2, <3>1, <3>3
      <4> QED
        BY <1>1, <1>6, <3>1, <4>1 DEF Round
    <3> QED
      BY <3>2, <3>3
  <2> QED
    BY <2>1, <2>2
<1>13. Round(a, b, L \ {g}, k - 1, d)
  <2>1. (k - 1) + 1 = k
    BY <1>3
  <2> QED
    BY <1>3, <1>9, <1>10, <1>11, <1>12, <2>1 DEF Round
<1> QED
  BY <1>13 DEF Ring, a, b

LinkedNext(n, at, g) == [[n EXCEPT ![g] = n[at]] EXCEPT ![at] = g]
LinkedPrev(n, p, at, g) == [[p EXCEPT ![g] = at] EXCEPT ![n[at]] = g]

LEMMA ChainLinked ==
  ASSUME NEW n, NEW p, NEW L, Chain(n, p, L), NEW g \in Group, g \notin L,
         NEW at \in Places, at = Root \/ at \in L
  PROVE  Chain(LinkedNext(n, at, g), LinkedPrev(n, p, at, g), L \cup {g})
<1> DEFINE a == LinkedNext(n, at, g)
           b == LinkedPrev(n, p, at, g)
<1>1. /\ n \in [Places -> Places \cup {NULL}] /\ p \in [Places -> Places \cup {NULL}]
      /\ g \in Places /\ Root \in Places /\ g # Root /\ NULL \notin Places /\ at # g
      /\ n[g] = NULL /\ p[g] = NULL
      /\ Group \subseteq Places
  BY NamesAssumption DEF Chain, Places
<1>2. n[at] \in Places /\ n[at] # g
  <2>1. n[at] # NULL
    BY <1>1 DEF Chain, Places
  <2>2. n[at] # g
    BY <1>1 DEF Chain
  <2> QED
    BY <1>1, <2>1, <2>2
<1>3. /\ a \in [Places -> Places \cup {NULL}] /\ b \in [Places -> Places \cup {NULL}]
      /\ \A x \in Places : a[x] = (IF x = at THEN g ELSE IF x = g THEN n[at] ELSE n[x])
      /\ \A x \in Places : b[x] = (IF x = n[at] THEN g ELSE IF x = g THEN at ELSE p[x])
  BY <1>1, <1>2 DEF LinkedNext, LinkedPrev
<1> HIDE DEF a, b
<1>4. a[Root] # NULL /\ b[Root] # NULL
  BY <1>1, <1>2, <1>3 DEF Chain
<1>5. \A h \in Group : (a[h] # NULL <=> h \in L \cup {g}) /\ (b[h] # NULL <=> h \in L \cup {g})
  <2> SUFFICES ASSUME NEW h \in Group
               PROVE  (a[h] # NULL <=> h \in L \cup {g}) /\ (b[h] # NULL <=> h \in L \cup {g})
    OBVIOUS
  <2>1. h \in Places /\ (n[h] # NULL <=> h \in L) /\ (p[h] # NULL <=> h \in L)
    BY <1>1 DEF Chain
  <2>2. h = at => h \in L
    BY NamesAssumption
  <2>3. h = n[at] => h \in L
    BY <1>1, <2>1 DEF Chain
  <2> QED
    BY <1>1, <1>2, <1>3, <2>1, <2>2, <2>3
<1>6. \A x \in Places, h \in Group : a[x] = h => b[h] = x
  <2> SUFFICES ASSUME NEW x \in Places, NEW h \in Group, a[x] = h PROVE b[h] = x
    OBVIOUS
  <2>1. CASE x = at
    BY <1>1, <1>2, <1>3, <2>1
  <2>2. CASE x = g
    BY <1>1, <1>2, <1>3, <2>2
  <2>3. CASE x # at /\ x # g
    <3>1. n[x] = h /\ p[h] = x
      BY <1>3, <2>3 DEF Chain
    <3>2. h # g
      BY <1>1, <3>1
    <3>3. h # n[at]
      BY <2>3, <3>1 DEF Chain
    <3> QED
      BY <1>1, <1>3, <3>1, <3>2, <3>3
  <2> QED
    BY <2>1, <2>2, <2>3
<1>7. \A x \in Places, h \in Group : b[x] = h => a[h] = x
  <2> SUFFICES ASSUME NEW x \in Places, NEW h \in Group, b[x] = h PROVE a[h] = x
    OBVIOUS
  <2>1. CASE x = n[at]
    BY <1>1, <1>2, <1>3, <2>1
  <2>2. CASE x = g
    BY <1>1, <1>2, <1>3, <2>2
  <2>3. CASE x # n[at] /\ x # g
    <3>1. p[x] = h /\ n[h] = x
      BY <1>3, <2>3 DEF Chain
    <3>2. h # g
      BY <1>1, <3>1
    <3>3. h # at
      BY <2>3, <3>1
    <3> QED
      BY <1>1, <1>3, <3>1, <3>2, <3>3
  <2> QED
    BY <2>1, <2>2, <2>3
<1>8. Chain(a, b, L \cup {g})
  BY <1>3, <1>4, <1>5, <1>6, <1>7 DEF Chain
<1> QED
  BY <1>8 DEF a, b

LEMMA RingLinked ==
  ASSUME NEW n, NEW p, NEW L, Chain(n, p, L), Ring(n, p, L), NEW g \in Group, g \notin L,
         NEW at \in Places, at = Root \/ at \in L
  PROVE  Ring(LinkedNext(n, at, g), LinkedPrev(n, p, at, g), L \cup {g})
<1> DEFINE a == LinkedNext(n, at, g)
           b == LinkedPrev(n, p, at, g)
<1>1. PICK k, c : Round(n, p, L, k, c)
  BY DEF Ring
<1>2. k \in Nat /\ 0 \in 0 .. k /\ \A i \in 1 .. k : i \in 0 .. k
  BY <1>1 DEF Round
<1>3. PICK m \in 0 .. k : c[m] = at
  <2>1. CASE at = Root
    BY <1>1, <1>2, <2>1 DEF Round
  <2>2. CASE at \in L
    BY <1>1, <1>2, <2>2 DEF Round, Places
  <2> QED
    BY <2>1, <2>2
<1> DEFINE d == [i \in 0 .. (k + 1) + 1 |-> IF i <= m THEN c[i] ELSE IF i = m + 1 THEN g ELSE c[i - 1]]
<1>4. m + 1 \in 0 .. k + 1 /\ n[at] = c[m + 1]
  BY <1>1, <1>2, <1>3 DEF Round
<1>5. \A i \in 0 .. k + 1 : c[i] \in Places
  BY <1>1 DEF Round
<1>6. c[k + 1] = Root /\ c[0] = Root /\ Root # g /\ Root \in Places /\ g \in Places
  BY <1>1, NamesAssumption DEF Round, Places
<1>7. \A i \in 0 .. k + 1 : c[i] # g
  <2> SUFFICES ASSUME NEW i \in 0 .. k + 1, c[i] = g PROVE FALSE
    OBVIOUS
  <2>1. i \in 1 .. k
    BY <1>2, <1>6
  <2> QED
    BY <1>1, <2>1 DEF Round
<1>8. /\ \A x \in Places : a[x] = (IF x = at THEN g ELSE IF x = g THEN n[at] ELSE n[x])
      /\ \A x \in Places : b[x] = (IF x = n[at] THEN g ELSE IF x = g THEN at ELSE p[x])
  <2>1. n[at] \in Places /\ n[at] # g /\ at # g
    BY <1>2, <1>3, <1>4, <1>5, <1>7
  <2> QED
    BY <1>6, <2>1 DEF LinkedNext, LinkedPrev, Chain
<1> HIDE DEF a, b
<1>9. /\ d \in [0 .. (k + 1) + 1 -> Places] /\ d[0] = Root /\ d[(k + 1) + 1] = Root
      /\ \A i \in 0 .. (k + 1) + 1 :
           d[i] = IF i <= m THEN c[i] ELSE IF i = m + 1 THEN g ELSE c[i - 1]
  <2>1. \A i \in 0 .. (k + 1) + 1 : (i <= m => i \in 0 .. k + 1) /\
                                    (~(i <= m) => i - 1 \in 0 .. k + 1)
    BY <1>2
  <2>2. /\ ((k + 1) + 1) - 1 = k + 1 /\ ~((k + 1) + 1 <= m) /\ (k + 1) + 1 # m + 1 /\ 0 <= m
        /\ 0 \in 0 .. (k + 1) + 1 /\ (k + 1) + 1 \in 0 .. (k + 1) + 1
    BY <1>2
  <2> QED
    BY <1>5, <1>6, <2>1, <2>2
<1> HIDE DEF d
<1>10. ASSUME NEW i \in 0 .. (k + 1) PROVE a[d[i]] = d[i + 1] /\ b[d[i + 1]] = d[i]
  <2>1. i \in 0 .. (k + 1) + 1 /\ i + 1 \in 0 .. (k + 1) + 1 /\ (i + 1) - 1 = i
    BY <1>2
  <2>2. \A x, y \in 0 .. k : c[x] = c[y] => x = y
    BY <1>1 DEF Round
  <2>3. CASE i < m
    <3>1. d[i] = c[i] /\ d[i + 1] = c[i + 1] /\ i \in 0 .. k /\ i + 1 \in 0 .. k + 1
      <4>1. i <= m /\ i + 1 <= m /\ i \in 0 .. k /\ i + 1 \in 0 .. k + 1
        BY <1>2, <2>3
      <4> QED
        BY <1>9, <2>1, <4>1
    <3>2. n[c[i]] = c[i + 1] /\ p[c[i + 1]] = c[i] /\ i \in 0 .. k + 1
      BY <1>1, <1>2, <3>1 DEF Round
    <3>3. c[i] # at
      BY <1>3, <2>2, <2>3, <3>1
    <3>4. c[i + 1] # n[at]
      <4>1. CASE m = k
        <5>1. i + 1 \in 0 .. k /\ i + 1 # 0
          BY <1>2, <2>3, <4>1
        <5> QED
          BY <1>2, <1>4, <1>6, <2>2, <4>1, <5>1
      <4>2. CASE m # k
        <5>1. m + 1 \in 0 .. k /\ i + 1 \in 0 .. k /\ m + 1 # i + 1
          BY <1>2, <2>3, <4>2
        <5> QED
          BY <1>4, <2>2, <5>1
      <4> QED
        BY <4>1, <4>2
    <3> QED
      BY <1>5, <1>7, <1>8, <3>1, <3>2, <3>3, <3>4
  <2>4. CASE i = m
    <3>1. d[i] = at /\ d[i + 1] = g
      <4>1. i <= m /\ ~(i + 1 <= m) /\ i + 1 = m + 1
        BY <2>4
      <4> QED
        BY <1>3, <1>9, <2>1, <2>4, <4>1
    <3>2. at # g /\ g # n[at]
      BY <1>2, <1>3, <1>4, <1>5, <1>7
    <3> QED
      BY <1>6, <1>8, <3>1, <3>2
  <2>5. CASE i = m + 1
    <3>1. d[i] = g /\ d[i + 1] = n[at]
      <4>1. ~(i <= m) /\ ~(i + 1 <= m) /\ i + 1 # m + 1
        BY <2>5
      <4> QED
        BY <1>4, <1>9, <2>1, <2>5, <4>1
    <3>2. at # g /\ n[at] \in Places
      BY <1>2, <1>3, <1>4, <1>5, <1>7
    <3> QED
      BY <1>6, <1>8, <3>1, <3>2
  <2>6. CASE i > m + 1
    <3> DEFINE e == i - 1
    <3>1. e \in 0 .. k /\ e + 1 = i /\ e > m /\ ~(i <= m) /\ ~(i + 1 <= m) /\ i + 1 # m + 1 /\ i # m + 1
      BY <1>2, <2>6
    <3>2. d[i] = c[e] /\ d[i + 1] = c[e + 1]
      BY <1>9, <2>1, <3>1
    <3> HIDE DEF e
    <3>3. n[c[e]] = c[e + 1] /\ p[c[e + 1]] = c[e] /\ e \in 0 .. k + 1 /\ e + 1 \in 0 .. k + 1
      BY <1>1, <1>2, <3>1 DEF Round
    <3>4. c[e] # at
      BY <1>3, <2>2, <3>1
    <3>5. c[e + 1] # n[at]
      <4>1. m + 1 \in 0 .. k /\ m + 1 # 0
        BY <1>2, <3>1
      <4>2. CASE e = k
        BY <1>2, <1>4, <1>6, <2>2, <4>1, <4>2
      <4>3. CASE e # k
        <5>1. e + 1 \in 0 .. k /\ e + 1 # m + 1
          BY <1>2, <3>1, <4>3
        <5> QED
          BY <1>4, <2>2, <4>1, <5>1
      <4> QED
        BY <4>2, <4>3
    <3> QED
      BY <1>5, <1>7, <1>8, <3>2, <3>3, <3>4, <3>5
  <2> QED
    BY <1>2, <2>3, <2>4, <2>5, <2>6
<1>11. ASSUME NEW i \in 0 .. (k + 1), NEW j \in 0 .. (k + 1), d[i] = d[j] PROVE i = j
  <2>1. \A x, y \in 0 .. k : c[x] = c[y] => x = y
    BY <1>1 DEF Round
  <2>2. ASSUME NEW x \in 0 .. (k + 1)
        PROVE  /\ x <= m => x \in 0 .. k /\ d[x] = c[x] /\ d[x] # g
               /\ x = m + 1 => d[x] = g
               /\ x > m + 1 => x - 1 \in 0 .. k /\ d[x] = c[x - 1] /\ d[x] # g
    <3>1. x \in 0 .. (k + 1) + 1 /\ (x <= m => x \in 0 .. k) /\ (x > m + 1 => x - 1 \in 0 .. k) /\
          \A y \in 0 .. k : y \in 0 .. k + 1
      BY <1>2
    <3>2. x > m + 1 => ~(x <= m) /\ x # m + 1
      OBVIOUS
    <3>3. x = m + 1 => ~(x <= m)
      OBVIOUS
    <3> QED
      BY <1>7, <1>9, <3>1, <3>2, <3>3
  <2>3. i <= m \/ i = m + 1 \/ i > m + 1
    BY <1>2
  <2>4. j <= m \/ j = m + 1 \/ j > m + 1
    BY <1>2
  <2>5. CASE i <= m /\ j <= m
    BY <1>11, <2>1, <2>2, <2>5
  <2>6. CASE i = m + 1 \/ j = m + 1
    BY <1>11, <2>2, <2>3, <2>4, <2>6
  <2>7. CASE i > m + 1 /\ j > m + 1
    <3>1. i - 1 = j - 1
      BY <1>11, <2>1, <2>2, <2>7
    <3> QED
      BY <3>1
  <2>8. CASE i <= m /\ j > m + 1
    <3>1. i = j - 1
      BY <1>11, <2>1, <2>2, <2>8
    <3> QED
      BY <1>2, <2>8, <3>1
  <2>9. CASE j <= m /\ i > m + 1
    <3>1. j = i - 1
      BY <1>11, <2>1, <2>2, <2>9
    <3> QED
      BY <1>2, <2>9, <3>1
  <2> QED
    BY <2>3, <2>4, <2>5, <2>6, <2>7, <2>8, <2>9
<1>12. ASSUME NEW h \in Group PROVE h \in L \cup {g} <=> \E i \in 1 .. (k + 1) : d[i] = h
  <2>1. ASSUME h \in L PROVE \E i \in 1 .. (k + 1) : d[i] = h
    <3>1. PICK i \in 1 .. k : c[i] = h
      BY <1>1, <2>1 DEF Round
    <3>2. CASE i <= m
      <4>1. i \in 1 .. (k + 1) /\ i \in 0 .. (k + 1) + 1
        BY <1>2
      <4>2. d[i] = h
        BY <1>9, <3>1, <3>2, <4>1
      <4> QED
        BY <4>1, <4>2
    <3>3. CASE i > m
      <4> DEFINE e == i + 1
      <4>1. e \in 1 .. (k + 1) /\ e \in 0 .. (k + 1) + 1 /\ ~(e <= m) /\ e # m + 1 /\ e - 1 = i
        BY <1>2, <3>3
      <4> HIDE DEF e
      <4>2. d[e] = h
        BY <1>9, <3>1, <4>1
      <4> QED
        BY <4>1, <4>2
    <3> QED
      BY <1>2, <3>2, <3>3
  <2>2. \E i \in 1 .. (k + 1) : d[i] = g
    <3>1. m + 1 \in 1 .. (k + 1) /\ m + 1 \in 0 .. (k + 1) + 1 /\ ~(m + 1 <= m)
      BY <1>2
    <3>2. d[m + 1] = g
      BY <1>9, <3>1
    <3> QED
      BY <3>1, <3>2
  <2>3. ASSUME NEW i \in 1 .. (k + 1), d[i] = h, h # g PROVE h \in L
    <3>0. i \in 0 .. (k + 1) + 1
      BY <1>2
    <3>1. CASE i <= m
      <4>1. i \in 1 .. k
        BY <1>2, <3>1
      <4> QED
        BY <1>1, <1>9, <2>3, <3>0, <3>1, <4>1 DEF Round
    <3>2. CASE ~(i <= m)
      <4> DEFINE e == i - 1
      <4>1. i # m + 1
        BY <1>9, <2>3, <3>0, <3>2
      <4>2. c[e] = h
        BY <1>9, <2>3, <3>0, <3>2, <4>1
      <4>3. e \in 1 .. k
        BY <1>2, <3>2, <4>1
      <4> HIDE DEF e
      <4> QED
        BY <1>1, <4>2, <4>3 DEF Round
    <3> QED
      BY <3>1, <3>2
  <2> QED
    BY <2>1, <2>2, <2>3
<1>13. Round(a, b, L \cup {g}, k + 1, d)
  BY <1>2, <1>9, <1>10, <1>11, <1>12 DEF Round
<1> QED
  BY <1>13 DEF Ring, a, b

-----------------------------------------------------------------------------
(* The invariant, of a record of the state.                                *)

States ==
  [sheet_of : [View -> SheetId \cup {NULL}], group_of : [View -> Group \cup {NULL}],
   hidden : SUBSET View, stale : SUBSET View, sheet_views : [SheetId -> Seq(View)],
   output_views : [Output -> Seq(View)], group_views : [Group -> Seq(View)],
   visible_views : Seq(View), workspace_views : [Output -> Seq(View)],
   visible_group_views : [Group -> Seq(View)],
   next : [Places -> Places \cup {NULL}], prev : [Places -> Places \cup {NULL}],
   current : [Output -> Sheet], focus : View \cup {NULL}, cycling : BOOLEAN,
   mode : {"normal", "group"}, typed : Group \cup {NULL, Freed}, cut : BOOLEAN,
   fault : {"none", "assert", "null", "freed", "garbage"}]

(* The output of each view that is mapped.                                 *)
OutputsOf(s) == [v \in View |-> OutputOf(s, v)]

(* In the lists of all views a view has the rank p and its list of a sheet  *)
(* is that of k, as a pinned view that waits has not moved in them.        *)
AllAt(s, X, p, k) ==
  /\ Shelf(s.sheet_views, k, Mapped(s), X, p)
  /\ Shelf(s.output_views, OutputsOf(s), Mapped(s), X, p)
  /\ Shelf(s.group_views, s.group_of, Mapped(s), X, p)

(* A view that does not wait has the same rank in all lists and is in that *)
(* of its own sheet; one that waits is in that of a sheet of its output.   *)
StandsAt(s, w, p, k, r) ==
  IF w \in s.stale THEN w \in Mapped(s) /\ k[w] \in SheetId /\ k[w][1] = OutputOf(s, w)
  ELSE w \in Mapped(s) => p[w] = r[w] /\ k[w] = s.sheet_of[w]

Stands(s, X, p, k, r) == \A w \in View \ X : StandsAt(s, w, p, k, r)

Ranks(p, lo, hi) == p \in [View -> Int] /\ Lowest(lo, View, p) /\ Highest(hi, View, p)

InAll(s, X, r, lo, hi) ==
  \E p, k : /\ Ranks(p, lo, hi) /\ k \in [View -> SheetId \cup {NULL}]
            /\ Stands(s, X, p, k, r) /\ AllAt(s, X, p, k)

InVisible(s, Y, r) ==
  /\ Shelf(s.workspace_views, OutputsOf(s), Shown(s), Y, r)
  /\ Shelf(s.visible_group_views, s.group_of, Shown(s), Y, r)
  /\ Line(s.visible_views, Shown(s), Y, r)

(* There is one order of the views that all lists are in, but for the views *)
(* that wait; lo and hi leave room above and below it.                     *)
Ordered(s, X, Y, r, lo, hi) ==
  /\ r \in [View -> Int] /\ lo \in Int /\ hi \in Int
  /\ Lowest(lo, View, r) /\ Highest(hi, View, r)
  /\ InAll(s, X, r, lo, hi) /\ InVisible(s, Y, r)

InLists(s, X, Y) == \E r, lo, hi : Ordered(s, X, Y, r, lo, hi)

(* The groups that have visible views, other than X, are linked.           *)
GroupsOf(s, X) == {s.group_of[w] : w \in Shown(s) \ X}

Linked(s, L) == Chain(s.next, s.prev, L) /\ (~s.cut => Ring(s.next, s.prev, L))

Placed(s) ==
  \A v \in View : (s.group_of[v] = NULL <=> s.sheet_of[v] = NULL) /\
                  (s.group_of[v] = NULL => v \in s.hidden)

NotFailed(s) == s.fault \notin {"assert", "null"}

Core(s, X, Y) ==
  /\ s \in States /\ Placed(s) /\ NotFailed(s)
  /\ InLists(s, X, Y) /\ Linked(s, GroupsOf(s, {}))

FocusFits(s) ==
  /\ s.focus # NULL => s.focus \in Shown(s)
  /\ Runs(s) /\ s.mode = "group" => s.focus # NULL

Good(s) == Core(s, {}, {}) /\ FocusFits(s)

(* What raising and lowering leave as it is.                               *)
Same(s, t) ==
  /\ t.sheet_of = s.sheet_of /\ t.group_of = s.group_of /\ t.hidden = s.hidden
  /\ t.current = s.current /\ t.focus = s.focus /\ t.cycling = s.cycling
  /\ t.mode = s.mode /\ t.typed = s.typed /\ t.cut = s.cut /\ t.fault = s.fault

LEMMA MappedHasPlace ==
  ASSUME NEW s \in States, Placed(s), NEW v \in Mapped(s)
  PROVE  /\ v \in View /\ s.group_of[v] \in Group /\ s.sheet_of[v] \in SheetId
         /\ OutputOf(s, v) \in Output /\ OutputsOf(s)[v] = OutputOf(s, v)
<1>1. v \in View /\ s.group_of[v] # NULL /\ s.group_of[v] \in Group
  BY DEF Mapped, States
<1>2. s.sheet_of[v] \in SheetId
  BY <1>1 DEF Placed, States
<1>3. s.sheet_of[v][1] \in Output
  BY <1>2 DEF SheetId
<1> QED
  BY <1>1, <1>2, <1>3 DEF OutputOf, OutputsOf

LEMMA SameStays ==
  ASSUME NEW s, NEW t, Same(s, t)
  PROVE  /\ Mapped(t) = Mapped(s) /\ Shown(t) = Shown(s) /\ OutputsOf(t) = OutputsOf(s)
         /\ (Placed(s) => Placed(t)) /\ (NotFailed(s) => NotFailed(t))
         /\ \A X : GroupsOf(t, X) = GroupsOf(s, X)
         /\ (FocusFits(s) => FocusFits(t))
BY DEF Same, Mapped, Shown, OutputsOf, OutputOf, Placed, NotFailed, GroupsOf, FocusFits, Runs

LEMMA UnlinkKeeps ==
  ASSUME NEW s \in States, NEW L, Linked(s, L), NEW g \in Group, g \in L
  PROVE  /\ Unlink(s, g) = [s EXCEPT !.next = Unlinked(s.next, s.prev, g),
                                     !.prev = Unlinked(s.prev, s.next, g)]
         /\ Unlink(s, g) \in States
         /\ Linked(Unlink(s, g), L \ {g})
<1> DEFINE a == Unlinked(s.next, s.prev, g)
           b == Unlinked(s.prev, s.next, g)
           t == [s EXCEPT !.next = a, !.prev = b]
<1>1. s.next[g] # NULL
  BY DEF Linked, Chain
<1>2. Unlink(s, g) = t
  BY <1>1 DEF Unlink, Unlinked, States
<1>3. Chain(a, b, L \ {g})
  BY ChainUnlinked DEF Linked
<1>4. ~s.cut => Ring(a, b, L \ {g})
  BY RingUnlinked DEF Linked
<1> HIDE DEF a, b
<1>5. a \in [Places -> Places \cup {NULL}] /\ b \in [Places -> Places \cup {NULL}]
  BY <1>3 DEF Chain
<1>6. t \in States
  BY <1>5 DEF States
<1>7. t.next = a /\ t.prev = b /\ t.cut = s.cut
  BY DEF States
<1>8. Linked(t, L \ {g})
  BY <1>3, <1>4, <1>7 DEF Linked
<1> QED
  BY <1>2, <1>6, <1>8 DEF a, b

LEMMA LinkAfterKeeps ==
  ASSUME NEW s \in States, NEW L, Linked(s, L), NEW g \in Group, g \notin L,
         NEW at \in Places, at = Root \/ at \in L
  PROVE  /\ LinkAfter(s, at, g) = [s EXCEPT !.next = LinkedNext(s.next, at, g),
                                            !.prev = LinkedPrev(s.next, s.prev, at, g)]
         /\ LinkAfter(s, at, g) \in States
         /\ Linked(LinkAfter(s, at, g), L \cup {g})
<1> DEFINE a == LinkedNext(s.next, at, g)
           b == LinkedPrev(s.next, s.prev, at, g)
           t == [s EXCEPT !.next = a, !.prev = b]
<1>1. LinkAfter(s, at, g) = t
  BY DEF LinkAfter, LinkedNext, LinkedPrev, States
<1>2. Chain(a, b, L \cup {g})
  BY ChainLinked DEF Linked
<1>3. ~s.cut => Ring(a, b, L \cup {g})
  BY RingLinked DEF Linked
<1> HIDE DEF a, b
<1>4. a \in [Places -> Places \cup {NULL}] /\ b \in [Places -> Places \cup {NULL}]
  BY <1>2 DEF Chain
<1>5. t \in States
  BY <1>4 DEF States
<1>6. t.next = a /\ t.prev = b /\ t.cut = s.cut
  BY DEF States
<1>7. Linked(t, L \cup {g})
  BY <1>2, <1>3, <1>6 DEF Linked
<1> QED
  BY <1>1, <1>5, <1>7 DEF a, b

LEMMA RootPrev ==
  ASSUME NEW s, NEW L, Linked(s, L)
  PROVE  s.prev[Root] \in Places /\ (s.prev[Root] = Root \/ s.prev[Root] \in L)
<1>1. Root \in Places /\ s.prev[Root] \in Places
  BY DEF Linked, Chain, Places
<1>2. ASSUME s.prev[Root] \in Group PROVE s.prev[Root] \in L
  <2>1. s.next[s.prev[Root]] = Root
    BY <1>1, <1>2 DEF Linked, Chain
  <2> QED
    BY <1>2, <2>1, NamesAssumption DEF Linked, Chain
<1> QED
  BY <1>1, <1>2 DEF Places

-----------------------------------------------------------------------------
(* What the operations do with the lists.                                  *)

(* The views, where they are mapped and which are hidden.                   *)
SameViews(s, t) ==
  /\ t.sheet_of = s.sheet_of /\ t.group_of = s.group_of /\ t.hidden = s.hidden

LEMMA SameViewsStay ==
  ASSUME NEW s, NEW t, SameViews(s, t)
  PROVE  /\ Mapped(t) = Mapped(s) /\ Shown(t) = Shown(s) /\ OutputsOf(t) = OutputsOf(s)
         /\ (Placed(s) => Placed(t)) /\ \A X : GroupsOf(t, X) = GroupsOf(s, X)
BY DEF SameViews, Mapped, Shown, OutputsOf, OutputOf, Placed, GroupsOf

TopOfAll(s, t, v) ==
  /\ t.stale        = s.stale \ {v}
  /\ t.sheet_views  = AtHead(s.sheet_views, s.sheet_of[v], v)
  /\ t.output_views = AtHead(s.output_views, OutputOf(s, v), v)
  /\ t.group_views  = AtHead(s.group_views, s.group_of[v], v)

TopOfVisible(s, t, v) ==
  /\ t.workspace_views     = AtHead(s.workspace_views, OutputOf(s, v), v)
  /\ t.visible_group_views = AtHead(s.visible_group_views, s.group_of[v], v)
  /\ t.visible_views       = <<v>> \o RemoveFirst(s.visible_views, v)

BottomOfAll(s, t, v) ==
  /\ t.stale        = s.stale \ {v}
  /\ t.sheet_views  = AtTail(s.sheet_views, s.sheet_of[v], v)
  /\ t.output_views = AtTail(s.output_views, OutputOf(s, v), v)
  /\ t.group_views  = AtTail(s.group_views, s.group_of[v], v)

BottomOfVisible(s, t, v) ==
  /\ t.workspace_views     = AtTail(s.workspace_views, OutputOf(s, v), v)
  /\ t.visible_group_views = AtTail(s.visible_group_views, s.group_of[v], v)
  /\ t.visible_views       = Append(RemoveFirst(s.visible_views, v), v)

AllTyped(t) ==
  /\ t.sheet_views \in [SheetId -> Seq(View)] /\ t.output_views \in [Output -> Seq(View)]
  /\ t.group_views \in [Group -> Seq(View)]

VisibleTyped(t) ==
  /\ t.workspace_views \in [Output -> Seq(View)]
  /\ t.visible_group_views \in [Group -> Seq(View)] /\ t.visible_views \in Seq(View)

LEMMA TypedLists ==
  ASSUME NEW s \in States PROVE AllTyped(s) /\ VisibleTyped(s)
BY DEF States, AllTyped, VisibleTyped

(* The room above and below the order, once a view has taken a place there.  *)
LEMMA RoomAbove ==
  ASSUME NEW r \in [View -> Int], NEW lo \in Int, NEW hi \in Int, Lowest(lo, View, r),
         Highest(hi, View, r), NEW v \in View
  PROVE  /\ [r EXCEPT ![v] = lo] \in [View -> Int]
         /\ Lowest(lo - 1, View, [r EXCEPT ![v] = lo]) /\ Highest(hi, View, [r EXCEPT ![v] = lo])
BY DEF Lowest, Highest

LEMMA RoomBelow ==
  ASSUME NEW r \in [View -> Int], NEW lo \in Int, NEW hi \in Int, Lowest(lo, View, r),
         Highest(hi, View, r), NEW v \in View
  PROVE  /\ [r EXCEPT ![v] = hi] \in [View -> Int]
         /\ Lowest(lo, View, [r EXCEPT ![v] = hi]) /\ Highest(hi + 1, View, [r EXCEPT ![v] = hi])
BY DEF Lowest, Highest

(* A view that takes a place at an end of the lists of all views stands     *)
(* where it should.                                                        *)
LEMMA StandsAgain ==
  ASSUME NEW s \in States, NEW v \in Mapped(s), s.sheet_of[v] \in SheetId, NEW X,
         X \subseteq {v}, NEW p \in [View -> Int], NEW k \in [View -> SheetId \cup {NULL}],
         NEW r \in [View -> Int], Stands(s, X, p, k, r), NEW e \in Int,
         NEW t, SameViews(s, t), t.stale = s.stale \ {v}
  PROVE  Stands(t, {}, [p EXCEPT ![v] = e], [k EXCEPT ![v] = s.sheet_of[v]], [r EXCEPT ![v] = e])
<1> DEFINE a == [p EXCEPT ![v] = e]
           b == [k EXCEPT ![v] = s.sheet_of[v]]
           c == [r EXCEPT ![v] = e]
<1>1. v \in View
  BY DEF Mapped
<1>2. a[v] = e /\ b[v] = s.sheet_of[v] /\ c[v] = e
  BY <1>1
<1>3. \A w \in View \ {v} : a[w] = p[w] /\ b[w] = k[w] /\ c[w] = r[w]
  OBVIOUS
<1>4. Mapped(t) = Mapped(s) /\ t.sheet_of = s.sheet_of
  BY SameViewsStay DEF SameViews
<1> HIDE DEF a, b, c
<1>5. StandsAt(t, v, a, b, c)
  BY <1>2, <1>4 DEF StandsAt
<1>6. ASSUME NEW w \in View \ {v} PROVE StandsAt(t, w, a, b, c)
  <2>1. StandsAt(s, w, p, k, r)
    BY <1>6 DEF Stands
  <2>2. a[w] = p[w] /\ b[w] = k[w] /\ c[w] = r[w]
    BY <1>3
  <2>3. w \in t.stale <=> w \in s.stale
    OBVIOUS
  <2> QED
    BY <1>4, <2>1, <2>2, <2>3 DEF StandsAt, OutputOf
<1>7. \A w \in View \ {} : StandsAt(t, w, a, b, c)
  BY <1>5, <1>6
<1> QED
  BY <1>7 DEF Stands, a, b, c

LEMMA ToTopOfAll ==
  ASSUME NEW s \in States, Placed(s), NEW v \in Mapped(s), NEW X, X \subseteq {v},
         NEW r \in [View -> Int], NEW lo \in Int, NEW hi \in Int, InAll(s, X, r, lo, hi),
         NEW t, SameViews(s, t), TopOfAll(s, t, v)
  PROVE  AllTyped(t) /\ InAll(t, {}, [r EXCEPT ![v] = lo], lo - 1, hi)
<1>0. PICK p, k : /\ Ranks(p, lo, hi) /\ k \in [View -> SheetId \cup {NULL}]
                  /\ Stands(s, X, p, k, r) /\ AllAt(s, X, p, k)
  BY DEF InAll
<1> DEFINE q == [p EXCEPT ![v] = lo]
           d == [k EXCEPT ![v] = s.sheet_of[v]]
<1>1. /\ v \in View /\ s.group_of[v] \in Group /\ s.sheet_of[v] \in SheetId
      /\ OutputOf(s, v) \in Output /\ OutputsOf(s)[v] = OutputOf(s, v)
  BY MappedHasPlace
<1>2. AllTyped(s)
  BY TypedLists
<1>9. p \in [View -> Int] /\ Lowest(lo, View, p) /\ Highest(hi, View, p)
  BY <1>0 DEF Ranks
<1>3. t.sheet_views \in [SheetId -> Seq(View)] /\ Shelf(t.sheet_views, d, Mapped(s), {}, q)
  <2>1. s.sheet_views \in [SheetId -> Seq(View)]
    BY <1>2 DEF AllTyped
  <2>2. d \in [View -> SheetId \cup {NULL}] /\ d[v] = s.sheet_of[v]
        /\ Agrees(v, k, Mapped(s), d, Mapped(s))
    BY <1>0, <1>1 DEF Agrees
  <2> HIDE DEF d
  <2>3. Shelf(s.sheet_views, k, Mapped(s), X, p)
    BY <1>0 DEF AllAt
  <2>4. Shelf(s.sheet_views, d, Mapped(s), X \cup {v}, p)
    BY <2>2, <2>3, ShelfAgrees
  <2>5. X \cup {v} = {v}
    OBVIOUS
  <2>6. Shelf(s.sheet_views, d, Mapped(s), {v}, p)
    BY <2>4, <2>5
  <2>7. t.sheet_views = AtHead(s.sheet_views, d[v], v)
    BY <1>1, <2>2 DEF TopOfAll
  <2>8. v \in View /\ v \in Mapped(s) /\ d[v] \in SheetId
    BY <1>1, <2>2
  <2>9. /\ AtHead(s.sheet_views, d[v], v) \in [SheetId -> Seq(View)]
        /\ Shelf(AtHead(s.sheet_views, d[v], v), d, Mapped(s), {}, [p EXCEPT ![v] = lo])
    BY <1>9, <2>1, <2>6, <2>8, ShelfTop
  <2> QED
    BY <2>7, <2>9
<1>4. t.output_views \in [Output -> Seq(View)] /\ Shelf(t.output_views, OutputsOf(s), Mapped(s), {}, q)
  <2>1. s.output_views \in [Output -> Seq(View)]
    BY <1>2 DEF AllTyped
  <2>2. Shelf(s.output_views, OutputsOf(s), Mapped(s), X, p)
    BY <1>0 DEF AllAt
  <2>3. t.output_views = AtHead(s.output_views, OutputsOf(s)[v], v)
    BY <1>1 DEF TopOfAll
  <2>4. v \in View /\ v \in Mapped(s) /\ OutputsOf(s)[v] \in Output
    BY <1>1
  <2>5. /\ AtHead(s.output_views, OutputsOf(s)[v], v) \in [Output -> Seq(View)]
        /\ Shelf(AtHead(s.output_views, OutputsOf(s)[v], v), OutputsOf(s), Mapped(s), {}, [p EXCEPT ![v] = lo])
    BY <1>9, <2>1, <2>2, <2>4, ShelfTop
  <2> QED
    BY <2>3, <2>5
<1>5. t.group_views \in [Group -> Seq(View)] /\ Shelf(t.group_views, s.group_of, Mapped(s), {}, q)
  <2>1. s.group_views \in [Group -> Seq(View)]
    BY <1>2 DEF AllTyped
  <2>2. Shelf(s.group_views, s.group_of, Mapped(s), X, p)
    BY <1>0 DEF AllAt
  <2>3. t.group_views = AtHead(s.group_views, s.group_of[v], v)
    BY <1>1 DEF TopOfAll
  <2>4. v \in View /\ v \in Mapped(s) /\ s.group_of[v] \in Group
    BY <1>1
  <2>5. /\ AtHead(s.group_views, s.group_of[v], v) \in [Group -> Seq(View)]
        /\ Shelf(AtHead(s.group_views, s.group_of[v], v), s.group_of, Mapped(s), {}, [p EXCEPT ![v] = lo])
    BY <1>9, <2>1, <2>2, <2>4, ShelfTop
  <2> QED
    BY <2>3, <2>5
<1>6. q \in [View -> Int] /\ Lowest(lo - 1, View, q) /\ Highest(hi, View, q)
  BY <1>1, <1>9, RoomAbove
<1>7. Stands(t, {}, q, d, [r EXCEPT ![v] = lo])
  <2>1. t.stale = s.stale \ {v}
    BY DEF TopOfAll
  <2> QED
    BY <1>0, <1>1, <1>9, <2>1, StandsAgain
<1>8. d \in [View -> SheetId \cup {NULL}]
  BY <1>0, <1>1
<1> HIDE DEF q, d
<1>10. AllAt(t, {}, q, d) /\ AllTyped(t)
  BY <1>3, <1>4, <1>5, SameViewsStay DEF AllAt, AllTyped, SameViews
<1>11. Ranks(q, lo - 1, hi)
  BY <1>6 DEF Ranks
<1> QED
  BY <1>7, <1>8, <1>10, <1>11 DEF InAll

LEMMA ToTopOfVisible ==
  ASSUME NEW s \in States, Placed(s), NEW v \in Shown(s), NEW X, X \subseteq {v},
         NEW r \in [View -> Int], NEW lo \in Int, Lowest(lo, View, r), InVisible(s, X, r),
         NEW t, SameViews(s, t), TopOfVisible(s, t, v)
  PROVE  VisibleTyped(t) /\ InVisible(t, {}, [r EXCEPT ![v] = lo])
<1> DEFINE q == [r EXCEPT ![v] = lo]
<1>1. /\ v \in View /\ s.group_of[v] \in Group
      /\ OutputOf(s, v) \in Output /\ OutputsOf(s)[v] = OutputOf(s, v)
  BY MappedHasPlace DEF Shown
<1>2. VisibleTyped(s)
  BY TypedLists
<1>3. t.workspace_views \in [Output -> Seq(View)] /\ Shelf(t.workspace_views, OutputsOf(s), Shown(s), {}, q)
  <2>1. s.workspace_views \in [Output -> Seq(View)]
    BY <1>2 DEF VisibleTyped
  <2>2. Shelf(s.workspace_views, OutputsOf(s), Shown(s), X, r)
    BY DEF InVisible
  <2>3. t.workspace_views = AtHead(s.workspace_views, OutputsOf(s)[v], v)
    BY <1>1 DEF TopOfVisible
  <2>4. v \in View /\ v \in Shown(s) /\ OutputsOf(s)[v] \in Output
    BY <1>1
  <2>5. /\ AtHead(s.workspace_views, OutputsOf(s)[v], v) \in [Output -> Seq(View)]
        /\ Shelf(AtHead(s.workspace_views, OutputsOf(s)[v], v), OutputsOf(s), Shown(s), {}, [r EXCEPT ![v] = lo])
    BY <2>1, <2>2, <2>4, ShelfTop
  <2> QED
    BY <2>3, <2>5
<1>4. t.visible_group_views \in [Group -> Seq(View)] /\ Shelf(t.visible_group_views, s.group_of, Shown(s), {}, q)
  <2>1. s.visible_group_views \in [Group -> Seq(View)]
    BY <1>2 DEF VisibleTyped
  <2>2. Shelf(s.visible_group_views, s.group_of, Shown(s), X, r)
    BY DEF InVisible
  <2>3. t.visible_group_views = AtHead(s.visible_group_views, s.group_of[v], v)
    BY <1>1 DEF TopOfVisible
  <2>4. v \in View /\ v \in Shown(s) /\ s.group_of[v] \in Group
    BY <1>1
  <2>5. /\ AtHead(s.visible_group_views, s.group_of[v], v) \in [Group -> Seq(View)]
        /\ Shelf(AtHead(s.visible_group_views, s.group_of[v], v), s.group_of, Shown(s), {}, [r EXCEPT ![v] = lo])
    BY <2>1, <2>2, <2>4, ShelfTop
  <2> QED
    BY <2>3, <2>5
<1>5. t.visible_views \in Seq(View) /\ Line(t.visible_views, Shown(s), {}, q)
  <2>1. s.visible_views \in Seq(View)
    BY <1>2 DEF VisibleTyped
  <2>2. Line(s.visible_views, Shown(s), X, r)
    BY DEF InVisible
  <2>3. t.visible_views = <<v>> \o RemoveFirst(s.visible_views, v)
    BY DEF TopOfVisible
  <2>4. /\ <<v>> \o RemoveFirst(s.visible_views, v) \in Seq(View)
        /\ Line(<<v>> \o RemoveFirst(s.visible_views, v), Shown(s), {}, [r EXCEPT ![v] = lo])
    BY <1>1, <2>1, <2>2, LineTop
  <2> QED
    BY <2>3, <2>4
<1> HIDE DEF q
<1>6. InVisible(t, {}, q) /\ VisibleTyped(t)
  BY <1>3, <1>4, <1>5, SameViewsStay DEF InVisible, VisibleTyped, SameViews
<1> QED
  BY <1>6 DEF q

LEMMA ToBottomOfAll ==
  ASSUME NEW s \in States, Placed(s), NEW v \in Mapped(s), NEW X, X \subseteq {v},
         NEW r \in [View -> Int], NEW lo \in Int, NEW hi \in Int, InAll(s, X, r, lo, hi),
         NEW t, SameViews(s, t), BottomOfAll(s, t, v)
  PROVE  AllTyped(t) /\ InAll(t, {}, [r EXCEPT ![v] = hi], lo, hi + 1)
<1>0. PICK p, k : /\ Ranks(p, lo, hi) /\ k \in [View -> SheetId \cup {NULL}]
                  /\ Stands(s, X, p, k, r) /\ AllAt(s, X, p, k)
  BY DEF InAll
<1> DEFINE q == [p EXCEPT ![v] = hi]
           d == [k EXCEPT ![v] = s.sheet_of[v]]
<1>1. /\ v \in View /\ s.group_of[v] \in Group /\ s.sheet_of[v] \in SheetId
      /\ OutputOf(s, v) \in Output /\ OutputsOf(s)[v] = OutputOf(s, v)
  BY MappedHasPlace
<1>2. AllTyped(s)
  BY TypedLists
<1>9. p \in [View -> Int] /\ Lowest(lo, View, p) /\ Highest(hi, View, p)
  BY <1>0 DEF Ranks
<1>3. t.sheet_views \in [SheetId -> Seq(View)] /\ Shelf(t.sheet_views, d, Mapped(s), {}, q)
  <2>1. s.sheet_views \in [SheetId -> Seq(View)]
    BY <1>2 DEF AllTyped
  <2>2. d \in [View -> SheetId \cup {NULL}] /\ d[v] = s.sheet_of[v]
        /\ Agrees(v, k, Mapped(s), d, Mapped(s))
    BY <1>0, <1>1 DEF Agrees
  <2> HIDE DEF d
  <2>3. Shelf(s.sheet_views, k, Mapped(s), X, p)
    BY <1>0 DEF AllAt
  <2>4. Shelf(s.sheet_views, d, Mapped(s), X \cup {v}, p)
    BY <2>2, <2>3, ShelfAgrees
  <2>5. X \cup {v} = {v}
    OBVIOUS
  <2>6. Shelf(s.sheet_views, d, Mapped(s), {v}, p)
    BY <2>4, <2>5
  <2>7. t.sheet_views = AtTail(s.sheet_views, d[v], v)
    BY <1>1, <2>2 DEF BottomOfAll
  <2>8. v \in View /\ v \in Mapped(s) /\ d[v] \in SheetId
    BY <1>1, <2>2
  <2>9. /\ AtTail(s.sheet_views, d[v], v) \in [SheetId -> Seq(View)]
        /\ Shelf(AtTail(s.sheet_views, d[v], v), d, Mapped(s), {}, [p EXCEPT ![v] = hi])
    BY <1>9, <2>1, <2>6, <2>8, ShelfBottom
  <2> QED
    BY <2>7, <2>9
<1>4. t.output_views \in [Output -> Seq(View)] /\ Shelf(t.output_views, OutputsOf(s), Mapped(s), {}, q)
  <2>1. s.output_views \in [Output -> Seq(View)]
    BY <1>2 DEF AllTyped
  <2>2. Shelf(s.output_views, OutputsOf(s), Mapped(s), X, p)
    BY <1>0 DEF AllAt
  <2>3. t.output_views = AtTail(s.output_views, OutputsOf(s)[v], v)
    BY <1>1 DEF BottomOfAll
  <2>4. v \in View /\ v \in Mapped(s) /\ OutputsOf(s)[v] \in Output
    BY <1>1
  <2>5. /\ AtTail(s.output_views, OutputsOf(s)[v], v) \in [Output -> Seq(View)]
        /\ Shelf(AtTail(s.output_views, OutputsOf(s)[v], v), OutputsOf(s), Mapped(s), {}, [p EXCEPT ![v] = hi])
    BY <1>9, <2>1, <2>2, <2>4, ShelfBottom
  <2> QED
    BY <2>3, <2>5
<1>5. t.group_views \in [Group -> Seq(View)] /\ Shelf(t.group_views, s.group_of, Mapped(s), {}, q)
  <2>1. s.group_views \in [Group -> Seq(View)]
    BY <1>2 DEF AllTyped
  <2>2. Shelf(s.group_views, s.group_of, Mapped(s), X, p)
    BY <1>0 DEF AllAt
  <2>3. t.group_views = AtTail(s.group_views, s.group_of[v], v)
    BY <1>1 DEF BottomOfAll
  <2>4. v \in View /\ v \in Mapped(s) /\ s.group_of[v] \in Group
    BY <1>1
  <2>5. /\ AtTail(s.group_views, s.group_of[v], v) \in [Group -> Seq(View)]
        /\ Shelf(AtTail(s.group_views, s.group_of[v], v), s.group_of, Mapped(s), {}, [p EXCEPT ![v] = hi])
    BY <1>9, <2>1, <2>2, <2>4, ShelfBottom
  <2> QED
    BY <2>3, <2>5
<1>6. q \in [View -> Int] /\ Lowest(lo, View, q) /\ Highest(hi + 1, View, q)
  BY <1>1, <1>9, RoomBelow
<1>7. Stands(t, {}, q, d, [r EXCEPT ![v] = hi])
  <2>1. t.stale = s.stale \ {v}
    BY DEF BottomOfAll
  <2> QED
    BY <1>0, <1>1, <1>9, <2>1, StandsAgain
<1>8. d \in [View -> SheetId \cup {NULL}]
  BY <1>0, <1>1
<1> HIDE DEF q, d
<1>10. AllAt(t, {}, q, d) /\ AllTyped(t)
  BY <1>3, <1>4, <1>5, SameViewsStay DEF AllAt, AllTyped, SameViews
<1>11. Ranks(q, lo, hi + 1)
  BY <1>6 DEF Ranks
<1> QED
  BY <1>7, <1>8, <1>10, <1>11 DEF InAll

LEMMA ToBottomOfVisible ==
  ASSUME NEW s \in States, Placed(s), NEW v \in Shown(s), NEW X, X \subseteq {v},
         NEW r \in [View -> Int], NEW hi \in Int, Highest(hi, View, r), InVisible(s, X, r),
         NEW t, SameViews(s, t), BottomOfVisible(s, t, v)
  PROVE  VisibleTyped(t) /\ InVisible(t, {}, [r EXCEPT ![v] = hi])
<1> DEFINE q == [r EXCEPT ![v] = hi]
<1>1. /\ v \in View /\ s.group_of[v] \in Group
      /\ OutputOf(s, v) \in Output /\ OutputsOf(s)[v] = OutputOf(s, v)
  BY MappedHasPlace DEF Shown
<1>2. VisibleTyped(s)
  BY TypedLists
<1>3. t.workspace_views \in [Output -> Seq(View)] /\ Shelf(t.workspace_views, OutputsOf(s), Shown(s), {}, q)
  <2>1. s.workspace_views \in [Output -> Seq(View)]
    BY <1>2 DEF VisibleTyped
  <2>2. Shelf(s.workspace_views, OutputsOf(s), Shown(s), X, r)
    BY DEF InVisible
  <2>3. t.workspace_views = AtTail(s.workspace_views, OutputsOf(s)[v], v)
    BY <1>1 DEF BottomOfVisible
  <2>4. v \in View /\ v \in Shown(s) /\ OutputsOf(s)[v] \in Output
    BY <1>1
  <2>5. /\ AtTail(s.workspace_views, OutputsOf(s)[v], v) \in [Output -> Seq(View)]
        /\ Shelf(AtTail(s.workspace_views, OutputsOf(s)[v], v), OutputsOf(s), Shown(s), {}, [r EXCEPT ![v] = hi])
    BY <2>1, <2>2, <2>4, ShelfBottom
  <2> QED
    BY <2>3, <2>5
<1>4. t.visible_group_views \in [Group -> Seq(View)] /\ Shelf(t.visible_group_views, s.group_of, Shown(s), {}, q)
  <2>1. s.visible_group_views \in [Group -> Seq(View)]
    BY <1>2 DEF VisibleTyped
  <2>2. Shelf(s.visible_group_views, s.group_of, Shown(s), X, r)
    BY DEF InVisible
  <2>3. t.visible_group_views = AtTail(s.visible_group_views, s.group_of[v], v)
    BY <1>1 DEF BottomOfVisible
  <2>4. v \in View /\ v \in Shown(s) /\ s.group_of[v] \in Group
    BY <1>1
  <2>5. /\ AtTail(s.visible_group_views, s.group_of[v], v) \in [Group -> Seq(View)]
        /\ Shelf(AtTail(s.visible_group_views, s.group_of[v], v), s.group_of, Shown(s), {}, [r EXCEPT ![v] = hi])
    BY <2>1, <2>2, <2>4, ShelfBottom
  <2> QED
    BY <2>3, <2>5
<1>5. t.visible_views \in Seq(View) /\ Line(t.visible_views, Shown(s), {}, q)
  <2>1. s.visible_views \in Seq(View)
    BY <1>2 DEF VisibleTyped
  <2>2. Line(s.visible_views, Shown(s), X, r)
    BY DEF InVisible
  <2>3. t.visible_views = Append(RemoveFirst(s.visible_views, v), v)
    BY DEF BottomOfVisible
  <2>4. /\ Append(RemoveFirst(s.visible_views, v), v) \in Seq(View)
        /\ Line(Append(RemoveFirst(s.visible_views, v), v), Shown(s), {}, [r EXCEPT ![v] = hi])
    BY <1>1, <2>1, <2>2, LineBottom
  <2> QED
    BY <2>3, <2>4
<1> HIDE DEF q
<1>6. InVisible(t, {}, q) /\ VisibleTyped(t)
  BY <1>3, <1>4, <1>5, SameViewsStay DEF InVisible, VisibleTyped, SameViews
<1> QED
  BY <1>6 DEF q

LEMMA TopOfEveryList ==
  ASSUME NEW s \in States, Placed(s), NEW v \in Shown(s), InLists(s, {v}, {v}),
         NEW t, SameViews(s, t), TopOfAll(s, t, v), TopOfVisible(s, t, v)
  PROVE  InLists(t, {}, {})
<1>1. PICK r, lo, hi : Ordered(s, {v}, {v}, r, lo, hi)
  BY DEF InLists
<1>2. v \in View /\ v \in Mapped(s)
  BY DEF Shown, Mapped
<1> DEFINE q == [r EXCEPT ![v] = lo]
<1>3. InAll(t, {}, q, lo - 1, hi) /\ InVisible(t, {}, q)
  BY <1>1, <1>2, ToTopOfAll, ToTopOfVisible DEF Ordered
<1>4. q \in [View -> Int] /\ Lowest(lo - 1, View, q) /\ Highest(hi, View, q) /\ lo - 1 \in Int
  <2>1. r \in [View -> Int] /\ lo \in Int /\ hi \in Int /\ Lowest(lo, View, r) /\ Highest(hi, View, r)
    BY <1>1 DEF Ordered
  <2>2. /\ [r EXCEPT ![v] = lo] \in [View -> Int] /\ Lowest(lo - 1, View, [r EXCEPT ![v] = lo])
        /\ Highest(hi, View, [r EXCEPT ![v] = lo])
    BY <1>2, <2>1, RoomAbove
  <2> QED
    BY <2>1, <2>2
<1> HIDE DEF q
<1>5. Ordered(t, {}, {}, q, lo - 1, hi)
  BY <1>1, <1>3, <1>4 DEF Ordered
<1> QED
  BY <1>5 DEF InLists

LEMMA BottomOfEveryList ==
  ASSUME NEW s \in States, Placed(s), NEW v \in Shown(s), InLists(s, {v}, {v}),
         NEW t, SameViews(s, t), BottomOfAll(s, t, v), BottomOfVisible(s, t, v)
  PROVE  InLists(t, {}, {})
<1>1. PICK r, lo, hi : Ordered(s, {v}, {v}, r, lo, hi)
  BY DEF InLists
<1>2. v \in View /\ v \in Mapped(s)
  BY DEF Shown, Mapped
<1> DEFINE q == [r EXCEPT ![v] = hi]
<1>3. InAll(t, {}, q, lo, hi + 1) /\ InVisible(t, {}, q)
  BY <1>1, <1>2, ToBottomOfAll, ToBottomOfVisible DEF Ordered
<1>4. q \in [View -> Int] /\ Lowest(lo, View, q) /\ Highest(hi + 1, View, q) /\ hi + 1 \in Int
  <2>1. r \in [View -> Int] /\ lo \in Int /\ hi \in Int /\ Lowest(lo, View, r) /\ Highest(hi, View, r)
    BY <1>1 DEF Ordered
  <2>2. /\ [r EXCEPT ![v] = hi] \in [View -> Int] /\ Lowest(lo, View, [r EXCEPT ![v] = hi])
        /\ Highest(hi + 1, View, [r EXCEPT ![v] = hi])
    BY <1>2, <2>1, RoomBelow
  <2> QED
    BY <2>1, <2>2
<1> HIDE DEF q
<1>5. Ordered(t, {}, {}, q, lo, hi + 1)
  BY <1>1, <1>3, <1>4 DEF Ordered
<1> QED
  BY <1>5 DEF InLists

(* A hidden view is only in the lists of all views.                         *)
LEMMA TopOfListsOfAll ==
  ASSUME NEW s \in States, Placed(s), NEW v \in Mapped(s) \ Shown(s), InLists(s, {v}, {}),
         NEW t, SameViews(s, t), TopOfAll(s, t, v),
         t.workspace_views = s.workspace_views, t.visible_views = s.visible_views,
         t.visible_group_views = s.visible_group_views
  PROVE  InLists(t, {}, {})
<1>1. PICK r, lo, hi : Ordered(s, {v}, {}, r, lo, hi)
  BY DEF InLists
<1>2. v \in View /\ v \in Mapped(s)
  BY DEF Shown, Mapped
<1> DEFINE q == [r EXCEPT ![v] = lo]
<1>3. InAll(t, {}, q, lo - 1, hi)
  BY <1>1, <1>2, ToTopOfAll DEF Ordered
<1>4. q \in [View -> Int] /\ Lowest(lo - 1, View, q) /\ Highest(hi, View, q) /\ lo - 1 \in Int
  <2>1. r \in [View -> Int] /\ lo \in Int /\ hi \in Int /\ Lowest(lo, View, r) /\ Highest(hi, View, r)
    BY <1>1 DEF Ordered
  <2>2. /\ [r EXCEPT ![v] = lo] \in [View -> Int] /\ Lowest(lo - 1, View, [r EXCEPT ![v] = lo])
        /\ Highest(hi, View, [r EXCEPT ![v] = lo])
    BY <1>2, <2>1, RoomAbove
  <2> QED
    BY <2>1, <2>2
<1>5. \A w \in View \ {v} : q[w] = r[w]
  BY <1>1 DEF Ordered
<1> HIDE DEF q
<1>6. /\ Shelf(s.workspace_views, OutputsOf(s), Shown(s), {}, q)
      /\ Shelf(s.visible_group_views, s.group_of, Shown(s), {}, q)
      /\ Line(s.visible_views, Shown(s), {}, q)
  <2>1. VisibleTyped(s) /\ InVisible(s, {}, r)
    BY <1>1, TypedLists DEF Ordered
  <2> QED
    BY <1>2, <1>5, <2>1, ShelfElsewhere, LineElsewhere DEF VisibleTyped, InVisible
<1>7. InVisible(t, {}, q)
  BY <1>6, SameViewsStay DEF InVisible, SameViews
<1>8. Ordered(t, {}, {}, q, lo - 1, hi)
  BY <1>1, <1>3, <1>4, <1>7 DEF Ordered
<1> QED
  BY <1>8 DEF InLists

-----------------------------------------------------------------------------
(* Raising and lowering                                                    *)

LEMMA LinkedAgain ==
  ASSUME NEW s \in States, NEW L, Linked(s, L), NEW g \in Group, g \in L
  PROVE  LET t == Unlink(s, g)
             w == LinkAfter(t, Root, g)
             x == LinkAfter(t, t.prev[Root], g)
         IN  /\ w \in States /\ w = [s EXCEPT !.next = w.next, !.prev = w.prev] /\ Linked(w, L)
             /\ x \in States /\ x = [s EXCEPT !.next = x.next, !.prev = x.prev] /\ Linked(x, L)
<1> DEFINE t == Unlink(s, g)
           M == L \ {g}
<1>1. /\ t = [s EXCEPT !.next = Unlinked(s.next, s.prev, g), !.prev = Unlinked(s.prev, s.next, g)]
      /\ t \in States /\ Linked(t, M)
  BY UnlinkKeeps
<1>2. g \notin M /\ M \cup {g} = L
  OBVIOUS
<1>3. Root \in Places
  BY DEF Places
<1> HIDE DEF t, M
<1>4. ASSUME NEW at \in Places, at = Root \/ at \in M
      PROVE  /\ LinkAfter(t, at, g) \in States /\ Linked(LinkAfter(t, at, g), L)
             /\ LinkAfter(t, at, g) = [s EXCEPT !.next = LinkAfter(t, at, g).next,
                                                !.prev = LinkAfter(t, at, g).prev]
  <2> DEFINE w == LinkAfter(t, at, g)
  <2>0. t \in States /\ Linked(t, M) /\ g \notin M
    BY <1>1, <1>2
  <2> HIDE DEF w
  <2>1. /\ w = [t EXCEPT !.next = LinkedNext(t.next, at, g),
                         !.prev = LinkedPrev(t.next, t.prev, at, g)]
        /\ w \in States /\ Linked(w, M \cup {g})
    BY <1>4, <2>0, LinkAfterKeeps DEF w
  <2>2. w = [s EXCEPT !.next = w.next, !.prev = w.prev]
    BY <1>1, <2>1 DEF States
  <2> QED
    BY <1>2, <2>1, <2>2 DEF w
<1>5. t.prev[Root] \in Places /\ (t.prev[Root] = Root \/ t.prev[Root] \in M)
  BY <1>1, RootPrev
<1> QED
  BY <1>3, <1>4, <1>5 DEF t

LEMMA SameIsSameViews ==
  ASSUME NEW s, NEW t, Same(s, t) PROVE SameViews(s, t)
BY DEF Same, SameViews

LEMMA LinkedStays ==
  ASSUME NEW s, NEW t, NEW L, Linked(s, L), t.next = s.next, t.prev = s.prev, t.cut = s.cut
  PROVE  Linked(t, L)
BY DEF Linked

LEMMA GroupIsLinked ==
  ASSUME NEW s \in States, Placed(s), NEW v \in Shown(s)
  PROVE  v \in Mapped(s) /\ s.group_of[v] \in Group /\ s.group_of[v] \in GroupsOf(s, {})
BY MappedHasPlace DEF Shown, GroupsOf

LEMMA RaiseViewKeeps ==
  ASSUME NEW s, NEW v \in Shown(s), Core(s, {v}, {v})
  PROVE  /\ Core(RaiseView(s, v), {}, {}) /\ Same(s, RaiseView(s, v))
         /\ TopOfVisible(s, RaiseView(s, v), v)
<1> DEFINE g == s.group_of[v]
           m == MoveToTop(s, v)
           w == LinkAfter(Unlink(m, g), Root, g)
           z == RaiseView(s, v)
           L == GroupsOf(s, {})
<1>1. s \in States /\ Placed(s) /\ NotFailed(s) /\ InLists(s, {v}, {v}) /\ Linked(s, L)
  BY DEF Core
<1>2. v \in Mapped(s) /\ g \in Group /\ g \in L /\ v \in View /\ v \notin s.hidden
  BY <1>1, GroupIsLinked DEF Shown, Mapped
<1>3. PICK r, lo, hi : Ordered(s, {v}, {v}, r, lo, hi)
  BY <1>1 DEF InLists
<1>4. m = [s EXCEPT !.sheet_views = m.sheet_views, !.group_views = m.group_views,
                    !.output_views = m.output_views, !.stale = m.stale]
      /\ TopOfAll(s, m, v)
  BY <1>1 DEF MoveToTop, TopOfAll, States
<1>5. Same(s, m) /\ m.next = s.next /\ m.prev = s.prev
  BY <1>1, <1>4 DEF Same, States
<1>6. AllTyped(m)
  BY <1>1, <1>2, <1>3, <1>4, <1>5, SameIsSameViews, ToTopOfAll DEF Ordered
<1>20. m.stale \in SUBSET View
  BY <1>1, <1>4 DEF States, TopOfAll
<1>7. m \in States
  BY <1>1, <1>4, <1>6, <1>20 DEF States, AllTyped
<1>8. Linked(m, L)
  BY <1>1, <1>5, LinkedStays DEF Same
<1>9. w \in States /\ w = [m EXCEPT !.next = w.next, !.prev = w.prev] /\ Linked(w, L)
  BY <1>2, <1>7, <1>8, LinkedAgain
<1>10. z = [w EXCEPT !.visible_views = <<v>> \o RemoveFirst(@, v),
                     !.visible_group_views = AtHead(@, g, v),
                     !.workspace_views = AtHead(@, OutputOf(s, v), v)]
  BY <1>2, <1>5 DEF RaiseView, PlaceVisiblyAbove, Same
<1> HIDE DEF m, w, z, L
<1>11. Same(s, z) /\ z.next = w.next /\ z.prev = w.prev /\ TopOfAll(s, z, v)
  <2>1. /\ Same(m, w) /\ w.sheet_views = m.sheet_views /\ w.output_views = m.output_views
        /\ w.group_views = m.group_views /\ w.stale = m.stale
    BY <1>7, <1>9 DEF Same, States
  <2>2. /\ Same(w, z) /\ z.sheet_views = w.sheet_views /\ z.output_views = w.output_views
        /\ z.group_views = w.group_views /\ z.next = w.next /\ z.prev = w.prev
        /\ z.stale = w.stale
    BY <1>9, <1>10 DEF Same, States
  <2>3. Same(s, z)
    BY <1>5, <2>1, <2>2 DEF Same
  <2> QED
    BY <1>4, <2>1, <2>2, <2>3 DEF TopOfAll
<1>12. TopOfVisible(s, z, v)
  <2>0. /\ m.visible_views = s.visible_views /\ m.workspace_views = s.workspace_views
        /\ m.visible_group_views = s.visible_group_views
    BY <1>1, <1>4 DEF States
  <2>1. /\ w.visible_views = s.visible_views /\ w.workspace_views = s.workspace_views
        /\ w.visible_group_views = s.visible_group_views
    BY <1>7, <1>9, <2>0 DEF States
  <2>2. /\ z.visible_views = <<v>> \o RemoveFirst(w.visible_views, v)
        /\ z.visible_group_views = AtHead(w.visible_group_views, g, v)
        /\ z.workspace_views = AtHead(w.workspace_views, OutputOf(s, v), v)
    BY <1>9, <1>10 DEF States
  <2> QED
    BY <2>1, <2>2 DEF TopOfVisible
<1>13. SameViews(s, z)
  BY <1>11, SameIsSameViews
<1>14. AllTyped(z) /\ VisibleTyped(z)
  BY <1>1, <1>2, <1>3, <1>11, <1>12, <1>13, ToTopOfAll, ToTopOfVisible DEF Ordered
<1>15. z \in States
  BY <1>9, <1>10, <1>14 DEF States, VisibleTyped, AllTyped
<1>16. InLists(z, {}, {})
  BY <1>1, <1>11, <1>12, <1>13, TopOfEveryList
<1>17. w.cut = z.cut
  BY <1>9, <1>10 DEF States
<1>18. Linked(z, L)
  BY <1>9, <1>11, <1>17, LinkedStays
<1>19. Placed(z) /\ NotFailed(z) /\ GroupsOf(z, {}) = L
  BY <1>1, <1>11, SameStays DEF L
<1> QED
  BY <1>11, <1>12, <1>15, <1>16, <1>18, <1>19 DEF Core, z

(* A view that is hidden is only moved among all views.                     *)
LEMMA MoveToTopKeeps ==
  ASSUME NEW s, NEW v \in Mapped(s), v \in s.hidden, Core(s, {v}, {})
  PROVE  Core(MoveToTop(s, v), {}, {}) /\ Same(s, MoveToTop(s, v))
<1> DEFINE m == MoveToTop(s, v)
           L == GroupsOf(s, {})
<1>1. s \in States /\ Placed(s) /\ NotFailed(s) /\ InLists(s, {v}, {}) /\ Linked(s, L)
  BY DEF Core
<1>2. v \in View /\ v \in Mapped(s) \ Shown(s)
  BY DEF Shown, Mapped
<1>3. PICK r, lo, hi : Ordered(s, {v}, {}, r, lo, hi)
  BY <1>1 DEF InLists
<1>4. m = [s EXCEPT !.sheet_views = m.sheet_views, !.group_views = m.group_views,
                    !.output_views = m.output_views, !.stale = m.stale]
      /\ TopOfAll(s, m, v)
  BY <1>1 DEF MoveToTop, TopOfAll, States
<1> HIDE DEF m, L
<1>5. /\ Same(s, m) /\ m.next = s.next /\ m.prev = s.prev /\ m.visible_views = s.visible_views
      /\ m.workspace_views = s.workspace_views /\ m.visible_group_views = s.visible_group_views
  BY <1>1, <1>4 DEF Same, States
<1>6. SameViews(s, m)
  BY <1>5, SameIsSameViews
<1>7. AllTyped(m)
  BY <1>1, <1>3, <1>4, <1>6, ToTopOfAll DEF Ordered
<1>12. m.stale \in SUBSET View
  BY <1>1, <1>4 DEF States, TopOfAll
<1>8. m \in States
  BY <1>1, <1>4, <1>7, <1>12 DEF States, AllTyped
<1>9. Linked(m, L)
  BY <1>1, <1>5, LinkedStays DEF Same
<1>10. InLists(m, {}, {})
  BY <1>1, <1>2, <1>4, <1>5, <1>6, TopOfListsOfAll
<1>11. Placed(m) /\ NotFailed(m) /\ GroupsOf(m, {}) = L
  BY <1>1, <1>5, SameStays DEF L
<1> QED
  BY <1>5, <1>8, <1>9, <1>10, <1>11 DEF Core, m

(* What holds of all views holds of all but v.                              *)
LEMMA AllButFor ==
  ASSUME NEW s, NEW v, NEW r, NEW lo, NEW hi, InAll(s, {}, r, lo, hi)
  PROVE  InAll(s, {v}, r, lo, hi)
<1>1. PICK p, k : /\ Ranks(p, lo, hi) /\ k \in [View -> SheetId \cup {NULL}]
                  /\ Stands(s, {}, p, k, r) /\ AllAt(s, {}, p, k)
  BY DEF InAll
<1>2. Stands(s, {v}, p, k, r) /\ AllAt(s, {v}, p, k)
  BY <1>1 DEF Stands, AllAt, Shelf
<1> QED
  BY <1>1, <1>2 DEF InAll

LEMMA ButFor ==
  ASSUME NEW s, NEW v, Core(s, {}, {})
  PROVE  Core(s, {v}, {v}) /\ Core(s, {v}, {})
<1>1. PICK r, lo, hi : Ordered(s, {}, {}, r, lo, hi)
  BY DEF Core, InLists
<1>2. InAll(s, {v}, r, lo, hi) /\ InVisible(s, {v}, r)
  BY <1>1, AllButFor DEF Ordered, InVisible, Shelf, Line
<1>3. Ordered(s, {v}, {v}, r, lo, hi) /\ Ordered(s, {v}, {}, r, lo, hi)
  BY <1>1, <1>2 DEF Ordered
<1> QED
  BY <1>3 DEF Core, InLists

LEMMA RaiseKeeps ==
  ASSUME NEW s, Core(s, {}, {}), NEW v \in Shown(s)
  PROVE  /\ Core(Raise(s, v), {}, {}) /\ Same(s, Raise(s, v))
         /\ (s.visible_views[1] # v => TopOfVisible(s, Raise(s, v), v))
         /\ (s.visible_views[1] = v => Raise(s, v) = s)
<1>1. v \notin s.hidden
  BY DEF Shown
<1>2. /\ Core(RaiseView(s, v), {}, {}) /\ Same(s, RaiseView(s, v))
      /\ TopOfVisible(s, RaiseView(s, v), v)
  BY ButFor, RaiseViewKeeps
<1>3. Same(s, s)
  BY DEF Same
<1> QED
  BY <1>1, <1>2, <1>3 DEF Raise

LEMMA LowerKeeps ==
  ASSUME NEW s, Core(s, {}, {}), NEW v \in Shown(s)
  PROVE  /\ Core(Lower(s, v), {}, {}) /\ Same(s, Lower(s, v))
         /\ (Last(s.visible_views) # v => BottomOfVisible(s, Lower(s, v), v))
         /\ (Last(s.visible_views) = v => Lower(s, v) = s)
<1> DEFINE g == s.group_of[v]
           t == Unlink(s, g)
           w == LinkAfter(t, t.prev[Root], g)
           z == Lower(s, v)
           L == GroupsOf(s, {})
<1>1. s \in States /\ Placed(s) /\ NotFailed(s) /\ InLists(s, {v}, {v}) /\ Linked(s, L)
  BY ButFor DEF Core
<1>2. v \in Mapped(s) /\ g \in Group /\ g \in L /\ v \in View /\ v \notin s.hidden
  BY <1>1, GroupIsLinked DEF Shown, Mapped
<1>3. PICK r, lo, hi : Ordered(s, {v}, {v}, r, lo, hi)
  BY <1>1 DEF InLists
<1>4. Same(s, s)
  BY DEF Same
<1>5. CASE Last(s.visible_views) = v
  <2>1. z = s
    BY <1>2, <1>5 DEF Lower
  <2> HIDE DEF z
  <2> QED
    BY <1>4, <1>5, <2>1 DEF z
<1>6. CASE Last(s.visible_views) # v
  <2>1. w \in States /\ w = [s EXCEPT !.next = w.next, !.prev = w.prev] /\ Linked(w, L)
    BY <1>1, <1>2, LinkedAgain
  <2>2. z = [w EXCEPT !.sheet_views         = AtTail(@, s.sheet_of[v], v),
                      !.group_views         = AtTail(@, g, v),
                      !.output_views        = AtTail(@, OutputOf(s, v), v),
                      !.stale               = @ \ {v},
                      !.visible_views       = Append(RemoveFirst(@, v), v),
                      !.visible_group_views = AtTail(@, g, v),
                      !.workspace_views     = AtTail(@, OutputOf(s, v), v)]
    BY <1>2, <1>6 DEF Lower
  <2> HIDE DEF w, z, L
  <2>3. Same(s, z) /\ z.next = w.next /\ z.prev = w.prev
    BY <1>1, <2>1, <2>2 DEF Same, States
  <2>4. BottomOfAll(s, z, v)
    BY <1>1, <2>1, <2>2 DEF States, BottomOfAll
  <2>5. BottomOfVisible(s, z, v)
    BY <1>1, <2>1, <2>2 DEF States, BottomOfVisible
  <2>6. SameViews(s, z)
    BY <2>3, SameIsSameViews
  <2>7. AllTyped(z) /\ VisibleTyped(z)
    BY <1>1, <1>2, <1>3, <2>4, <2>5, <2>6, ToBottomOfAll, ToBottomOfVisible DEF Ordered
  <2>8. z \in States
    BY <2>1, <2>2, <2>7 DEF States, VisibleTyped, AllTyped
  <2>9. InLists(z, {}, {})
    BY <1>1, <2>4, <2>5, <2>6, BottomOfEveryList
  <2>10. w.cut = z.cut
    BY <2>1, <2>2 DEF States
  <2>11. Linked(z, L)
    BY <2>1, <2>3, <2>10, LinkedStays
  <2>12. Placed(z) /\ NotFailed(z) /\ GroupsOf(z, {}) = L
    BY <1>1, <2>3, SameStays DEF L
  <2> QED
    BY <1>6, <2>3, <2>5, <2>8, <2>9, <2>11, <2>12 DEF Core, z
<1> QED
  BY <1>5, <1>6

-----------------------------------------------------------------------------
(* Operations that change one view                                         *)

SameShelves(s, t) ==
  /\ t.sheet_views = s.sheet_views /\ t.output_views = s.output_views
  /\ t.group_views = s.group_views /\ t.stale = s.stale
  /\ t.visible_views = s.visible_views
  /\ t.workspace_views = s.workspace_views /\ t.visible_group_views = s.visible_group_views

SameLinks(s, t) == t.next = s.next /\ t.prev = s.prev /\ t.cut = s.cut

SameLists(s, t) == SameShelves(s, t) /\ SameLinks(s, t)

OthersSame(s, t, v) ==
  \A w \in View \ {v} : /\ t.sheet_of[w] = s.sheet_of[w] /\ t.group_of[w] = s.group_of[w]
                        /\ w \in t.hidden <=> w \in s.hidden

LEMMA OthersStay ==
  ASSUME NEW s, NEW t, NEW v, OthersSame(s, t, v)
  PROVE  /\ Agrees(v, s.sheet_of, Mapped(s), t.sheet_of, Mapped(t))
         /\ Agrees(v, s.group_of, Mapped(s), t.group_of, Mapped(t))
         /\ Agrees(v, OutputsOf(s), Mapped(s), OutputsOf(t), Mapped(t))
         /\ Agrees(v, s.group_of, Shown(s), t.group_of, Shown(t))
         /\ Agrees(v, OutputsOf(s), Shown(s), OutputsOf(t), Shown(t))
         /\ GroupsOf(t, {v}) = GroupsOf(s, {v})
<1>1. \A w \in View \ {v} : /\ OutputsOf(t)[w] = OutputsOf(s)[w]
                            /\ t.sheet_of[w] = s.sheet_of[w]
                            /\ t.group_of[w] = s.group_of[w]
                            /\ w \in Mapped(t) <=> w \in Mapped(s)
                            /\ w \in Shown(t) <=> w \in Shown(s)
  BY DEF OthersSame, OutputsOf, OutputOf, Mapped, Shown
<1>2. Shown(s) \subseteq View /\ Shown(t) \subseteq View
  BY DEF Shown, Mapped
<1> QED
  BY <1>1, <1>2 DEF GroupsOf, Agrees

LEMMA OthersShown ==
  ASSUME NEW s, NEW t, NEW v, OthersSame(s, t, v), v \in Shown(s) <=> v \in Shown(t)
  PROVE  /\ Shown(t) = Shown(s)
         /\ (v \in Shown(s) => t.group_of[v] = s.group_of[v]) => GroupsOf(t, {}) = GroupsOf(s, {})
<1>1. Shown(s) \subseteq View /\ Shown(t) \subseteq View
  BY DEF Shown, Mapped
<1>2. \A w \in View \ {v} : w \in Shown(t) <=> w \in Shown(s)
  BY OthersStay DEF Agrees
<1>3. \A w \in View : w \in Shown(t) <=> w \in Shown(s)
  BY <1>2
<1>4. Shown(t) = Shown(s)
  BY <1>1, <1>3
<1>5. ASSUME v \in Shown(s) => t.group_of[v] = s.group_of[v]
      PROVE  GroupsOf(t, {}) = GroupsOf(s, {})
  <2>1. \A w \in Shown(s) : t.group_of[w] = s.group_of[w]
    BY <1>1, <1>5 DEF OthersSame
  <2> QED
    BY <1>4, <2>1 DEF GroupsOf
<1> QED
  BY <1>4, <1>5

LEMMA MovedInAll ==
  ASSUME NEW s, NEW t, NEW v, NEW X, NEW r, NEW lo, NEW hi, InAll(s, X, r, lo, hi),
         OthersSame(s, t, v), SameLists(s, t)
  PROVE  InAll(t, X \cup {v}, r, lo, hi)
<1>0. PICK p, k : /\ Ranks(p, lo, hi) /\ k \in [View -> SheetId \cup {NULL}]
                  /\ Stands(s, X, p, k, r) /\ AllAt(s, X, p, k)
  BY DEF InAll
<1>1. Shelf(s.sheet_views, k, Mapped(t), X \cup {v}, p)
  <2>1. Shelf(s.sheet_views, k, Mapped(s), X, p)
    BY <1>0 DEF AllAt
  <2>2. Agrees(v, k, Mapped(s), k, Mapped(t))
    BY OthersStay DEF Agrees
  <2> QED
    BY <2>1, <2>2, ShelfAgrees
<1>2. Shelf(s.output_views, OutputsOf(t), Mapped(t), X \cup {v}, p)
  <2>1. Shelf(s.output_views, OutputsOf(s), Mapped(s), X, p)
    BY <1>0 DEF AllAt
  <2>2. Agrees(v, OutputsOf(s), Mapped(s), OutputsOf(t), Mapped(t))
    BY OthersStay
  <2> QED
    BY <2>1, <2>2, ShelfAgrees
<1>3. Shelf(s.group_views, t.group_of, Mapped(t), X \cup {v}, p)
  <2>1. Shelf(s.group_views, s.group_of, Mapped(s), X, p)
    BY <1>0 DEF AllAt
  <2>2. Agrees(v, s.group_of, Mapped(s), t.group_of, Mapped(t))
    BY OthersStay
  <2> QED
    BY <2>1, <2>2, ShelfAgrees
<1>4. AllAt(t, X \cup {v}, p, k)
  BY <1>1, <1>2, <1>3 DEF AllAt, SameLists, SameShelves
<1>5. Stands(t, X \cup {v}, p, k, r)
  <2> SUFFICES ASSUME NEW w \in View \ (X \cup {v}) PROVE StandsAt(t, w, p, k, r)
    BY DEF Stands
  <2>1. StandsAt(s, w, p, k, r)
    BY <1>0 DEF Stands
  <2>2. w \in Mapped(t) <=> w \in Mapped(s)
    BY OthersStay DEF Agrees
  <2>3. t.sheet_of[w] = s.sheet_of[w] /\ t.stale = s.stale
    BY DEF OthersSame, SameLists, SameShelves
  <2> QED
    BY <2>1, <2>2, <2>3 DEF StandsAt, OutputOf
<1> QED
  BY <1>0, <1>4, <1>5 DEF InAll

LEMMA MovedInVisible ==
  ASSUME NEW s, NEW t, NEW v, NEW Y, NEW r, InVisible(s, Y, r), OthersSame(s, t, v),
         SameLists(s, t)
  PROVE  InVisible(t, Y \cup {v}, r)
<1>1. Shelf(s.workspace_views, OutputsOf(t), Shown(t), Y \cup {v}, r)
  <2>1. Shelf(s.workspace_views, OutputsOf(s), Shown(s), Y, r)
    BY DEF InVisible
  <2>2. Agrees(v, OutputsOf(s), Shown(s), OutputsOf(t), Shown(t))
    BY OthersStay
  <2> QED
    BY <2>1, <2>2, ShelfAgrees
<1>2. Shelf(s.visible_group_views, t.group_of, Shown(t), Y \cup {v}, r)
  <2>1. Shelf(s.visible_group_views, s.group_of, Shown(s), Y, r)
    BY DEF InVisible
  <2>2. Agrees(v, s.group_of, Shown(s), t.group_of, Shown(t))
    BY OthersStay
  <2> QED
    BY <2>1, <2>2, ShelfAgrees
<1>3. Line(s.visible_views, Shown(t), Y \cup {v}, r)
  <2>1. Line(s.visible_views, Shown(s), Y, r)
    BY DEF InVisible
  <2>2. Agrees(v, s.group_of, Shown(s), t.group_of, Shown(t))
    BY OthersStay
  <2> QED
    BY <2>1, <2>2, LineAgrees
<1> QED
  BY <1>1, <1>2, <1>3 DEF InVisible, SameLists, SameShelves, SameLinks

LEMMA MovedUnseen ==
  ASSUME NEW s, NEW t, NEW v, NEW r, InVisible(s, {}, r), OthersSame(s, t, v),
         SameLists(s, t), v \notin Shown(s), v \notin Shown(t)
  PROVE  InVisible(t, {}, r)
<1>1. Shelf(s.workspace_views, OutputsOf(t), Shown(t), {}, r)
  <2>1. Shelf(s.workspace_views, OutputsOf(s), Shown(s), {}, r)
    BY DEF InVisible
  <2>2. Agrees(v, OutputsOf(s), Shown(s), OutputsOf(t), Shown(t))
    BY OthersStay
  <2> QED
    BY <2>1, <2>2, ShelfUnseen
<1>2. Shelf(s.visible_group_views, t.group_of, Shown(t), {}, r)
  <2>1. Shelf(s.visible_group_views, s.group_of, Shown(s), {}, r)
    BY DEF InVisible
  <2>2. Agrees(v, s.group_of, Shown(s), t.group_of, Shown(t))
    BY OthersStay
  <2> QED
    BY <2>1, <2>2, ShelfUnseen
<1>3. Shown(t) = Shown(s)
  BY OthersShown
<1> QED
  BY <1>1, <1>2, <1>3 DEF InVisible, SameLists, SameShelves, SameLinks

(* A view that is hidden gets a sheet and a group.                          *)
LEMMA HiddenMoved ==
  ASSUME NEW s, Core(s, {}, {}), NEW v \in View, v \in s.hidden, NEW t \in States, Placed(t),
         NotFailed(t), SameLists(s, t), OthersSame(s, t, v), v \in t.hidden
  PROVE  Core(t, {v}, {})
<1>1. v \notin Shown(s) /\ v \notin Shown(t)
  BY DEF Shown
<1>2. GroupsOf(t, {}) = GroupsOf(s, {})
  BY <1>1, OthersShown
<1>3. Linked(t, GroupsOf(t, {}))
  BY <1>2, LinkedStays DEF Core, SameLists, SameShelves, SameLinks
<1>4. PICK r, lo, hi : Ordered(s, {}, {}, r, lo, hi)
  BY DEF Core, InLists
<1>5. InAll(t, {v}, r, lo, hi)
  <2>1. InAll(t, {} \cup {v}, r, lo, hi)
    BY <1>4, MovedInAll DEF Ordered
  <2>2. {} \cup {v} = {v}
    OBVIOUS
  <2> QED
    BY <2>1, <2>2
<1>6. InVisible(t, {}, r)
  BY <1>1, <1>4, MovedUnseen DEF Ordered
<1>7. Ordered(t, {v}, {}, r, lo, hi)
  BY <1>4, <1>5, <1>6 DEF Ordered
<1> QED
  BY <1>3, <1>7 DEF Core, InLists

(* A view that is shown moves to another sheet.                             *)
LEMMA ShownMoved ==
  ASSUME NEW s, Core(s, {}, {}), NEW v \in View, NEW t \in States, Placed(t),
         NotFailed(t), SameLists(s, t), OthersSame(s, t, v),
         v \in Shown(s), v \in Shown(t), t.group_of[v] = s.group_of[v]
  PROVE  Core(t, {v}, {v})
<1>1. GroupsOf(t, {}) = GroupsOf(s, {})
  BY OthersShown
<1>2. Linked(t, GroupsOf(t, {}))
  BY <1>1, LinkedStays DEF Core, SameLists, SameShelves, SameLinks
<1>3. PICK r, lo, hi : Ordered(s, {}, {}, r, lo, hi)
  BY DEF Core, InLists
<1>4. InAll(t, {v}, r, lo, hi) /\ InVisible(t, {v}, r)
  <2>1. InAll(t, {} \cup {v}, r, lo, hi) /\ InVisible(t, {} \cup {v}, r)
    BY <1>3, MovedInAll, MovedInVisible DEF Ordered
  <2>2. {} \cup {v} = {v}
    OBVIOUS
  <2> QED
    BY <2>1, <2>2
<1>5. Ordered(t, {v}, {v}, r, lo, hi)
  BY <1>3, <1>4 DEF Ordered
<1> QED
  BY <1>2, <1>5 DEF Core, InLists

(* Whatever is no part of Core may change.                                  *)
LEMMA InAllStays ==
  ASSUME NEW s, NEW X, NEW r, NEW lo, NEW hi, InAll(s, X, r, lo, hi),
         NEW t, SameShelves(s, t), SameViews(s, t)
  PROVE  InAll(t, X, r, lo, hi)
<1>1. PICK p, k : /\ Ranks(p, lo, hi) /\ k \in [View -> SheetId \cup {NULL}]
                  /\ Stands(s, X, p, k, r) /\ AllAt(s, X, p, k)
  BY DEF InAll
<1>2. Mapped(t) = Mapped(s) /\ OutputsOf(t) = OutputsOf(s)
  BY SameViewsStay
<1>3. AllAt(t, X, p, k)
  BY <1>1, <1>2 DEF AllAt, SameShelves, SameViews
<1>4. Stands(t, X, p, k, r)
  BY <1>1, <1>2 DEF Stands, StandsAt, SameShelves, SameViews, OutputOf
<1> QED
  BY <1>1, <1>3, <1>4 DEF InAll

LEMMA CoreStays ==
  ASSUME NEW s, NEW X, NEW Y, Core(s, X, Y), NEW t \in States, NotFailed(t), SameLists(s, t),
         SameViews(s, t)
  PROVE  Core(t, X, Y)
<1>1. Placed(t) /\ Linked(t, GroupsOf(t, {}))
  BY SameViewsStay, LinkedStays DEF Core, SameLists, SameShelves, SameLinks
<1>2. PICK r, lo, hi : Ordered(s, X, Y, r, lo, hi)
  BY DEF Core, InLists
<1>3. InAll(t, X, r, lo, hi) /\ InVisible(t, Y, r)
  BY <1>2, InAllStays, SameViewsStay
     DEF Ordered, InVisible, SameLists, SameShelves, SameLinks, SameViews
<1>4. Ordered(t, X, Y, r, lo, hi)
  BY <1>2, <1>3 DEF Ordered
<1> QED
  BY <1>1, <1>4 DEF Core, InLists

(* The list of a shelf is empty when nothing belongs in it.                 *)
LEMMA ShelfEmpty ==
  ASSUME NEW I, NEW lists \in [I -> Seq(View)], NEW i \in I
  PROVE  lists[i] = <<>> <=> \A w \in View : w \notin ToSet(lists[i])
<1>1. lists[i] \in Seq(View)
  OBVIOUS
<1>2. ASSUME lists[i] # <<>> PROVE \E w \in View : w \in ToSet(lists[i])
  <2>1. 1 \in 1 .. Len(lists[i]) /\ lists[i][1] \in View
    BY <1>1, <1>2
  <2> QED
    BY <1>1, <2>1, InList
<1>3. ASSUME lists[i] = <<>>, NEW w \in ToSet(lists[i]) PROVE FALSE
  BY <1>1, <1>3, InList
<1> QED
  BY <1>2, <1>3

LEMMA InListsStay ==
  ASSUME NEW s, NEW X, NEW Y, InLists(s, X, Y), NEW t, SameShelves(s, t), SameViews(s, t)
  PROVE  InLists(t, X, Y)
<1>1. PICK r, lo, hi : Ordered(s, X, Y, r, lo, hi)
  BY DEF InLists
<1>2. InAll(t, X, r, lo, hi) /\ InVisible(t, Y, r)
  BY <1>1, InAllStays, SameViewsStay DEF Ordered, InVisible, SameShelves, SameViews
<1>3. Ordered(t, X, Y, r, lo, hi)
  BY <1>1, <1>2 DEF Ordered
<1> QED
  BY <1>3 DEF InLists

KeysOf(key, M) == {key[w] : w \in M}

LEMMA ShelfOfNone ==
  ASSUME NEW I, NEW lists \in [I -> Seq(View)], NEW i \in I, NEW key, NEW M, M \subseteq View,
         NEW r, Shelf(lists, key, M, {}, r)
  PROVE  lists[i] = <<>> <=> i \notin KeysOf(key, M)
<1>1. \A w \in View : w \in ToSet(lists[i]) <=> w \in M /\ key[w] = i
  BY DEF Shelf
<1> QED
  BY <1>1, ShelfEmpty DEF KeysOf

(* The flags of the views, and what else the operations leave as it is.     *)
SameRest(s, t) ==
  /\ t.sheet_of = s.sheet_of /\ t.group_of = s.group_of
  /\ t.current = s.current /\ t.focus = s.focus /\ t.cycling = s.cycling
  /\ t.mode = s.mode /\ t.typed = s.typed /\ t.cut = s.cut /\ t.fault = s.fault

LEMMA DecreaseKeeps ==
  ASSUME NEW s, Core(s, {}, {}), NEW v \in Shown(s)
  PROVE  LET d == DecreaseGroupVisibility(s, v)
         IN  /\ d \in States /\ Linked(d, GroupsOf(s, {v}))
             /\ d = [s EXCEPT !.visible_group_views = Out(s.visible_group_views, v),
                              !.next = d.next, !.prev = d.prev]
<1> DEFINE d == DecreaseGroupVisibility(s, v)
           g == s.group_of[v]
           o == Out(s.visible_group_views, v)
           t == [s EXCEPT !.visible_group_views = o]
           L == GroupsOf(s, {})
           M == GroupsOf(s, {v})
<1>1. s \in States /\ Placed(s) /\ Linked(s, L)
  BY DEF Core
<1>2. v \in Mapped(s) /\ g \in Group /\ g \in L /\ v \in View
  BY <1>1, GroupIsLinked DEF Mapped
<1>3. PICK r, lo, hi : Ordered(s, {}, {}, r, lo, hi)
  BY DEF Core, InLists
<1>4. o \in [Group -> Seq(View)] /\ Shelf(o, s.group_of, Shown(s) \ {v}, {}, r)
  <2>1. Shelf(s.visible_group_views, s.group_of, Shown(s), {}, r) /\ r \in [View -> Int]
    BY <1>3 DEF Ordered, InVisible
  <2>2. Agrees(v, s.group_of, Shown(s), s.group_of, Shown(s) \ {v})
    BY DEF Agrees
  <2>3. Shelf(s.visible_group_views, s.group_of, Shown(s) \ {v}, {} \cup {v}, r)
    BY <2>1, <2>2, ShelfAgrees
  <2>4. s.visible_group_views \in [Group -> Seq(View)] /\ v \notin Shown(s) \ {v}
        /\ {} \cup {v} \subseteq {v}
    BY <1>1 DEF States
  <2> QED
    BY <1>2, <2>1, <2>3, <2>4, ShelfOut
<1>5. o[g] = <<>> <=> g \notin M
  <2>1. Shown(s) \ {v} \subseteq View
    BY DEF Shown, Mapped
  <2> HIDE DEF o, g
  <2>2. o[g] = <<>> <=> g \notin KeysOf(s.group_of, Shown(s) \ {v})
    BY <1>2, <1>4, <2>1, ShelfOfNone
  <2> QED
    BY <2>2 DEF GroupsOf, KeysOf
<1>6. L = M \cup {g}
  BY DEF GroupsOf
<1> HIDE DEF o, L, M
<1>7. t \in States /\ t.next = s.next /\ t.prev = s.prev /\ t.cut = s.cut
      /\ t.visible_group_views = o
  BY <1>1, <1>4 DEF States
<1>8. Linked(t, L)
  BY <1>1, <1>7, LinkedStays
<1>9. d = IF o[g] = <<>> THEN Unlink(t, g) ELSE t
  BY <1>7 DEF DecreaseGroupVisibility, o
<1> HIDE DEF d
<1>10. CASE g \in M
  <2>1. d = t /\ L = M
    BY <1>5, <1>6, <1>9, <1>10
  <2>2. d = [s EXCEPT !.visible_group_views = o, !.next = d.next, !.prev = d.prev]
    BY <1>1, <1>7, <2>1 DEF States
  <2> QED
    BY <1>7, <1>8, <2>1, <2>2 DEF d, o, M
<1>11. CASE g \notin M
  <2>1. d = Unlink(t, g) /\ L \ {g} = M
    BY <1>5, <1>6, <1>9, <1>11
  <2> HIDE DEF t
  <2>2. /\ d = [t EXCEPT !.next = Unlinked(t.next, t.prev, g), !.prev = Unlinked(t.prev, t.next, g)]
        /\ d \in States /\ Linked(d, M)
    BY <1>2, <1>7, <1>8, <2>1, UnlinkKeeps
  <2>3. d = [s EXCEPT !.visible_group_views = o, !.next = d.next, !.prev = d.prev]
    BY <1>1, <2>2 DEF States, t
  <2> QED
    BY <2>2, <2>3 DEF d, o, M
<1> QED
  BY <1>10, <1>11

Hides(s, t, v) == SameRest(s, t) /\ t.hidden = s.hidden \cup {v}
Shows(s, t, v) == SameRest(s, t) /\ t.hidden = s.hidden \ {v}

LEMMA HideInListsKeeps ==
  ASSUME NEW s, Core(s, {}, {}), NEW v \in Shown(s)
  PROVE  Core(HideInLists(s, v), {}, {}) /\ Hides(s, HideInLists(s, v), v)
<1> DEFINE d == DecreaseGroupVisibility(s, v)
           z == HideInLists(s, v)
           o == Out(s.visible_group_views, v)
           w == Out(s.workspace_views, v)
           l == RemoveFirst(s.visible_views, v)
           N == Shown(s) \ {v}
<1>1. /\ s \in States /\ Placed(s) /\ NotFailed(s)
      /\ d \in States /\ Linked(d, GroupsOf(s, {v}))
      /\ d = [s EXCEPT !.visible_group_views = o, !.next = d.next, !.prev = d.prev]
  BY DecreaseKeeps DEF Core
<1>2. PICK r, lo, hi : Ordered(s, {}, {}, r, lo, hi)
  BY DEF Core, InLists
<1>3. v \in View /\ {} \cup {v} \subseteq {v} /\ v \notin N /\ r \in [View -> Int]
  BY <1>2 DEF Shown, Mapped, Ordered
<1>4. VisibleTyped(s) /\ InVisible(s, {}, r)
  BY <1>1, <1>2, TypedLists DEF Ordered
<1>5. /\ Agrees(v, s.group_of, Shown(s), s.group_of, N)
      /\ Agrees(v, OutputsOf(s), Shown(s), OutputsOf(s), N)
  BY DEF Agrees
<1> HIDE DEF N
<1>6. o \in [Group -> Seq(View)] /\ Shelf(o, s.group_of, N, {}, r)
  <2>1. /\ s.visible_group_views \in [Group -> Seq(View)]
        /\ Shelf(s.visible_group_views, s.group_of, Shown(s), {}, r)
    BY <1>4 DEF VisibleTyped, InVisible
  <2>2. Shelf(s.visible_group_views, s.group_of, N, {} \cup {v}, r)
    BY <1>5, <2>1, ShelfAgrees
  <2> QED
    BY <1>3, <2>1, <2>2, ShelfOut
<1>7. w \in [Output -> Seq(View)] /\ Shelf(w, OutputsOf(s), N, {}, r)
  <2>1. /\ s.workspace_views \in [Output -> Seq(View)]
        /\ Shelf(s.workspace_views, OutputsOf(s), Shown(s), {}, r)
    BY <1>4 DEF VisibleTyped, InVisible
  <2>2. Shelf(s.workspace_views, OutputsOf(s), N, {} \cup {v}, r)
    BY <1>5, <2>1, ShelfAgrees
  <2> QED
    BY <1>3, <2>1, <2>2, ShelfOut
<1>8. l \in Seq(View) /\ Line(l, N, {}, r)
  <2>1. s.visible_views \in Seq(View) /\ Line(s.visible_views, Shown(s), {}, r)
    BY <1>4 DEF VisibleTyped, InVisible
  <2>2. Line(s.visible_views, N, {} \cup {v}, r)
    BY <1>5, <2>1, LineAgrees
  <2> QED
    BY <1>3, <2>1, <2>2, LineOut
<1>9. z = [s EXCEPT !.visible_group_views = o, !.next = d.next, !.prev = d.prev,
                    !.workspace_views = w, !.visible_views = l, !.hidden = s.hidden \cup {v}]
  <2>1. /\ d.workspace_views = s.workspace_views /\ d.visible_views = s.visible_views
        /\ d.hidden = s.hidden
    <3> HIDE DEF d, o
    <3> QED
      BY <1>1 DEF States
  <2>2. z = [d EXCEPT !.workspace_views = w, !.visible_views = l, !.hidden = s.hidden \cup {v}]
    BY <2>1 DEF HideInLists
  <2> HIDE DEF z, d, o, w, l
  <2> QED
    BY <1>1, <2>2 DEF States
<1> HIDE DEF z, d, o, w, l
<1>10. z \in States
  BY <1>1, <1>3, <1>6, <1>7, <1>8, <1>9 DEF States
<1>11. /\ z.visible_group_views = o /\ z.next = d.next /\ z.prev = d.prev
       /\ z.workspace_views = w /\ z.visible_views = l /\ Hides(s, z, v)
       /\ z.sheet_views = s.sheet_views /\ z.output_views = s.output_views
       /\ z.group_views = s.group_views /\ z.stale = s.stale
  BY <1>1, <1>9 DEF States, Hides, SameRest
<1>12. d.cut = s.cut
  BY <1>1 DEF States
<1>13. /\ Mapped(z) = Mapped(s) /\ Shown(z) = N /\ OutputsOf(z) = OutputsOf(s)
       /\ GroupsOf(z, {}) = GroupsOf(s, {v}) /\ Placed(z) /\ NotFailed(z)
  BY <1>1, <1>11 DEF Hides, SameRest, Mapped, Shown, OutputsOf, OutputOf, GroupsOf, Placed, NotFailed, N
<1>14. Linked(z, GroupsOf(z, {}))
  BY <1>1, <1>11, <1>12, <1>13, LinkedStays DEF Hides, SameRest
<1>15. InAll(z, {}, r, lo, hi)
  <2>1. InAll(s, {}, r, lo, hi)
    BY <1>2 DEF Ordered
  <2> QED
    BY <1>11, <1>13, <2>1 DEF InAll, AllAt, Stands, StandsAt, OutputOf, Hides, SameRest
<1>16. InVisible(z, {}, r)
  BY <1>6, <1>7, <1>8, <1>11, <1>13 DEF InVisible, Hides, SameRest
<1>17. Ordered(z, {}, {}, r, lo, hi)
  BY <1>2, <1>15, <1>16 DEF Ordered
<1> QED
  BY <1>10, <1>11, <1>13, <1>14, <1>17 DEF Core, InLists, z

NotAmong(s, v) == \A g \in Group : v \notin ToSet(s.visible_group_views[g])

LEMMA IncreaseKeeps ==
  ASSUME NEW s \in States, Placed(s), NotFailed(s), NEW v \in Shown(s), InLists(s, {v}, {v}),
         Linked(s, GroupsOf(s, {v})), NotAmong(s, v)
  PROVE  LET t == IncreaseGroupVisibility(s, v)
         IN  Core(t, {v}, {v}) /\ Same(s, t)
<1> DEFINE t == IncreaseGroupVisibility(s, v)
           g == s.group_of[v]
           M == GroupsOf(s, {v})
<1>1. v \in Mapped(s) /\ g \in Group /\ v \in View /\ Root \in Places
  BY GroupIsLinked DEF Mapped, Places
<1>2. PICK r, lo, hi : Ordered(s, {v}, {v}, r, lo, hi)
  BY DEF InLists
<1>3. Shelf(s.visible_group_views, s.group_of, Shown(s) \ {v}, {}, r)
  <2>1. s.visible_group_views \in [Group -> Seq(View)]
        /\ Shelf(s.visible_group_views, s.group_of, Shown(s), {v}, r)
    BY <1>2 DEF Ordered, InVisible, States
  <2> QED
    BY <2>1 DEF Shelf, NotAmong
<1>4. s.visible_group_views[g] = <<>> <=> g \notin M
  <2>1. Shown(s) \ {v} \subseteq View /\ s.visible_group_views \in [Group -> Seq(View)]
    BY DEF Shown, Mapped, States
  <2> HIDE DEF g
  <2>2. s.visible_group_views[g] = <<>> <=> g \notin KeysOf(s.group_of, Shown(s) \ {v})
    BY <1>1, <1>3, <2>1, ShelfOfNone
  <2> QED
    BY <2>2 DEF GroupsOf, KeysOf
<1>5. GroupsOf(s, {}) = M \cup {g}
  BY DEF GroupsOf
<1> HIDE DEF M
<1>6. t = IF s.visible_group_views[g] = <<>> THEN LinkAfter(s, Root, g) ELSE s
  BY DEF IncreaseGroupVisibility
<1> HIDE DEF t
<1>7. t \in States /\ Linked(t, M \cup {g}) /\ Same(s, t) /\ SameShelves(s, t)
  <2>1. CASE g \in M
    <3>1. t = s /\ M \cup {g} = M
      BY <1>4, <1>6, <2>1
    <3> QED
      BY <3>1 DEF Same, SameShelves, M
  <2>2. CASE g \notin M
    <3>1. t = LinkAfter(s, Root, g)
      BY <1>4, <1>6, <2>2
    <3>2. Linked(s, M)
      BY DEF M
    <3>3. /\ t = [s EXCEPT !.next = LinkedNext(s.next, Root, g),
                           !.prev = LinkedPrev(s.next, s.prev, Root, g)]
          /\ t \in States /\ Linked(t, M \cup {g})
      BY <1>1, <2>2, <3>1, <3>2, LinkAfterKeeps
    <3>4. Same(s, t) /\ SameShelves(s, t)
      BY <3>3 DEF Same, SameShelves, States
    <3> QED
      BY <3>3, <3>4
  <2> QED
    BY <2>1, <2>2
<1>8. InLists(t, {v}, {v})
  BY <1>7, SameIsSameViews, InListsStay
<1>9. Placed(t) /\ NotFailed(t) /\ GroupsOf(t, {}) = GroupsOf(s, {})
  BY <1>7, SameStays
<1> QED
  BY <1>5, <1>7, <1>8, <1>9 DEF Core, t

(* The focus.                                                              *)
LEMMA FocusStays ==
  ASSUME NEW s, FocusFits(s), NEW t, t.focus = s.focus, t.mode = s.mode, t.fault = s.fault,
         Shown(s) \subseteq Shown(t)
  PROVE  FocusFits(t)
BY DEF FocusFits, Runs

Cleared(s, t) == SameViews(s, t) /\ SameLists(s, t) /\ t.current = s.current

LEMMA EnterNormalKeeps ==
  ASSUME NEW s, Good(s)
  PROVE  LET t == EnterNormal(s)
         IN  /\ Good(t) /\ Cleared(s, t)
             /\ Good([t EXCEPT !.focus = NULL]) /\ Cleared(s, [t EXCEPT !.focus = NULL])
<1> DEFINE t == EnterNormal(s)
           u == [t EXCEPT !.focus = NULL]
<1>1. s \in States /\ Core(s, {}, {}) /\ NotFailed(s) /\ FocusFits(s)
  BY DEF Good, Core
<1>2. t \in States /\ NotFailed(t) /\ Cleared(s, t) /\ t.focus = s.focus
      /\ (Runs(t) => t.mode = "normal")
  <2>1. CASE s.typed = Freed /\ Runs(s)
    <3>1. t = [s EXCEPT !.fault = "freed"]
      BY <2>1 DEF EnterNormal, Crash
    <3> HIDE DEF t
    <3> QED
      BY <1>1, <3>1 DEF States, NotFailed, Cleared, SameViews, SameLists, SameShelves, SameLinks, Runs
  <2>2. CASE s.typed = Freed /\ ~Runs(s)
    <3>1. t = s
      BY <2>2 DEF EnterNormal, Crash
    <3> HIDE DEF t
    <3> QED
      BY <1>1, <2>2, <3>1 DEF Cleared, SameViews, SameLists, SameShelves, SameLinks
  <2>3. CASE s.typed # Freed
    <3>1. t = [s EXCEPT !.mode = "normal", !.typed = NULL]
      BY <2>3 DEF EnterNormal
    <3> HIDE DEF t
    <3> QED
      BY <1>1, <3>1 DEF States, NotFailed, Cleared, SameViews, SameLists, SameShelves, SameLinks
  <2> QED
    BY <2>1, <2>2, <2>3
<1> HIDE DEF t
<1>3. u \in States /\ NotFailed(u) /\ Cleared(s, u) /\ u.focus = NULL
      /\ (Runs(u) => u.mode = "normal")
  BY <1>2 DEF States, NotFailed, Cleared, SameViews, SameLists, SameShelves, SameLinks, Runs
<1> HIDE DEF u
<1>4. Core(t, {}, {}) /\ Core(u, {}, {})
  BY <1>1, <1>2, <1>3, CoreStays DEF Cleared
<1>5. FocusFits(t) /\ FocusFits(u)
  <2>1. Shown(t) = Shown(s)
    BY <1>2, SameViewsStay DEF Cleared
  <2> QED
    BY <1>1, <1>2, <1>3, <2>1 DEF FocusFits
<1> QED
  BY <1>2, <1>3, <1>4, <1>5 DEF Good, t, u

LEMMA ClearFocusKeeps ==
  ASSUME NEW s, Good(s), NEW v \in View
  PROVE  /\ Good(ClearFocus(s, v)) /\ Cleared(s, ClearFocus(s, v))
         /\ ClearFocus(s, v).focus # v
<1>1. EnterNormal(s) \in States
  BY EnterNormalKeeps DEF Good, Core
<1>2. CASE s.focus = v
  <2>1. ClearFocus(s, v) = [EnterNormal(s) EXCEPT !.focus = NULL]
    BY <1>2 DEF ClearFocus
  <2>2. ClearFocus(s, v).focus = NULL
    BY <1>1, <2>1 DEF States
  <2> QED
    BY <2>1, <2>2, EnterNormalKeeps, NamesAssumption
<1>3. CASE s.focus # v
  <2>1. ClearFocus(s, v) = s
    BY <1>3 DEF ClearFocus
  <2> QED
    BY <1>3, <2>1 DEF Cleared, SameViews, SameLists, SameShelves, SameLinks
<1> QED
  BY <1>2, <1>3

Conceals(s, t, v) ==
  /\ t.sheet_of = s.sheet_of /\ t.group_of = s.group_of /\ t.current = s.current
  /\ t.hidden = s.hidden \cup {v}

LEMMA HideKeeps ==
  ASSUME NEW s, Good(s), NEW v \in Shown(s)
  PROVE  Good(Hide(s, v)) /\ Conceals(s, Hide(s, v), v)
<1> DEFINE c == ClearFocus(s, v)
           z == Hide(s, v)
<1>1. v \in View /\ v \notin s.hidden
  BY DEF Shown, Mapped
<1>2. Good(c) /\ Cleared(s, c) /\ c.focus # v
  BY <1>1, ClearFocusKeeps
<1>3. z = HideInLists(c, v)
  BY <1>1 DEF Hide
<1> HIDE DEF c, z
<1>4. v \in Shown(c)
  BY <1>2, SameViewsStay DEF Cleared
<1>5. Core(z, {}, {}) /\ Hides(c, z, v)
  BY <1>2, <1>3, <1>4, HideInListsKeeps DEF Good
<1>6. Conceals(s, z, v)
  BY <1>2, <1>5 DEF Conceals, Cleared, SameViews, Hides, SameRest
<1>7. FocusFits(z)
  BY <1>2, <1>5 DEF Good, FocusFits, Hides, SameRest, Shown, Mapped, Runs
<1> QED
  BY <1>5, <1>6, <1>7 DEF Good, z

LEMMA ShowKeeps ==
  ASSUME NEW s, Core(s, {}, {}), NEW v \in Mapped(s), v \in s.hidden
  PROVE  Core(Show(s, v), {}, {}) /\ Shows(s, Show(s, v), v)
<1> DEFINE a == [s EXCEPT !.hidden = @ \ {v}]
           b == IncreaseGroupVisibility(a, v)
           z == Show(s, v)
<1>1. z = RaiseView(b, v)
  BY DEF Show
<1>2. s \in States /\ Placed(s) /\ NotFailed(s)
  BY DEF Core
<1>3. v \in View /\ v \notin Shown(s) /\ s.group_of[v] # NULL
  BY DEF Mapped, Shown
<1> HIDE DEF b, z
<1>4. /\ a \in States /\ SameLists(s, a) /\ OthersSame(s, a, v) /\ Shows(s, a, v)
  BY <1>2 DEF States, SameLists, SameShelves, SameLinks, OthersSame, Shows, SameRest
<1> HIDE DEF a
<1>5. v \in Shown(a) /\ Placed(a) /\ NotFailed(a)
  BY <1>2, <1>3, <1>4 DEF Shows, SameRest, Shown, Mapped, Placed, NotFailed
<1>6. PICK r, lo, hi : Ordered(s, {}, {}, r, lo, hi)
  BY DEF Core, InLists
<1>7. InAll(a, {v}, r, lo, hi) /\ InVisible(a, {v}, r)
  <2>1. InAll(a, {} \cup {v}, r, lo, hi) /\ InVisible(a, {} \cup {v}, r)
    BY <1>4, <1>6, MovedInAll, MovedInVisible DEF Ordered
  <2>2. {} \cup {v} = {v}
    OBVIOUS
  <2> QED
    BY <2>1, <2>2
<1>8. InLists(a, {v}, {v})
  <2>1. Ordered(a, {v}, {v}, r, lo, hi)
    BY <1>6, <1>7 DEF Ordered
  <2> QED
    BY <2>1 DEF InLists
<1>9. Linked(a, GroupsOf(a, {v}))
  <2>1. GroupsOf(a, {v}) = GroupsOf(s, {v})
    BY <1>4, OthersStay
  <2>2. GroupsOf(s, {v}) = GroupsOf(s, {})
    BY <1>3 DEF GroupsOf
  <2>3. Linked(s, GroupsOf(s, {}))
    BY DEF Core
  <2> QED
    BY <1>4, <2>1, <2>2, <2>3, LinkedStays DEF SameLists, SameLinks
<1>10. NotAmong(a, v)
  <2>1. Shelf(s.visible_group_views, s.group_of, Shown(s), {}, r)
    BY <1>6 DEF Ordered, InVisible
  <2>2. s.visible_group_views \in [Group -> Seq(View)]
    BY <1>2 DEF States
  <2>3. a.visible_group_views = s.visible_group_views
    BY <1>4 DEF SameLists, SameShelves
  <2> QED
    BY <1>3, <2>1, <2>2, <2>3 DEF Shelf, NotAmong
<1>11. Core(b, {v}, {v}) /\ Same(a, b)
  BY <1>4, <1>5, <1>8, <1>9, <1>10, IncreaseKeeps DEF b
<1>12. v \in Shown(b)
  BY <1>5, <1>11, SameStays
<1>13. Core(z, {}, {}) /\ Same(b, z)
  BY <1>1, <1>11, <1>12, RaiseViewKeeps
<1>14. Shows(s, z, v)
  BY <1>4, <1>11, <1>13 DEF Shows, SameRest, Same
<1> QED
  BY <1>13, <1>14 DEF z

(* A list of views that v is taken out of before it moves.                  *)
LEMMA ShelfTaken ==
  ASSUME NEW I, NEW lists \in [I -> Seq(View)], NEW key, NEW M, NEW r \in [View -> Int],
         Shelf(lists, key, M, {}, r), NEW v \in View
  PROVE  Out(lists, v) \in [I -> Seq(View)] /\ Shelf(Out(lists, v), key, M \ {v}, {}, r)
<1> DEFINE N == M \ {v}
<1>1. Agrees(v, key, M, key, N) /\ v \notin N /\ {} \cup {v} \subseteq {v}
  BY DEF Agrees
<1> HIDE DEF N
<1>2. Shelf(lists, key, N, {} \cup {v}, r)
  BY <1>1, ShelfAgrees
<1>3. Out(lists, v) \in [I -> Seq(View)] /\ Shelf(Out(lists, v), key, N, {}, r)
  BY <1>1, <1>2, ShelfOut
<1> QED
  BY <1>3 DEF N

LEMMA DetachShape ==
  ASSUME NEW s \in States, NEW v
  PROVE  DetachFromGroup(s, v) =
           [s EXCEPT !.group_views = Out(s.group_views, v), !.typed = DetachFromGroup(s, v).typed]
         /\ DetachFromGroup(s, v).typed \in Group \cup {NULL, Freed}
<1> DEFINE g == s.group_of[v]
           t == [s EXCEPT !.group_views = Out(@, v)]
           e == DetachFromGroup(s, v)
<1>1. e = IF t.group_views[g] = <<>> /\ s.typed = g THEN [t EXCEPT !.typed = Freed] ELSE t
  BY DEF DetachFromGroup
<1> HIDE DEF e
<1>2. CASE t.group_views[g] = <<>> /\ s.typed = g
  <2>1. e = [t EXCEPT !.typed = Freed]
    BY <1>1, <1>2
  <2> QED
    BY <2>1 DEF States, e
<1>3. CASE ~(t.group_views[g] = <<>> /\ s.typed = g)
  <2>1. e = t
    BY <1>1, <1>3
  <2> QED
    BY <2>1 DEF States, e
<1> QED
  BY <1>2, <1>3

LEMMA SetGroupKeeps ==
  ASSUME NEW s, Good(s), NEW v \in Shown(s), NEW g \in Group
  PROVE  Good(SetGroup(s, v, g))
<1> DEFINE d == DecreaseGroupVisibility(s, v)
           e == DetachFromGroup(d, v)
           t == [e EXCEPT !.group_of[v] = g]
           b == IncreaseGroupVisibility(t, v)
           z == SetGroup(s, v, g)
           o == Out(s.visible_group_views, v)
           p == Out(s.group_views, v)
<1>1. s \in States /\ Placed(s) /\ NotFailed(s) /\ Core(s, {}, {}) /\ FocusFits(s)
  BY DEF Good, Core
<1>2. v \in View /\ v \notin s.hidden /\ s.group_of[v] # NULL /\ g # NULL
  BY NamesAssumption DEF Shown, Mapped
<1>3. /\ d \in States /\ Linked(d, GroupsOf(s, {v}))
      /\ d = [s EXCEPT !.visible_group_views = o, !.next = d.next, !.prev = d.prev]
  BY <1>1, DecreaseKeeps
<1>4. /\ e = [d EXCEPT !.group_views = Out(d.group_views, v), !.typed = e.typed]
      /\ e.typed \in Group \cup {NULL, Freed}
  BY <1>3, DetachShape
<1>5. z = IF s.group_of[v] = g THEN s ELSE RaiseView(b, v)
  BY <1>2 DEF SetGroup
<1>6. CASE s.group_of[v] = g
  BY <1>5, <1>6
<1> SUFFICES ASSUME s.group_of[v] # g PROVE Good(z)
  BY <1>6
<1>7. z = RaiseView(b, v)
  BY <1>5
<1> HIDE DEF d, o, b, z
<1>8. d.group_views = s.group_views
  BY <1>1, <1>3 DEF States
<1> HIDE DEF e, p
<1>9. e = [s EXCEPT !.visible_group_views = o, !.next = d.next, !.prev = d.prev,
                    !.group_views = p, !.typed = e.typed]
  BY <1>1, <1>3, <1>4, <1>8 DEF States, p
<1>10. PICK r, lo, hi : Ordered(s, {}, {}, r, lo, hi)
  BY <1>1 DEF Core, InLists
<1>27. PICK y, k : /\ Ranks(y, lo, hi) /\ k \in [View -> SheetId \cup {NULL}]
                   /\ Stands(s, {}, y, k, r) /\ AllAt(s, {}, y, k)
  BY <1>10 DEF Ordered, InAll
<1>11. /\ o \in [Group -> Seq(View)] /\ Shelf(o, s.group_of, Shown(s) \ {v}, {}, r)
       /\ p \in [Group -> Seq(View)] /\ Shelf(p, s.group_of, Mapped(s) \ {v}, {}, y)
  <2>1. /\ s.visible_group_views \in [Group -> Seq(View)] /\ s.group_views \in [Group -> Seq(View)]
        /\ r \in [View -> Int] /\ y \in [View -> Int]
    BY <1>1, <1>10, <1>27 DEF States, Ordered, Ranks
  <2>2. Shelf(s.visible_group_views, s.group_of, Shown(s), {}, r)
    BY <1>10 DEF Ordered, InVisible
  <2>3. Shelf(s.group_views, s.group_of, Mapped(s), {}, y)
    BY <1>27 DEF AllAt
  <2>4. o \in [Group -> Seq(View)] /\ Shelf(o, s.group_of, Shown(s) \ {v}, {}, r)
    BY <1>2, <2>1, <2>2, ShelfTaken DEF o
  <2>5. p \in [Group -> Seq(View)] /\ Shelf(p, s.group_of, Mapped(s) \ {v}, {}, y)
    BY <1>2, <2>1, <2>3, ShelfTaken DEF p
  <2> QED
    BY <2>4, <2>5
<1>12. d.next \in [Places -> Places \cup {NULL}] /\ d.prev \in [Places -> Places \cup {NULL}]
  BY <1>3 DEF States
<1>13. e \in States
  <2>1. /\ s \in States /\ e.typed \in Group \cup {NULL, Freed}
        /\ o \in [Group -> Seq(View)] /\ p \in [Group -> Seq(View)]
    BY <1>1, <1>4, <1>11
  <2>2. e = [s EXCEPT !.visible_group_views = o, !.next = d.next, !.prev = d.prev,
                      !.group_views = p, !.typed = e.typed]
    BY <1>9
  <2> HIDE DEF o, p
  <2> DEFINE ahead == d.next
             behind == d.prev
             name == e.typed
  <2>3. /\ ahead \in [Places -> Places \cup {NULL}] /\ behind \in [Places -> Places \cup {NULL}]
        /\ name \in Group \cup {NULL, Freed}
    BY <1>12, <2>1
  <2> HIDE DEF ahead, behind, name
  <2>4. [s EXCEPT !.visible_group_views = o, !.next = ahead, !.prev = behind,
                  !.group_views = p, !.typed = name] \in States
    BY <2>1, <2>3 DEF States
  <2> QED
    BY <2>2, <2>4 DEF ahead, behind, name
<1>14. /\ t \in States /\ t.group_of = [s.group_of EXCEPT ![v] = g]
       /\ t.visible_group_views = o /\ t.group_views = p /\ t.next = d.next /\ t.prev = d.prev
       /\ t.cut = d.cut /\ t.sheet_of = s.sheet_of /\ t.hidden = s.hidden
       /\ t.sheet_views = s.sheet_views /\ t.output_views = s.output_views
       /\ t.workspace_views = s.workspace_views /\ t.visible_views = s.visible_views
       /\ t.focus = s.focus /\ t.mode = s.mode /\ t.fault = s.fault /\ t.stale = s.stale
  <2>1. /\ e.group_of = s.group_of
        /\ e.visible_group_views = o /\ e.group_views = p /\ e.next = d.next /\ e.prev = d.prev
        /\ e.cut = s.cut /\ e.sheet_of = s.sheet_of /\ e.hidden = s.hidden
        /\ e.sheet_views = s.sheet_views /\ e.output_views = s.output_views
        /\ e.workspace_views = s.workspace_views /\ e.visible_views = s.visible_views
        /\ e.focus = s.focus /\ e.mode = s.mode /\ e.fault = s.fault /\ e.stale = s.stale
    BY <1>1, <1>9 DEF States
  <2>2. d.cut = s.cut
    BY <1>1, <1>3 DEF States
  <2> QED
    BY <1>2, <1>13, <2>1, <2>2 DEF States
<1> HIDE DEF t
<1>15. OthersSame(s, t, v) /\ v \in Shown(t) /\ Placed(t) /\ NotFailed(t) /\ Shown(t) = Shown(s)
  <2>1. \A w \in View : t.group_of[w] = IF w = v THEN g ELSE s.group_of[w]
    BY <1>1, <1>14 DEF States
  <2> QED
    BY <1>1, <1>2, <1>14, <2>1 DEF OthersSame, Shown, Mapped, Placed, NotFailed
<1>16. NotAmong(t, v)
  BY <1>2, <1>11, <1>14 DEF NotAmong, Shelf
<1>17. Linked(t, GroupsOf(t, {v}))
  <2>1. GroupsOf(t, {v}) = GroupsOf(s, {v})
    BY <1>15, OthersStay
  <2> QED
    BY <1>3, <1>14, <2>1, LinkedStays
<1>18. {} \cup {v} = {v} /\ v \notin Mapped(s) \ {v} /\ v \notin Shown(s) \ {v}
  OBVIOUS
<1>19. InAll(t, {v}, r, lo, hi)
  <2>1. Shelf(s.sheet_views, k, Mapped(t), {} \cup {v}, y)
    <3>1. Shelf(s.sheet_views, k, Mapped(s), {}, y)
      BY <1>27 DEF AllAt
    <3>2. Agrees(v, k, Mapped(s), k, Mapped(t))
      BY <1>15, OthersStay DEF Agrees
    <3> QED
      BY <3>1, <3>2, ShelfAgrees
  <2>2. Shelf(s.output_views, OutputsOf(t), Mapped(t), {} \cup {v}, y)
    <3>1. Shelf(s.output_views, OutputsOf(s), Mapped(s), {}, y)
      BY <1>27 DEF AllAt
    <3>2. Agrees(v, OutputsOf(s), Mapped(s), OutputsOf(t), Mapped(t))
      BY <1>15, OthersStay
    <3> QED
      BY <3>1, <3>2, ShelfAgrees
  <2>3. Shelf(p, t.group_of, Mapped(t), {} \cup {v}, y)
    <3>1. Agrees(v, s.group_of, Mapped(s), t.group_of, Mapped(t))
      BY <1>15, OthersStay
    <3>2. Agrees(v, s.group_of, Mapped(s) \ {v}, t.group_of, Mapped(t))
      BY <3>1 DEF Agrees
    <3> QED
      BY <1>11, <3>2, ShelfAgrees
  <2>4. AllAt(t, {v}, y, k)
    BY <1>14, <1>18, <2>1, <2>2, <2>3 DEF AllAt
  <2>5. Stands(t, {v}, y, k, r)
    <3> SUFFICES ASSUME NEW w \in View \ {v} PROVE StandsAt(t, w, y, k, r)
      BY DEF Stands
    <3>1. StandsAt(s, w, y, k, r)
      BY <1>27 DEF Stands
    <3>2. w \in Mapped(t) <=> w \in Mapped(s)
      BY <1>15, OthersStay DEF Agrees
    <3> QED
      BY <1>14, <3>1, <3>2 DEF StandsAt, OutputOf
  <2> QED
    BY <1>27, <2>4, <2>5 DEF InAll
<1>20. InVisible(t, {v}, r)
  <2>1. Shelf(s.workspace_views, OutputsOf(t), Shown(t), {} \cup {v}, r)
    <3>1. Shelf(s.workspace_views, OutputsOf(s), Shown(s), {}, r)
      BY <1>10 DEF Ordered, InVisible
    <3>2. Agrees(v, OutputsOf(s), Shown(s), OutputsOf(t), Shown(t))
      BY <1>15, OthersStay
    <3> QED
      BY <3>1, <3>2, ShelfAgrees
  <2>2. Line(s.visible_views, Shown(t), {} \cup {v}, r)
    BY <1>10, <1>15 DEF Ordered, InVisible, Line
  <2>3. Shelf(o, t.group_of, Shown(t), {} \cup {v}, r)
    <3>1. Agrees(v, s.group_of, Shown(s), t.group_of, Shown(t))
      BY <1>15, OthersStay
    <3>2. Agrees(v, s.group_of, Shown(s) \ {v}, t.group_of, Shown(t))
      BY <3>1 DEF Agrees
    <3> QED
      BY <1>11, <3>2, ShelfAgrees
  <2> QED
    BY <1>14, <1>18, <2>1, <2>2, <2>3 DEF InVisible
<1>21. InLists(t, {v}, {v})
  <2>1. Ordered(t, {v}, {v}, r, lo, hi)
    BY <1>10, <1>19, <1>20 DEF Ordered
  <2> QED
    BY <2>1 DEF InLists
<1>22. Core(b, {v}, {v}) /\ Same(t, b)
  BY <1>14, <1>15, <1>16, <1>17, <1>21, IncreaseKeeps DEF b
<1>23. v \in Shown(b)
  BY <1>15, <1>22, SameStays
<1>24. Core(z, {}, {}) /\ Same(b, z)
  BY <1>7, <1>22, <1>23, RaiseViewKeeps
<1>25. FocusFits(t)
  BY <1>1, <1>14, <1>15, FocusStays
<1>26. FocusFits(z)
  BY <1>22, <1>24, <1>25, SameStays
<1> QED
  BY <1>24, <1>26 DEF Good

(* A view that is hidden leaves all lists.                                  *)
LEMMA UnmapKeeps ==
  ASSUME NEW s, Good(s), NEW v \in Mapped(s), v \in s.hidden
  PROVE  Good([DetachFromGroup(s, v) EXCEPT
                 !.sheet_views = Out(@, v), !.output_views = Out(@, v),
                 !.stale = @ \ {v}, !.sheet_of[v] = NULL, !.group_of[v] = NULL])
<1> DEFINE e == DetachFromGroup(s, v)
           z == [e EXCEPT !.sheet_views = Out(@, v), !.output_views = Out(@, v),
                          !.stale = @ \ {v}, !.sheet_of[v] = NULL, !.group_of[v] = NULL]
           a == Out(s.sheet_views, v)
           b == Out(s.output_views, v)
           p == Out(s.group_views, v)
<1>1. s \in States /\ Placed(s) /\ NotFailed(s) /\ Core(s, {}, {}) /\ FocusFits(s)
  BY DEF Good, Core
<1>2. v \in View /\ v \notin Shown(s)
  BY DEF Shown, Mapped
<1>3. e = [s EXCEPT !.group_views = p, !.typed = e.typed] /\ e.typed \in Group \cup {NULL, Freed}
  BY <1>1, DetachShape
<1> HIDE DEF e
<1>4. PICK r, lo, hi : Ordered(s, {}, {}, r, lo, hi)
  BY <1>1 DEF Core, InLists
<1>22. PICK y, k : /\ Ranks(y, lo, hi) /\ k \in [View -> SheetId \cup {NULL}]
                   /\ Stands(s, {}, y, k, r) /\ AllAt(s, {}, y, k)
  BY <1>4 DEF Ordered, InAll
<1>5. y \in [View -> Int] /\ AllTyped(s)
  BY <1>1, <1>22, TypedLists DEF Ranks
<1>6. a \in [SheetId -> Seq(View)] /\ Shelf(a, k, Mapped(s) \ {v}, {}, y)
  <2>1. s.sheet_views \in [SheetId -> Seq(View)] /\ Shelf(s.sheet_views, k, Mapped(s), {}, y)
    BY <1>5, <1>22 DEF AllTyped, AllAt
  <2> QED
    BY <1>2, <1>5, <2>1, ShelfTaken
<1>7. b \in [Output -> Seq(View)] /\ Shelf(b, OutputsOf(s), Mapped(s) \ {v}, {}, y)
  <2>1. s.output_views \in [Output -> Seq(View)] /\ Shelf(s.output_views, OutputsOf(s), Mapped(s), {}, y)
    BY <1>5, <1>22 DEF AllTyped, AllAt
  <2> QED
    BY <1>2, <1>5, <2>1, ShelfTaken
<1>8. p \in [Group -> Seq(View)] /\ Shelf(p, s.group_of, Mapped(s) \ {v}, {}, y)
  <2>1. s.group_views \in [Group -> Seq(View)] /\ Shelf(s.group_views, s.group_of, Mapped(s), {}, y)
    BY <1>5, <1>22 DEF AllTyped, AllAt
  <2> QED
    BY <1>2, <1>5, <2>1, ShelfTaken
<1>9. z = [s EXCEPT !.group_views = p, !.typed = e.typed, !.sheet_views = a, !.output_views = b,
                    !.stale = s.stale \ {v}, !.sheet_of = [s.sheet_of EXCEPT ![v] = NULL],
                    !.group_of = [s.group_of EXCEPT ![v] = NULL]]
  <2>1. /\ e.sheet_views = s.sheet_views /\ e.output_views = s.output_views
        /\ e.sheet_of = s.sheet_of /\ e.group_of = s.group_of /\ e.stale = s.stale
    <3> HIDE DEF p
    <3> QED
      BY <1>1, <1>3 DEF States
  <2>2. z = [e EXCEPT !.sheet_views = a, !.output_views = b,
                      !.stale = s.stale \ {v}, !.sheet_of = [s.sheet_of EXCEPT ![v] = NULL],
                      !.group_of = [s.group_of EXCEPT ![v] = NULL]]
    BY <2>1
  <2> HIDE DEF z, p, a, b
  <2> QED
    BY <1>1, <1>3, <2>2 DEF States
<1> HIDE DEF z, p, a, b
<1>10. z \in States
  BY <1>1, <1>3, <1>6, <1>7, <1>8, <1>9 DEF States
<1>11. /\ z.sheet_views = a /\ z.output_views = b /\ z.group_views = p
       /\ z.sheet_of = [s.sheet_of EXCEPT ![v] = NULL]
       /\ z.group_of = [s.group_of EXCEPT ![v] = NULL] /\ z.hidden = s.hidden
       /\ z.workspace_views = s.workspace_views /\ z.visible_views = s.visible_views
       /\ z.visible_group_views = s.visible_group_views
       /\ z.next = s.next /\ z.prev = s.prev /\ z.cut = s.cut
       /\ z.focus = s.focus /\ z.mode = s.mode /\ z.fault = s.fault
       /\ z.stale = s.stale \ {v}
  BY <1>1, <1>9 DEF States
<1>12. /\ \A w \in View : z.group_of[w] = IF w = v THEN NULL ELSE s.group_of[w]
       /\ \A w \in View : z.sheet_of[w] = IF w = v THEN NULL ELSE s.sheet_of[w]
  BY <1>1, <1>11 DEF States
<1>13. OthersSame(s, z, v) /\ v \notin Shown(z) /\ v \notin Mapped(z) /\ Placed(z) /\ NotFailed(z)
  BY <1>1, <1>2, <1>11, <1>12 DEF OthersSame, Shown, Mapped, Placed, NotFailed
<1>14. Shown(z) = Shown(s) /\ GroupsOf(z, {}) = GroupsOf(s, {})
  BY <1>2, <1>13, OthersShown
<1>15. Linked(z, GroupsOf(z, {}))
  <2>1. Linked(s, GroupsOf(s, {}))
    BY <1>1 DEF Core
  <2> QED
    BY <1>11, <1>14, <2>1, LinkedStays
<1>16. v \notin Mapped(s) \ {v}
  OBVIOUS
<1>17. InAll(z, {}, r, lo, hi)
  <2>1. Agrees(v, k, Mapped(s) \ {v}, k, Mapped(z))
    <3>1. Agrees(v, k, Mapped(s), k, Mapped(z))
      BY <1>13, OthersStay DEF Agrees
    <3> QED
      BY <3>1 DEF Agrees
  <2>2. Agrees(v, OutputsOf(s), Mapped(s) \ {v}, OutputsOf(z), Mapped(z))
    <3>1. Agrees(v, OutputsOf(s), Mapped(s), OutputsOf(z), Mapped(z))
      BY <1>13, OthersStay
    <3> QED
      BY <3>1 DEF Agrees
  <2>3. Agrees(v, s.group_of, Mapped(s) \ {v}, z.group_of, Mapped(z))
    <3>1. Agrees(v, s.group_of, Mapped(s), z.group_of, Mapped(z))
      BY <1>13, OthersStay
    <3> QED
      BY <3>1 DEF Agrees
  <2>4. Shelf(a, k, Mapped(z), {}, y)
    BY <1>6, <1>13, <1>16, <2>1, ShelfUnseen
  <2>5. Shelf(b, OutputsOf(z), Mapped(z), {}, y)
    BY <1>7, <1>13, <1>16, <2>2, ShelfUnseen
  <2>6. Shelf(p, z.group_of, Mapped(z), {}, y)
    BY <1>8, <1>13, <1>16, <2>3, ShelfUnseen
  <2>7. AllAt(z, {}, y, k)
    BY <1>11, <2>4, <2>5, <2>6 DEF AllAt
  <2>8. Stands(z, {}, y, k, r)
    <3> SUFFICES ASSUME NEW w \in View PROVE StandsAt(z, w, y, k, r)
      BY DEF Stands
    <3>1. CASE w = v
      BY <1>11, <1>13, <3>1 DEF StandsAt
    <3>2. CASE w # v
      <4>1. StandsAt(s, w, y, k, r)
        BY <1>22 DEF Stands
      <4>2. w \in Mapped(z) <=> w \in Mapped(s)
        BY <1>13, <3>2, OthersStay DEF Agrees
      <4>3. z.sheet_of[w] = s.sheet_of[w]
        BY <1>12, <3>2
      <4> QED
        BY <1>11, <3>2, <4>1, <4>2, <4>3 DEF StandsAt, OutputOf
    <3> QED
      BY <3>1, <3>2
  <2> QED
    BY <1>22, <2>7, <2>8 DEF InAll
<1>18. InVisible(z, {}, r)
  <2>1. Shelf(s.workspace_views, OutputsOf(z), Shown(z), {}, r)
    <3>1. Shelf(s.workspace_views, OutputsOf(s), Shown(s), {}, r)
      BY <1>4 DEF Ordered, InVisible
    <3>2. Agrees(v, OutputsOf(s), Shown(s), OutputsOf(z), Shown(z))
      BY <1>13, OthersStay
    <3> QED
      BY <1>2, <1>13, <3>1, <3>2, ShelfUnseen
  <2>2. Shelf(s.visible_group_views, z.group_of, Shown(z), {}, r)
    <3>1. Shelf(s.visible_group_views, s.group_of, Shown(s), {}, r)
      BY <1>4 DEF Ordered, InVisible
    <3>2. Agrees(v, s.group_of, Shown(s), z.group_of, Shown(z))
      BY <1>13, OthersStay
    <3> QED
      BY <1>2, <1>13, <3>1, <3>2, ShelfUnseen
  <2>3. Line(s.visible_views, Shown(z), {}, r)
    BY <1>4, <1>14 DEF Ordered, InVisible
  <2> QED
    BY <1>11, <2>1, <2>2, <2>3 DEF InVisible
<1>19. Ordered(z, {}, {}, r, lo, hi)
  BY <1>4, <1>17, <1>18 DEF Ordered
<1>20. FocusFits(z)
  BY <1>1, <1>11, <1>14, FocusStays
<1>21. Good(z)
  BY <1>10, <1>13, <1>15, <1>19, <1>20 DEF Good, Core, InLists
<1> QED
  BY <1>21 DEF z, e

(* A view moves to another sheet: it is raised there, or stays hidden.      *)
LEMMA MoveShown ==
  ASSUME NEW s, Core(s, {}, {}), NEW v \in Shown(s), NEW sheet \in SheetId
  PROVE  LET t == [s EXCEPT !.sheet_of[v] = sheet]
         IN  /\ Core(RaiseView(t, v), {}, {}) /\ Same(t, RaiseView(t, v))
             /\ RaiseView(t, v).group_of = s.group_of /\ RaiseView(t, v).hidden = s.hidden
             /\ (FocusFits(s) => FocusFits(RaiseView(t, v)))
<1> DEFINE t == [s EXCEPT !.sheet_of[v] = sheet]
           z == RaiseView(t, v)
<1>1. s \in States /\ Placed(s) /\ NotFailed(s)
  BY DEF Core
<1>2. v \in View /\ s.group_of[v] # NULL
  BY DEF Shown, Mapped
<1>3. sheet # NULL
  BY NamesAssumption DEF SheetId
<1>4. /\ t \in States /\ SameLists(s, t) /\ t.group_of = s.group_of /\ t.hidden = s.hidden
      /\ t.sheet_of = [s.sheet_of EXCEPT ![v] = sheet] /\ t.focus = s.focus /\ t.mode = s.mode
      /\ t.fault = s.fault
  BY <1>1, <1>2 DEF States, SameLists, SameShelves, SameLinks
<1>5. \A w \in View : t.sheet_of[w] = IF w = v THEN sheet ELSE s.sheet_of[w]
  BY <1>1, <1>4 DEF States
<1> HIDE DEF t, z
<1>6. OthersSame(s, t, v) /\ Placed(t) /\ NotFailed(t) /\ Shown(t) = Shown(s)
  BY <1>1, <1>2, <1>3, <1>4, <1>5 DEF OthersSame, Placed, NotFailed, Shown, Mapped
<1>7. Core(t, {v}, {v})
  BY <1>2, <1>4, <1>6, ShownMoved
<1>8. Core(z, {}, {}) /\ Same(t, z)
  BY <1>6, <1>7, RaiseViewKeeps DEF z
<1>9. z.group_of = s.group_of /\ z.hidden = s.hidden
  BY <1>4, <1>8 DEF Same
<1>10. FocusFits(s) => FocusFits(z)
  <2>1. FocusFits(s) => FocusFits(t)
    BY <1>4, <1>6, FocusStays
  <2> QED
    BY <1>8, <2>1, SameStays
<1> QED
  BY <1>8, <1>9, <1>10 DEF z, t

LEMMA MoveHidden ==
  ASSUME NEW s, Core(s, {}, {}), NEW v \in View, v \in s.hidden, NEW sheet \in SheetId,
         NEW g \in Group
  PROVE  LET t == [s EXCEPT !.sheet_of[v] = sheet, !.group_of[v] = g]
         IN  /\ Core(MoveToTop(t, v), {}, {})
             /\ MoveToTop(t, v).group_of = [s.group_of EXCEPT ![v] = g]
             /\ MoveToTop(t, v).hidden = s.hidden
             /\ (FocusFits(s) => FocusFits(MoveToTop(t, v)))
<1> DEFINE t == [s EXCEPT !.sheet_of[v] = sheet, !.group_of[v] = g]
           z == MoveToTop(t, v)
<1>1. s \in States /\ Placed(s) /\ NotFailed(s)
  BY DEF Core
<1>2. v \notin Shown(s)
  BY DEF Shown
<1>3. sheet # NULL /\ g # NULL
  BY NamesAssumption DEF SheetId
<1>4. /\ t \in States /\ SameLists(s, t) /\ t.hidden = s.hidden
      /\ t.sheet_of = [s.sheet_of EXCEPT ![v] = sheet]
      /\ t.group_of = [s.group_of EXCEPT ![v] = g] /\ t.focus = s.focus /\ t.mode = s.mode
      /\ t.fault = s.fault
  BY <1>1 DEF States, SameLists, SameShelves, SameLinks
<1>5. /\ \A w \in View : t.sheet_of[w] = IF w = v THEN sheet ELSE s.sheet_of[w]
      /\ \A w \in View : t.group_of[w] = IF w = v THEN g ELSE s.group_of[w]
  BY <1>1, <1>4 DEF States
<1> HIDE DEF t, z
<1>6. /\ OthersSame(s, t, v) /\ Placed(t) /\ NotFailed(t) /\ v \in Mapped(t) /\ v \in t.hidden
      /\ Shown(t) = Shown(s)
  BY <1>1, <1>2, <1>3, <1>4, <1>5 DEF OthersSame, Placed, NotFailed, Shown, Mapped
<1>7. Core(t, {v}, {})
  BY <1>4, <1>6, HiddenMoved
<1>8. Core(z, {}, {}) /\ Same(t, z)
  BY <1>6, <1>7, MoveToTopKeeps DEF z
<1>9. z.group_of = [s.group_of EXCEPT ![v] = g] /\ z.hidden = s.hidden
  BY <1>4, <1>8 DEF Same
<1>10. FocusFits(s) => FocusFits(z)
  <2>1. FocusFits(s) => FocusFits(t)
    BY <1>4, <1>6, FocusStays
  <2> QED
    BY <1>8, <2>1, SameStays
<1> QED
  BY <1>8, <1>9, <1>10 DEF z, t

(* The same, of a view that stays in its group.                             *)
LEMMA MoveMapped ==
  ASSUME NEW s, Core(s, {}, {}), NEW v \in Mapped(s), v \in s.hidden, NEW sheet \in SheetId
  PROVE  LET t == [s EXCEPT !.sheet_of[v] = sheet]
         IN  /\ Core(MoveToTop(t, v), {}, {})
             /\ MoveToTop(t, v).group_of = s.group_of
             /\ MoveToTop(t, v).hidden = s.hidden
             /\ (FocusFits(s) => FocusFits(MoveToTop(t, v)))
<1> DEFINE t == [s EXCEPT !.sheet_of[v] = sheet]
           g == s.group_of[v]
<1>1. s \in States /\ Placed(s)
  BY DEF Core
<1>2. v \in View /\ g \in Group
  BY <1>1, MappedHasPlace
<1>3. [s.group_of EXCEPT ![v] = g] = s.group_of
  BY <1>1 DEF States
<1>4. t = [s EXCEPT !.sheet_of[v] = sheet, !.group_of[v] = g]
  BY <1>1, <1>3 DEF States
<1> DEFINE u == [s EXCEPT !.sheet_of[v] = sheet, !.group_of[v] = g]
<1> HIDE DEF t, g
<1>5. /\ Core(MoveToTop(u, v), {}, {})
      /\ MoveToTop(u, v).group_of = [s.group_of EXCEPT ![v] = g]
      /\ MoveToTop(u, v).hidden = s.hidden
      /\ (FocusFits(s) => FocusFits(MoveToTop(u, v)))
  BY <1>2, MoveHidden
<1> HIDE DEF u
<1>6. t = u
  BY <1>4 DEF u
<1> QED
  BY <1>3, <1>5, <1>6 DEF t

LEMMA EvacuateKeeps ==
  ASSUME NEW s, Good(s), NEW v \in Mapped(s), NEW sheet \in SheetId
  PROVE  Good(Evacuate(s, v, sheet)) /\ Evacuate(s, v, sheet).group_of = s.group_of
<1> DEFINE c == ClearFocus(s, v)
           t == [c EXCEPT !.sheet_of[v] = sheet]
           z == Evacuate(s, v, sheet)
<1>1. v \in View
  BY DEF Mapped
<1>2. Good(c) /\ Cleared(s, c)
  BY <1>1, ClearFocusKeeps
<1>3. Core(c, {}, {}) /\ FocusFits(c)
  BY <1>2 DEF Good
<1>4. z = IF v \in s.hidden THEN MoveToTop(t, v)
          ELSE IF SheetIsVisible(s, sheet) THEN RaiseView(t, v) ELSE Hide(RaiseView(t, v), v)
  BY DEF Evacuate
<1>5. c.group_of = s.group_of /\ c.hidden = s.hidden /\ v \in Mapped(c)
  BY <1>2 DEF Cleared, SameViews, Mapped
<1> HIDE DEF c, z
<1>6. CASE v \in s.hidden
  <2>1. /\ Core(MoveToTop(t, v), {}, {}) /\ MoveToTop(t, v).group_of = c.group_of
        /\ (FocusFits(c) => FocusFits(MoveToTop(t, v)))
    BY <1>3, <1>5, <1>6, MoveMapped
  <2>2. z = MoveToTop(t, v)
    BY <1>4, <1>6
  <2> QED
    BY <1>3, <1>5, <2>1, <2>2 DEF Good, z
<1>7. CASE v \notin s.hidden
  <2> DEFINE u == RaiseView(t, v)
  <2>1. v \in Shown(c)
    BY <1>5, <1>7 DEF Shown
  <2>2. /\ Core(u, {}, {}) /\ u.group_of = c.group_of /\ u.hidden = c.hidden
        /\ (FocusFits(c) => FocusFits(u))
    BY <1>3, <2>1, MoveShown
  <2>3. z = u \/ z = Hide(u, v)
    BY <1>4, <1>7
  <2> HIDE DEF u
  <2>4. Good(u) /\ v \in Shown(u)
    BY <1>3, <2>1, <2>2 DEF Good, Shown, Mapped
  <2>5. Good(Hide(u, v)) /\ Conceals(u, Hide(u, v), v)
    BY <2>4, HideKeeps
  <2> QED
    BY <1>5, <2>2, <2>3, <2>4, <2>5 DEF Conceals, z
<1> QED
  BY <1>6, <1>7

-----------------------------------------------------------------------------
(* An operation on each view of a list.  What holds of each state that the *)
(* loop reaches may depend on the places u of the list that it has passed. *)

LEMMA SameTwice ==
  ASSUME NEW s, NEW t, NEW u, Same(s, t), Same(t, u)
  PROVE  Same(s, u)
BY DEF Same

StillShown(s, w, list, u) ==
  /\ w.group_of = s.group_of /\ w.sheet_of = s.sheet_of /\ w.current = s.current
  /\ \A i \in (1 .. Len(list)) \ u : list[i] \in Shown(w)

LEMMA HideEachKeeps ==
  ASSUME NEW s, Good(s), NEW list \in Seq(View), ToSet(list) \subseteq Shown(s),
         IsInjective(list)
  PROVE  /\ Good(Each(Hide, s, list)) /\ Each(Hide, s, list).group_of = s.group_of
         /\ Each(Hide, s, list).sheet_of = s.sheet_of /\ Each(Hide, s, list).current = s.current
<1> DEFINE n == Len(list)
           V == [u \in SUBSET (1 .. n) |-> {w \in States : Good(w) /\ StillShown(s, w, list, u)}]
           After(w, i) == IF Runs(w) THEN Hide(w, list[i]) ELSE w
           step == [p \in (1 .. n) \X States |-> After(p[2], p[1])]
           iter == CHOOSE iter : iter = [u \in SUBSET DOMAIN list |->
                     IF u = {} THEN s ELSE After(iter[u \ {Max(u)}], Max(u))]
<1>1. Each(Hide, s, list) = iter[DOMAIN list]
  BY DEF Each, FoldLeft, MapThenFoldSet
<1>2. n \in Nat /\ DOMAIN list = 1 .. n
  OBVIOUS
<1>3. s \in V[{}]
  <2>1. \A i \in 1 .. Len(list) : list[i] \in Shown(s)
    BY InList
  <2> QED
    BY <2>1 DEF Good, Core, StillShown
<1>4. ASSUME NEW u \in SUBSET (1 .. n), u # {}, NEW w \in V[u \ {Max(u)}]
      PROVE  After(w, Max(u)) \in V[u] /\ Max(u) \in 1 .. n /\ w \in States
  <2>1. Max(u) \in 1 .. n /\ Max(u) \in u
    <3> HIDE DEF n
    <3> QED
      BY <1>2, <1>4, LastPlace
  <2>2. u \ {Max(u)} \in SUBSET (1 .. n)
    OBVIOUS
  <2>3. w \in States /\ Good(w) /\ StillShown(s, w, list, u \ {Max(u)})
    BY <1>4, <2>2
  <2> DEFINE m == Max(u)
             e == list[m]
             t == Hide(w, e)
  <2>4. e \in Shown(w)
    BY <2>1, <2>3 DEF StillShown
  <2>5. \A i \in (1 .. Len(list)) \ u : i \in (1 .. Len(list)) \ (u \ {m}) /\ list[i] # e
    BY <2>1, OnceInList
  <2> HIDE DEF e, t
  <2>6. Good(t) /\ Conceals(w, t, e)
    BY <2>3, <2>4, HideKeeps DEF t
  <2> HIDE DEF m
  <2>7. StillShown(s, t, list, u) /\ StillShown(s, w, list, u)
    BY <2>3, <2>5, <2>6 DEF StillShown, Conceals, Shown, Mapped, m
  <2>8. After(w, Max(u)) = IF Runs(w) THEN t ELSE w
    BY DEF t, e, m
  <2> HIDE DEF After
  <2> QED
    BY <1>4, <2>1, <2>3, <2>6, <2>7, <2>8 DEF Good, Core
<1>5. PICK g : IsLoop(g, n, V, s, step)
  <2>1. LoopSteps(n, V, step)
    <3> HIDE DEF n, V, After
    <3> QED
      BY <1>4 DEF LoopSteps
  <2> HIDE DEF n, V, step
  <2> QED
    BY <1>2, <1>3, <2>1, LoopExists
<1>6. iter = [u \in SUBSET DOMAIN list |->
                IF u = {} THEN s ELSE After(iter[u \ {Max(u)}], Max(u))]
  <2> DEFINE Is(f) == f = [u \in SUBSET DOMAIN list |->
                IF u = {} THEN s ELSE After(f[u \ {Max(u)}], Max(u))]
  <2>1. ASSUME NEW u \in SUBSET (1 .. n), u # {}
        PROVE  step[<<Max(u), g[u \ {Max(u)}]>>] = After(g[u \ {Max(u)}], Max(u))
    <3>1. g[u \ {Max(u)}] \in V[u \ {Max(u)}]
      BY <1>5, <2>1 DEF IsLoop
    <3> HIDE DEF V, After, n
    <3> QED
      BY <1>4, <2>1, <3>1
  <2>2. Is(g)
    <3> HIDE DEF V, After, n, step
    <3> QED
      BY <1>2, <1>5, <2>1 DEF IsLoop
  <2> HIDE DEF Is
  <2>3. Is(CHOOSE f : Is(f))
    BY <2>2
  <2> QED
    BY <2>3 DEF Is
<1> HIDE DEF iter
<1>7. \A u \in SUBSET (1 .. n) : iter[u] \in V[u]
  <2>1. iter[{}] \in V[{}]
    <3>1. iter[{}] = s
      BY <1>6
    <3> HIDE DEF V
    <3> QED
      BY <1>3, <3>1
  <2>2. \A u \in SUBSET (1 .. n) :
          u # {} /\ iter[u \ {Max(u)}] \in V[u \ {Max(u)}] => iter[u] \in V[u]
    <3> HIDE DEF V, After, n
    <3> QED
      BY <1>2, <1>4, <1>6
  <2> HIDE DEF V, n
  <2> QED
    BY <1>2, <2>1, <2>2, LoopStays
<1> QED
  BY <1>1, <1>2, <1>7 DEF StillShown


ShowEach(chosen, s, list) == Each(LAMBDA t, v : ShowIfChosen(chosen, t, v), s, list)

StillHidden(s, w, list, u, chosen) ==
  /\ w.group_of = s.group_of
  /\ \A i \in (1 .. Len(list)) \ u : list[i] \in chosen => list[i] \in w.hidden

LEMMA ShowEachKeeps ==
  ASSUME NEW s, Good(s), NEW list \in Seq(View), ToSet(list) \subseteq Mapped(s),
         IsInjective(list), NEW chosen, ToSet(list) \cap chosen \subseteq s.hidden
  PROVE  Good(ShowEach(chosen, s, list)) /\ ShowEach(chosen, s, list).group_of = s.group_of
<1> DEFINE n == Len(list)
           V == [u \in SUBSET (1 .. n) |-> {w \in States : Good(w) /\ StillHidden(s, w, list, u, chosen)}]
           After(w, i) == IF Runs(w) THEN ShowIfChosen(chosen, w, list[i]) ELSE w
           step == [p \in (1 .. n) \X States |-> After(p[2], p[1])]
           iter == CHOOSE iter : iter = [u \in SUBSET DOMAIN list |->
                     IF u = {} THEN s ELSE After(iter[u \ {Max(u)}], Max(u))]
<1>1. ShowEach(chosen, s, list) = iter[DOMAIN list]
  BY DEF Each, FoldLeft, MapThenFoldSet, ShowEach
<1>2. n \in Nat /\ DOMAIN list = 1 .. n
  OBVIOUS
<1>3. s \in V[{}]
  <2>1. \A i \in 1 .. Len(list) : list[i] \in ToSet(list)
    BY InList
  <2> QED
    BY <2>1 DEF Good, Core, StillHidden
<1>4. ASSUME NEW u \in SUBSET (1 .. n), u # {}, NEW w \in V[u \ {Max(u)}]
      PROVE  After(w, Max(u)) \in V[u] /\ Max(u) \in 1 .. n /\ w \in States
  <2>1. Max(u) \in 1 .. n /\ Max(u) \in u
    <3> HIDE DEF n
    <3> QED
      BY <1>2, <1>4, LastPlace
  <2>2. u \ {Max(u)} \in SUBSET (1 .. n)
    OBVIOUS
  <2>3. w \in States /\ Good(w) /\ StillHidden(s, w, list, u \ {Max(u)}, chosen)
    BY <1>4, <2>2
  <2> DEFINE m == Max(u)
             e == list[m]
             t == Show(w, e)
  <2>4. e \in Mapped(w) /\ (e \in chosen => e \in w.hidden)
    <3>1. e \in Mapped(s)
      BY <2>1, InList
    <3> QED
      BY <2>1, <2>3, <3>1 DEF StillHidden, Mapped
  <2>5. \A i \in (1 .. Len(list)) \ u : i \in (1 .. Len(list)) \ (u \ {m}) /\ list[i] # e
    BY <2>1, OnceInList
  <2>6. After(w, Max(u)) = IF Runs(w) /\ e \in chosen THEN t ELSE w
    BY DEF ShowIfChosen
  <2> HIDE DEF e, t, After, m
  <2>7. StillHidden(s, w, list, u, chosen)
    BY <2>3, <2>5 DEF StillHidden
  <2>8. CASE e \in chosen
    <3>1. Core(t, {}, {}) /\ Shows(w, t, e)
      BY <2>3, <2>4, <2>8, ShowKeeps DEF t, Good
    <3>2. FocusFits(t)
      <4>1. Shown(w) \subseteq Shown(t)
        BY <3>1 DEF Shows, SameRest, Shown, Mapped
      <4> QED
        BY <2>3, <3>1, <4>1, FocusStays DEF Shows, SameRest, Good
    <3>3. StillHidden(s, t, list, u, chosen)
      BY <2>5, <2>7, <3>1 DEF StillHidden, Shows, SameRest
    <3> QED
      BY <1>4, <2>1, <2>3, <2>6, <2>7, <3>1, <3>2, <3>3 DEF Good, Core
  <2>9. CASE e \notin chosen
    BY <1>4, <2>1, <2>3, <2>6, <2>7, <2>9
  <2> QED
    BY <2>8, <2>9
<1>5. PICK g : IsLoop(g, n, V, s, step)
  <2>1. LoopSteps(n, V, step)
    <3> HIDE DEF n, V, After
    <3> QED
      BY <1>4 DEF LoopSteps
  <2> HIDE DEF n, V, step
  <2> QED
    BY <1>2, <1>3, <2>1, LoopExists
<1>6. iter = [u \in SUBSET DOMAIN list |->
                IF u = {} THEN s ELSE After(iter[u \ {Max(u)}], Max(u))]
  <2> DEFINE Is(f) == f = [u \in SUBSET DOMAIN list |->
                IF u = {} THEN s ELSE After(f[u \ {Max(u)}], Max(u))]
  <2>1. ASSUME NEW u \in SUBSET (1 .. n), u # {}
        PROVE  step[<<Max(u), g[u \ {Max(u)}]>>] = After(g[u \ {Max(u)}], Max(u))
    <3>1. g[u \ {Max(u)}] \in V[u \ {Max(u)}]
      BY <1>5, <2>1 DEF IsLoop
    <3> HIDE DEF V, After, n
    <3> QED
      BY <1>4, <2>1, <3>1
  <2>2. Is(g)
    <3> HIDE DEF V, After, n, step
    <3> QED
      BY <1>2, <1>5, <2>1 DEF IsLoop
  <2> HIDE DEF Is
  <2>3. Is(CHOOSE f : Is(f))
    BY <2>2
  <2> QED
    BY <2>3 DEF Is
<1> HIDE DEF iter
<1>7. \A u \in SUBSET (1 .. n) : iter[u] \in V[u]
  <2>1. iter[{}] \in V[{}]
    <3>1. iter[{}] = s
      BY <1>6
    <3> HIDE DEF V
    <3> QED
      BY <1>3, <3>1
  <2>2. \A u \in SUBSET (1 .. n) :
          u # {} /\ iter[u \ {Max(u)}] \in V[u \ {Max(u)}] => iter[u] \in V[u]
    <3> HIDE DEF V, After, n
    <3> QED
      BY <1>2, <1>4, <1>6
  <2> HIDE DEF V, n
  <2> QED
    BY <1>2, <2>1, <2>2, LoopStays
<1> QED
  BY <1>1, <1>2, <1>7 DEF StillHidden


EvacuateEach(sheet, s, list) == Each(LAMBDA t, v : Evacuate(t, v, sheet), s, list)

LEMMA EvacuateEachKeeps ==
  ASSUME NEW s, Good(s), NEW list \in Seq(View), ToSet(list) \subseteq Mapped(s), NEW sheet \in SheetId
  PROVE  Good(EvacuateEach(sheet, s, list))
<1> DEFINE n == Len(list)
           V == [u \in SUBSET (1 .. n) |-> {w \in States : Good(w) /\ w.group_of = s.group_of}]
           After(w, i) == IF Runs(w) THEN Evacuate(w, list[i], sheet) ELSE w
           step == [p \in (1 .. n) \X States |-> After(p[2], p[1])]
           iter == CHOOSE iter : iter = [u \in SUBSET DOMAIN list |->
                     IF u = {} THEN s ELSE After(iter[u \ {Max(u)}], Max(u))]
<1>1. EvacuateEach(sheet, s, list) = iter[DOMAIN list]
  BY DEF Each, FoldLeft, MapThenFoldSet, EvacuateEach
<1>2. n \in Nat /\ DOMAIN list = 1 .. n
  OBVIOUS
<1>3. s \in V[{}]
  BY DEF Good, Core
<1>4. ASSUME NEW u \in SUBSET (1 .. n), u # {}, NEW w \in V[u \ {Max(u)}]
      PROVE  After(w, Max(u)) \in V[u] /\ Max(u) \in 1 .. n /\ w \in States
  <2>1. Max(u) \in 1 .. n /\ Max(u) \in u
    <3> HIDE DEF n
    <3> QED
      BY <1>2, <1>4, LastPlace
  <2>2. u \ {Max(u)} \in SUBSET (1 .. n)
    OBVIOUS
  <2>3. w \in States /\ Good(w) /\ w.group_of = s.group_of
    BY <1>4, <2>2
  <2> DEFINE e == list[Max(u)]
             t == Evacuate(w, e, sheet)
  <2>4. e \in Mapped(w)
    <3>1. e \in Mapped(s)
      BY <2>1, InList
    <3> QED
      BY <2>3, <3>1 DEF Mapped
  <2> HIDE DEF e, t
  <2>5. Good(t) /\ t.group_of = w.group_of
    BY <2>3, <2>4, EvacuateKeeps DEF t
  <2>6. After(w, Max(u)) = IF Runs(w) THEN t ELSE w
    BY DEF t, e
  <2> HIDE DEF After
  <2> QED
    BY <1>4, <2>1, <2>3, <2>5, <2>6 DEF Good, Core
<1>5. PICK g : IsLoop(g, n, V, s, step)
  <2>1. LoopSteps(n, V, step)
    <3> HIDE DEF n, V, After
    <3> QED
      BY <1>4 DEF LoopSteps
  <2> HIDE DEF n, V, step
  <2> QED
    BY <1>2, <1>3, <2>1, LoopExists
<1>6. iter = [u \in SUBSET DOMAIN list |->
                IF u = {} THEN s ELSE After(iter[u \ {Max(u)}], Max(u))]
  <2> DEFINE Is(f) == f = [u \in SUBSET DOMAIN list |->
                IF u = {} THEN s ELSE After(f[u \ {Max(u)}], Max(u))]
  <2>1. ASSUME NEW u \in SUBSET (1 .. n), u # {}
        PROVE  step[<<Max(u), g[u \ {Max(u)}]>>] = After(g[u \ {Max(u)}], Max(u))
    <3>1. g[u \ {Max(u)}] \in V[u \ {Max(u)}]
      BY <1>5, <2>1 DEF IsLoop
    <3> HIDE DEF V, After, n
    <3> QED
      BY <1>4, <2>1, <3>1
  <2>2. Is(g)
    <3> HIDE DEF V, After, n, step
    <3> QED
      BY <1>2, <1>5, <2>1 DEF IsLoop
  <2> HIDE DEF Is
  <2>3. Is(CHOOSE f : Is(f))
    BY <2>2
  <2> QED
    BY <2>3 DEF Is
<1> HIDE DEF iter
<1>7. \A u \in SUBSET (1 .. n) : iter[u] \in V[u]
  <2>1. iter[{}] \in V[{}]
    <3>1. iter[{}] = s
      BY <1>6
    <3> HIDE DEF V
    <3> QED
      BY <1>3, <3>1
  <2>2. \A u \in SUBSET (1 .. n) :
          u # {} /\ iter[u \ {Max(u)}] \in V[u \ {Max(u)}] => iter[u] \in V[u]
    <3> HIDE DEF V, After, n
    <3> QED
      BY <1>2, <1>4, <1>6
  <2> HIDE DEF V, n
  <2> QED
    BY <1>2, <2>1, <2>2, LoopStays
<1> QED
  BY <1>1, <1>2, <1>7

-----------------------------------------------------------------------------
(* Groups, sheets and workspaces                                           *)

(* What the lists of a state hold.                                         *)
Holds(list, M) == list \in Seq(View) /\ IsInjective(list) /\ ToSet(list) = M

KeyedBy(key, M, i) == {w \in M : key[w] = i}

LEMMA ShelfHolds ==
  ASSUME NEW I, NEW lists \in [I -> Seq(View)], NEW i \in I, NEW key, NEW M, M \subseteq View,
         NEW r \in [View -> Int], Shelf(lists, key, M, {}, r)
  PROVE  Holds(lists[i], KeyedBy(key, M, i))
<1>1. lists[i] \in Seq(View) /\ Rising(lists[i], r)
  BY DEF Shelf
<1>2. \A w \in View : w \in ToSet(lists[i]) <=> w \in M /\ key[w] = i
  BY DEF Shelf
<1>3. ToSet(lists[i]) \subseteq View
  BY <1>1, MembersAreViews
<1>4. IsInjective(lists[i])
  BY <1>1, RisingOnce
<1>5. ToSet(lists[i]) = KeyedBy(key, M, i)
  BY <1>2, <1>3 DEF KeyedBy
<1> QED
  BY <1>1, <1>4, <1>5 DEF Holds

LEMMA ListsHold ==
  ASSUME NEW s, Core(s, {}, {})
  PROVE  /\ Holds(s.visible_views, Shown(s))
         /\ \A o \in Output : /\ Holds(s.output_views[o], {w \in Mapped(s) : OutputOf(s, w) = o})
                              /\ Holds(s.workspace_views[o], {w \in Shown(s) : OutputOf(s, w) = o})
         /\ \A g \in Group : /\ Holds(s.group_views[g], {w \in Mapped(s) : s.group_of[w] = g})
                             /\ Holds(s.visible_group_views[g], {w \in Shown(s) : s.group_of[w] = g})
         /\ \A sheet \in SheetId :
              /\ Holds(s.sheet_views[sheet], ToSet(s.sheet_views[sheet]))
              /\ ToSet(s.sheet_views[sheet]) \subseteq Mapped(s)
<1>1. PICK r, lo, hi : Ordered(s, {}, {}, r, lo, hi)
  BY DEF Core, InLists
<1>2. AllTyped(s) /\ VisibleTyped(s) /\ InVisible(s, {}, r) /\ r \in [View -> Int]
  BY <1>1, TypedLists DEF Core, Ordered
<1>9. PICK p, k : p \in [View -> Int] /\ AllAt(s, {}, p, k)
  BY <1>1 DEF Ordered, InAll, Ranks
<1>3. Shown(s) \subseteq View /\ Mapped(s) \subseteq View
  BY DEF Shown, Mapped
<1>4. \A w \in View : OutputsOf(s)[w] = OutputOf(s, w)
  BY DEF OutputsOf
<1>5. ASSUME NEW o \in Output
      PROVE  /\ Holds(s.output_views[o], {w \in Mapped(s) : OutputOf(s, w) = o})
             /\ Holds(s.workspace_views[o], {w \in Shown(s) : OutputOf(s, w) = o})
  <2>1. s.output_views \in [Output -> Seq(View)]
    BY <1>2 DEF AllTyped
  <2>2. Shelf(s.output_views, OutputsOf(s), Mapped(s), {}, p)
    BY <1>9 DEF AllAt
  <2>3. s.workspace_views \in [Output -> Seq(View)]
    BY <1>2 DEF VisibleTyped
  <2>4. Shelf(s.workspace_views, OutputsOf(s), Shown(s), {}, r)
    BY <1>2 DEF InVisible
  <2>5. Holds(s.output_views[o], KeyedBy(OutputsOf(s), Mapped(s), o))
    BY <1>9, <1>3, <2>1, <2>2, ShelfHolds
  <2>6. Holds(s.workspace_views[o], KeyedBy(OutputsOf(s), Shown(s), o))
    BY <1>2, <1>3, <2>3, <2>4, ShelfHolds
  <2>7. /\ KeyedBy(OutputsOf(s), Mapped(s), o) = {w \in Mapped(s) : OutputOf(s, w) = o}
        /\ KeyedBy(OutputsOf(s), Shown(s), o) = {w \in Shown(s) : OutputOf(s, w) = o}
    BY <1>3, <1>4 DEF KeyedBy
  <2> QED
    BY <2>5, <2>6, <2>7
<1>6. ASSUME NEW g \in Group
      PROVE  /\ Holds(s.group_views[g], {w \in Mapped(s) : s.group_of[w] = g})
             /\ Holds(s.visible_group_views[g], {w \in Shown(s) : s.group_of[w] = g})
  <2>1. s.group_views \in [Group -> Seq(View)]
    BY <1>2 DEF AllTyped
  <2>2. Shelf(s.group_views, s.group_of, Mapped(s), {}, p)
    BY <1>9 DEF AllAt
  <2>3. s.visible_group_views \in [Group -> Seq(View)]
    BY <1>2 DEF VisibleTyped
  <2>4. Shelf(s.visible_group_views, s.group_of, Shown(s), {}, r)
    BY <1>2 DEF InVisible
  <2>5. Holds(s.group_views[g], KeyedBy(s.group_of, Mapped(s), g))
    BY <1>9, <1>3, <2>1, <2>2, ShelfHolds
  <2>6. Holds(s.visible_group_views[g], KeyedBy(s.group_of, Shown(s), g))
    BY <1>2, <1>3, <2>3, <2>4, ShelfHolds
  <2> QED
    BY <2>5, <2>6 DEF KeyedBy
<1>7. ASSUME NEW sheet \in SheetId
      PROVE  /\ Holds(s.sheet_views[sheet], ToSet(s.sheet_views[sheet]))
             /\ ToSet(s.sheet_views[sheet]) \subseteq Mapped(s)
  <2>1. s.sheet_views \in [SheetId -> Seq(View)]
    BY <1>2 DEF AllTyped
  <2>2. Shelf(s.sheet_views, k, Mapped(s), {}, p)
    BY <1>9 DEF AllAt
  <2>3. Holds(s.sheet_views[sheet], KeyedBy(k, Mapped(s), sheet))
    BY <1>9, <1>3, <2>1, <2>2, ShelfHolds
  <2> QED
    BY <2>3 DEF KeyedBy, Holds
<1>8. Holds(s.visible_views, Shown(s))
  <2>1. s.visible_views \in Seq(View) /\ Line(s.visible_views, Shown(s), {}, r)
    BY <1>2 DEF VisibleTyped, InVisible
  <2>2. Rising(s.visible_views, r) /\ \A w \in View : w \in ToSet(s.visible_views) <=> w \in Shown(s)
    BY <2>1 DEF Line
  <2>3. ToSet(s.visible_views) \subseteq View
    BY <2>1, MembersAreViews
  <2>4. IsInjective(s.visible_views)
    BY <1>2, <2>1, <2>2, RisingOnce
  <2>5. ToSet(s.visible_views) = Shown(s)
    BY <1>3, <2>2, <2>3
  <2> QED
    BY <2>1, <2>4, <2>5 DEF Holds
<1> QED
  BY <1>5, <1>6, <1>7, <1>8

LEMMA ReversedHolds ==
  ASSUME NEW list, NEW M, Holds(list, M)
  PROVE  Holds(Reverse(list), M)
BY ReversedList, ReversedOnce DEF Holds

LEMMA ClearKeeps ==
  ASSUME NEW s, Good(s), NEW o \in Output
  PROVE  /\ Good(Clear(s, o)) /\ Clear(s, o).group_of = s.group_of
         /\ Clear(s, o).sheet_of = s.sheet_of /\ Clear(s, o).current = s.current
<1> DEFINE list == Reverse(s.workspace_views[o])
<1>1. Holds(list, {w \in Shown(s) : OutputOf(s, w) = o})
  BY ListsHold, ReversedHolds DEF Good
<1>2. Clear(s, o) = Each(Hide, s, list)
  BY DEF Clear
<1> HIDE DEF list
<1>3. list \in Seq(View) /\ IsInjective(list) /\ ToSet(list) \subseteq Shown(s)
  BY <1>1 DEF Holds
<1> QED
  BY <1>2, <1>3, HideEachKeeps

LEMMA ClearEachKeeps ==
  ASSUME NEW s, Good(s), NEW list \in Seq(Output)
  PROVE  Good(Each(Clear, s, list)) /\ Each(Clear, s, list).group_of = s.group_of
<1> DEFINE n == Len(list)
           V == [u \in SUBSET (1 .. n) |-> {w \in States : Good(w) /\ w.group_of = s.group_of}]
           After(w, i) == IF Runs(w) THEN Clear(w, list[i]) ELSE w
           step == [p \in (1 .. n) \X States |-> After(p[2], p[1])]
           iter == CHOOSE iter : iter = [u \in SUBSET DOMAIN list |->
                     IF u = {} THEN s ELSE After(iter[u \ {Max(u)}], Max(u))]
<1>1. Each(Clear, s, list) = iter[DOMAIN list]
  BY DEF Each, FoldLeft, MapThenFoldSet
<1>2. n \in Nat /\ DOMAIN list = 1 .. n
  OBVIOUS
<1>3. s \in V[{}]
  BY DEF Good, Core
<1>4. ASSUME NEW u \in SUBSET (1 .. n), u # {}, NEW w \in V[u \ {Max(u)}]
      PROVE  After(w, Max(u)) \in V[u] /\ Max(u) \in 1 .. n /\ w \in States
  <2>1. Max(u) \in 1 .. n /\ Max(u) \in u
    <3> HIDE DEF n
    <3> QED
      BY <1>2, <1>4, LastPlace
  <2>2. u \ {Max(u)} \in SUBSET (1 .. n)
    OBVIOUS
  <2>3. w \in States /\ Good(w) /\ w.group_of = s.group_of
    BY <1>4, <2>2
  <2> DEFINE e == list[Max(u)]
             t == Clear(w, e)
  <2>4. e \in Output
    BY <2>1
  <2> HIDE DEF e, t
  <2>5. Good(t) /\ t.group_of = w.group_of
    BY <2>3, <2>4, ClearKeeps DEF t
  <2>6. After(w, Max(u)) = IF Runs(w) THEN t ELSE w
    BY DEF t, e
  <2> HIDE DEF After
  <2> QED
    BY <1>4, <2>1, <2>3, <2>5, <2>6 DEF Good, Core
<1>5. PICK g : IsLoop(g, n, V, s, step)
  <2>1. LoopSteps(n, V, step)
    <3> HIDE DEF n, V, After
    <3> QED
      BY <1>4 DEF LoopSteps
  <2> HIDE DEF n, V, step
  <2> QED
    BY <1>2, <1>3, <2>1, LoopExists
<1>6. iter = [u \in SUBSET DOMAIN list |->
                IF u = {} THEN s ELSE After(iter[u \ {Max(u)}], Max(u))]
  <2> DEFINE Is(f) == f = [u \in SUBSET DOMAIN list |->
                IF u = {} THEN s ELSE After(f[u \ {Max(u)}], Max(u))]
  <2>1. ASSUME NEW u \in SUBSET (1 .. n), u # {}
        PROVE  step[<<Max(u), g[u \ {Max(u)}]>>] = After(g[u \ {Max(u)}], Max(u))
    <3>1. g[u \ {Max(u)}] \in V[u \ {Max(u)}]
      BY <1>5, <2>1 DEF IsLoop
    <3> HIDE DEF V, After, n
    <3> QED
      BY <1>4, <2>1, <3>1
  <2>2. Is(g)
    <3> HIDE DEF V, After, n, step
    <3> QED
      BY <1>2, <1>5, <2>1 DEF IsLoop
  <2> HIDE DEF Is
  <2>3. Is(CHOOSE f : Is(f))
    BY <2>2
  <2> QED
    BY <2>3 DEF Is
<1> HIDE DEF iter
<1>7. \A u \in SUBSET (1 .. n) : iter[u] \in V[u]
  <2>1. iter[{}] \in V[{}]
    <3>1. iter[{}] = s
      BY <1>6
    <3> HIDE DEF V
    <3> QED
      BY <1>3, <3>1
  <2>2. \A u \in SUBSET (1 .. n) :
          u # {} /\ iter[u \ {Max(u)}] \in V[u \ {Max(u)}] => iter[u] \in V[u]
    <3> HIDE DEF V, After, n
    <3> QED
      BY <1>2, <1>4, <1>6
  <2> HIDE DEF V, n
  <2> QED
    BY <1>2, <2>1, <2>2, LoopStays
<1> QED
  BY <1>1, <1>2, <1>7


LEMMA SetAsList ==
  ASSUME NEW A, NEW U \in SUBSET A, IsFiniteSet(U)
  PROVE  SetToSeq(U) \in Seq(A)
<1>1. PICK f : f \in [1 .. Cardinality(U) -> U] /\ IsInjective(f)
  <2>1. ExistsBijection(1 .. Cardinality(U), U)
    BY FS_CardinalityType
  <2>2. PICK f \in [1 .. Cardinality(U) -> U] : \A a, b \in 1 .. Cardinality(U) : f[a] = f[b] => a = b
    BY <2>1 DEF ExistsBijection, Bijection, Injection, IsInjective
  <2> QED
    BY <2>2 DEF IsInjective
<1>2. SetToSeq(U) \in [1 .. Cardinality(U) -> U]
  BY <1>1 DEF SetToSeq
<1>3. Cardinality(U) \in Nat
  BY FS_CardinalityType
<1> QED
  BY <1>2, <1>3

LEMMA ShowViewsKeeps ==
  ASSUME NEW s, Good(s), NEW list, NEW M, Holds(list, M), M \subseteq Mapped(s), NEW chosen
  PROVE  Good(ShowViews(s, list, chosen)) /\ ShowViews(s, list, chosen).group_of = s.group_of
<1> DEFINE up == Reverse(list)
           visible == {i \in DOMAIN up : up[i] \in chosen \ s.hidden}
           part == IF visible = {} THEN up ELSE SubSeq(up, 1, Min(visible) - 1)
<1>1. ShowViews(s, list, chosen) = ShowEach(chosen, s, part)
  BY DEF ShowViews, ShowEach
<1>2. Holds(up, M)
  BY ReversedHolds
<1> HIDE DEF up
<1>3. up \in Seq(View) /\ IsInjective(up) /\ ToSet(up) \subseteq Mapped(s)
  BY <1>2 DEF Holds
<1>4. DOMAIN up = 1 .. Len(up) /\ Len(up) \in Nat
  BY <1>3
<1>5. /\ part \in Seq(View) /\ IsInjective(part) /\ ToSet(part) \subseteq Mapped(s)
      /\ ToSet(part) \cap chosen \subseteq s.hidden
  <2>1. CASE visible = {}
    <3>1. part = up
      BY <2>1
    <3>2. \A x \in ToSet(up) : x \notin chosen \ s.hidden
      BY <1>3, <1>4, <2>1, InList
    <3> HIDE DEF part
    <3> QED
      BY <1>3, <3>1, <3>2
  <2>2. CASE visible # {}
    <3> DEFINE k == Min(visible) - 1
    <3>1. visible \in SUBSET (1 .. Len(up))
      BY <1>4
    <3>2. Min(visible) \in visible /\ \A i \in visible : Min(visible) <= i
      <4> HIDE DEF visible
      <4> QED
        BY <1>4, <2>2, <3>1, FirstPlace
    <3>3. k \in 0 .. Len(up) /\ \A i \in 1 .. k : i \notin visible /\ i \in 1 .. Len(up)
      <4> DEFINE m == Min(visible)
      <4>1. m \in 1 .. Len(up) /\ \A i \in visible : m <= i
        <5> HIDE DEF visible
        <5> QED
          BY <3>1, <3>2
      <4>2. k = m - 1
        OBVIOUS
      <4> HIDE DEF m, visible, k
      <4> QED
        BY <1>4, <4>1, <4>2
    <3>4. part = SubSeq(up, 1, k)
      BY <2>2
    <3> HIDE DEF k, part
    <3>5. Halves(View, up, SubSeq(up, 1, k), SubSeq(up, k + 1, Len(up)))
      BY <1>3, <3>3, CutInTwo
    <3>6. part \in Seq(View) /\ IsInjective(part) /\ ToSet(part) \subseteq Mapped(s)
      BY <1>3, <3>4, <3>5 DEF Halves
    <3>7. Len(part) = k /\ \A i \in 1 .. k : part[i] = up[i]
      BY <1>3, <3>3, <3>4, SubSeqProperties
    <3>8. ASSUME NEW x \in ToSet(part) PROVE x \notin chosen \ s.hidden
      <4>1. PICK i \in 1 .. Len(part) : part[i] = x
        BY <3>6, InList
      <4> QED
        BY <1>4, <3>3, <3>7, <4>1
    <3> QED
      BY <3>6, <3>8
  <2> QED
    BY <2>1, <2>2
<1> HIDE DEF part
<1> QED
  BY <1>1, <1>5, ShowEachKeeps

LEMMA ShowOnWorkspaceKeeps ==
  ASSUME NEW s, Good(s), NEW o \in Output, NEW list, NEW M, Holds(list, M), M \subseteq Mapped(s),
         NEW chosen
  PROVE  Good(ShowOnWorkspace(s, o, list, chosen))
<1> DEFINE c == Clear(s, o)
<1>1. Good(c) /\ c.group_of = s.group_of
  BY ClearKeeps
<1> HIDE DEF c
<1>2. M \subseteq Mapped(c)
  BY <1>1 DEF Mapped
<1>3. Good(ShowViews(c, list, chosen))
  BY <1>1, <1>2, ShowViewsKeeps
<1> QED
  BY <1>3 DEF ShowOnWorkspace, c

LEMMA ShowOnlyGroupKeeps ==
  ASSUME NEW s, Good(s), NEW g \in Group, outputs \in SUBSET Output
  PROVE  Good(ShowOnlyGroup(s, g))
<1> DEFINE list == SetToSeq(outputs)
           c == Each(Clear, s, list)
           M == {w \in Mapped(s) : s.group_of[w] = g}
<1>1. list \in Seq(Output)
  <2>1. IsFiniteSet(outputs)
    BY NamesAssumption, FS_Subset
  <2> QED
    BY <2>1, SetAsList
<1>2. Holds(s.group_views[g], M)
  BY ListsHold DEF Good
<1>3. ShowOnlyGroup(s, g) = ShowViews(c, s.group_views[g], View)
  BY DEF ShowOnlyGroup
<1> HIDE DEF list
<1>4. Good(c) /\ c.group_of = s.group_of
  BY <1>1, ClearEachKeeps
<1>5. M \subseteq Mapped(c)
  BY <1>4 DEF Mapped
<1> HIDE DEF c, M
<1> QED
  BY <1>2, <1>3, <1>4, <1>5, ShowViewsKeeps

LEMMA CurrentKeeps ==
  ASSUME NEW s, Good(s), NEW o \in Output, NEW n \in Sheet
  PROVE  /\ Good([s EXCEPT !.current[o] = n])
         /\ [s EXCEPT !.current[o] = n].group_of = s.group_of
<1> DEFINE t == [s EXCEPT !.current[o] = n]
<1>1. s \in States /\ NotFailed(s)
  BY DEF Good, Core
<1>2. t = [s EXCEPT !.current = [s.current EXCEPT ![o] = n]]
  BY <1>1 DEF States
<1> HIDE DEF t
<1>3. SameLists(s, t) /\ SameViews(s, t) /\ t.fault = s.fault /\ t.focus = s.focus
      /\ t.mode = s.mode
  BY <1>1, <1>2 DEF States, SameLists, SameShelves, SameLinks, SameViews
<1>4. t \in States
  BY <1>1, <1>2 DEF States
<1>5. NotFailed(t)
  BY <1>1, <1>3 DEF NotFailed
<1>6. Core(t, {}, {})
  BY <1>3, <1>4, <1>5, CoreStays DEF Good
<1>7. Shown(s) \subseteq Shown(t)
  BY <1>3, SameViewsStay
<1>8. FocusFits(t)
  BY <1>3, <1>7, FocusStays DEF Good
<1> QED
  BY <1>3, <1>6, <1>8 DEF Good, SameViews, t

LEMMA DisplayKeeps ==
  ASSUME NEW s, Good(s), NEW o \in Output, NEW n \in Sheet, NEW invisible
  PROVE  Good(Display(s, o, n, invisible))
<1> DEFINE c == Clear(s, o)
           t == [c EXCEPT !.current[o] = n]
           chosen == View \ invisible
           u == ShowViews(t, t.sheet_views[<<o, 0>>], chosen)
           x == ShowViews(u, u.sheet_views[<<o, n>>], chosen)
<1>1. Display(s, o, n, invisible) = IF n = 0 THEN u ELSE x
  BY DEF Display
<1>2. Good(c)
  BY ClearKeeps
<1>3. Good(t)
  <2> HIDE DEF c
  <2> QED
    BY <1>2, CurrentKeeps
<1> HIDE DEF c, t
<1>4. <<o, 0>> \in SheetId /\ <<o, n>> \in SheetId
  BY SheetsAreUsed DEF SheetId
<1>5. Good(u)
  <2> DEFINE list == t.sheet_views[<<o, 0>>]
  <2>1. Holds(list, ToSet(list)) /\ ToSet(list) \subseteq Mapped(t)
    BY <1>3, <1>4, ListsHold DEF Good
  <2> HIDE DEF chosen, list
  <2>2. Good(ShowViews(t, list, chosen))
    BY <1>3, <2>1, ShowViewsKeeps
  <2> USE DEF list
  <2> QED
    BY <2>2
<1> HIDE DEF u
<1>6. Good(x)
  <2> DEFINE list == u.sheet_views[<<o, n>>]
  <2>1. Holds(list, ToSet(list)) /\ ToSet(list) \subseteq Mapped(u)
    BY <1>4, <1>5, ListsHold DEF Good
  <2> HIDE DEF chosen, list
  <2>2. Good(ShowViews(u, list, chosen))
    BY <1>5, <2>1, ShowViewsKeeps
  <2> QED
    BY <2>2 DEF list
<1> QED
  BY <1>1, <1>5, <1>6

LEMMA EvacuateSheetKeeps ==
  ASSUME NEW s, Good(s), NEW o \in Output, NEW into \in Output, NEW n
  PROVE  Good(EvacuateSheet(s, o, into, n))
<1>1. CASE n \notin Sheet
  BY <1>1 DEF EvacuateSheet
<1>2. CASE n \in Sheet
  <2> DEFINE M == ToSet(s.sheet_views[<<o, n>>])
             list == Reverse(s.sheet_views[<<o, n>>])
             sheet == <<into, n>>
  <2>1. <<o, n>> \in SheetId /\ sheet \in SheetId
    BY <1>2 DEF SheetId
  <2>2. EvacuateSheet(s, o, into, n) = EvacuateEach(sheet, s, list)
    BY <1>2 DEF EvacuateSheet, EvacuateEach
  <2>3. Holds(s.sheet_views[<<o, n>>], M) /\ M \subseteq Mapped(s)
    BY <2>1, ListsHold DEF Good
  <2> HIDE DEF M
  <2>4. Holds(list, M)
    BY <2>3, ReversedHolds
  <2> HIDE DEF list, sheet
  <2>5. list \in Seq(View) /\ ToSet(list) \subseteq Mapped(s)
    BY <2>3, <2>4 DEF Holds
  <2> QED
    BY <2>1, <2>2, <2>5, EvacuateEachKeeps
<1> QED
  BY <1>1, <1>2

MergeEach(o, into, s, list) ==
  FoldLeft(LAMBDA t, n : EvacuateSheet(t, o, into, n), s, list)

LEMMA MergeEachKeeps ==
  ASSUME NEW s, Good(s), NEW o \in Output, NEW into \in Output, NEW list \in Seq(0 .. 9)
  PROVE  Good(MergeEach(o, into, s, list))
<1> DEFINE n == Len(list)
           V == [u \in SUBSET (1 .. n) |-> {w \in States : Good(w)}]
           After(w, i) == EvacuateSheet(w, o, into, list[i])
           step == [p \in (1 .. n) \X States |-> After(p[2], p[1])]
           iter == CHOOSE iter : iter = [u \in SUBSET DOMAIN list |->
                     IF u = {} THEN s ELSE After(iter[u \ {Max(u)}], Max(u))]
<1>1. MergeEach(o, into, s, list) = iter[DOMAIN list]
  BY DEF FoldLeft, MapThenFoldSet, MergeEach
<1>2. n \in Nat /\ DOMAIN list = 1 .. n
  OBVIOUS
<1>3. s \in V[{}]
  BY DEF Good, Core
<1>4. ASSUME NEW u \in SUBSET (1 .. n), u # {}, NEW w \in V[u \ {Max(u)}]
      PROVE  After(w, Max(u)) \in V[u] /\ Max(u) \in 1 .. n /\ w \in States
  <2>1. Max(u) \in 1 .. n /\ Max(u) \in u
    <3> HIDE DEF n
    <3> QED
      BY <1>2, <1>4, LastPlace
  <2>2. u \ {Max(u)} \in SUBSET (1 .. n)
    OBVIOUS
  <2>3. w \in States /\ Good(w)
    BY <1>4, <2>2
  <2> DEFINE e == list[Max(u)]
             t == EvacuateSheet(w, o, into, e)
  <2>4. After(w, Max(u)) = t
    OBVIOUS
  <2> HIDE DEF e, t
  <2>5. Good(t)
    BY <2>3, EvacuateSheetKeeps DEF t
  <2> HIDE DEF After
  <2> QED
    BY <1>4, <2>1, <2>3, <2>4, <2>5 DEF Good, Core
<1>5. PICK g : IsLoop(g, n, V, s, step)
  <2>1. LoopSteps(n, V, step)
    <3> HIDE DEF n, V, After
    <3> QED
      BY <1>4 DEF LoopSteps
  <2> HIDE DEF n, V, step
  <2> QED
    BY <1>2, <1>3, <2>1, LoopExists
<1>6. iter = [u \in SUBSET DOMAIN list |->
                IF u = {} THEN s ELSE After(iter[u \ {Max(u)}], Max(u))]
  <2> DEFINE Is(f) == f = [u \in SUBSET DOMAIN list |->
                IF u = {} THEN s ELSE After(f[u \ {Max(u)}], Max(u))]
  <2>1. ASSUME NEW u \in SUBSET (1 .. n), u # {}
        PROVE  step[<<Max(u), g[u \ {Max(u)}]>>] = After(g[u \ {Max(u)}], Max(u))
    <3>1. g[u \ {Max(u)}] \in V[u \ {Max(u)}]
      BY <1>5, <2>1 DEF IsLoop
    <3> HIDE DEF V, After, n
    <3> QED
      BY <1>4, <2>1, <3>1
  <2>2. Is(g)
    <3> HIDE DEF V, After, n, step
    <3> QED
      BY <1>2, <1>5, <2>1 DEF IsLoop
  <2> HIDE DEF Is
  <2>3. Is(CHOOSE f : Is(f))
    BY <2>2
  <2> QED
    BY <2>3 DEF Is
<1> HIDE DEF iter
<1>7. \A u \in SUBSET (1 .. n) : iter[u] \in V[u]
  <2>1. iter[{}] \in V[{}]
    <3>1. iter[{}] = s
      BY <1>6
    <3> HIDE DEF V
    <3> QED
      BY <1>3, <3>1
  <2>2. \A u \in SUBSET (1 .. n) :
          u # {} /\ iter[u \ {Max(u)}] \in V[u \ {Max(u)}] => iter[u] \in V[u]
    <3> HIDE DEF V, After, n
    <3> QED
      BY <1>2, <1>4, <1>6
  <2> HIDE DEF V, n
  <2> QED
    BY <1>2, <2>1, <2>2, LoopStays
<1> QED
  BY <1>1, <1>2, <1>7


LEMMA MergeKeeps ==
  ASSUME NEW s, Good(s), NEW o \in Output, NEW into \in Output
  PROVE  Good(Merge(s, o, into))
<1> DEFINE list == [i \in 1 .. 10 |-> i - 1]
<1>1. list \in Seq(0 .. 9)
  OBVIOUS
<1>2. Merge(s, o, into) = MergeEach(o, into, s, list)
  BY DEF Merge, MergeEach
<1> HIDE DEF list
<1> QED
  BY <1>1, <1>2, MergeEachKeeps

(* The part of a list above or below one of its views.                      *)
LEMMA PlaceInList ==
  ASSUME NEW list \in Seq(View), NEW v
  PROVE  /\ PlaceIn(list, v) \in 0 .. Len(list)
         /\ v \in ToSet(list) => PlaceIn(list, v) \in 1 .. Len(list) /\ list[PlaceIn(list, v)] = v
<1> DEFINE I == {i \in 1 .. Len(list) : list[i] = v}
<1>1. PlaceIn(list, v) = IF I # {} THEN Min(I) ELSE 0
  BY DEF PlaceIn, SelectInSeq
<1>2. Len(list) \in Nat /\ I \in SUBSET (1 .. Len(list))
  OBVIOUS
<1>3. v \in ToSet(list) => I # {}
  BY InList
<1>4. \A i \in I : i \in 1 .. Len(list) /\ list[i] = v
  OBVIOUS
<1> HIDE DEF I
<1>5. I # {} => Min(I) \in I
  BY <1>2, FirstPlace
<1>6. CASE I = {}
  BY <1>1, <1>2, <1>3, <1>6
<1>7. CASE I # {}
  <2>1. PlaceIn(list, v) \in I
    BY <1>1, <1>5, <1>7
  <2>2. PlaceIn(list, v) \in 1 .. Len(list) /\ list[PlaceIn(list, v)] = v
    BY <1>4, <2>1
  <2>3. 1 .. Len(list) \subseteq 0 .. Len(list)
    BY <1>2
  <2> QED
    BY <2>2, <2>3
<1> QED
  BY <1>6, <1>7

LEMMA PartsOfList ==
  ASSUME NEW list \in Seq(View), NEW v \in ToSet(list)
  PROVE  /\ Above(list, v) \in Seq(View) /\ ToSet(Above(list, v)) \subseteq ToSet(list)
         /\ Below(list, v) \in Seq(View) /\ ToSet(Below(list, v)) \subseteq ToSet(list)
<1> DEFINE k == PlaceIn(list, v)
           m == k - 1
<1>1. Above(list, v) = SubSeq(list, 1, m) /\ Below(list, v) = SubSeq(list, k + 1, Len(list))
  BY DEF Above, Below, PlaceIn
<1>2. k \in 1 .. Len(list)
  BY PlaceInList
<1>3. k \in 0 .. Len(list) /\ m \in 0 .. Len(list)
  <2> HIDE DEF k
  <2> QED
    BY <1>2
<1> HIDE DEF k, m
<1>4. Halves(View, list, SubSeq(list, 1, m), SubSeq(list, m + 1, Len(list)))
  BY <1>3, CutInTwo
<1>5. Halves(View, list, SubSeq(list, 1, k), SubSeq(list, k + 1, Len(list)))
  BY <1>3, CutInTwo
<1> QED
  BY <1>1, <1>4, <1>5 DEF Halves

(* What is above a view ranks before it.                                    *)
LEMMA AboveRanksFirst ==
  ASSUME NEW list \in Seq(View), NEW v \in ToSet(list), NEW x \in ToSet(Above(list, v)),
         NEW r, Rising(list, r)
  PROVE  r[x] < r[v]
<1> DEFINE k == PlaceIn(list, v)
           m == k - 1
<1>1. Above(list, v) = SubSeq(list, 1, m)
  BY DEF Above, PlaceIn
<1>2. k \in 1 .. Len(list) /\ list[k] = v
  BY PlaceInList
<1>3. m = k - 1
  OBVIOUS
<1> HIDE DEF k, m
<1>4. m \in 0 .. Len(list) /\ m < k
  BY <1>2, <1>3
<1>5. Len(SubSeq(list, 1, m)) = m /\ \A i \in 1 .. m : SubSeq(list, 1, m)[i] = list[i]
  BY <1>4, SubSeqProperties
<1>6. Above(list, v) \in Seq(View)
  BY PartsOfList
<1>7. PICK i \in 1 .. Len(Above(list, v)) : Above(list, v)[i] = x
  BY <1>6, InList
<1>8. i \in 1 .. m /\ list[i] = x
  BY <1>1, <1>5, <1>7
<1> QED
  BY <1>2, <1>4, <1>8 DEF Rising

LEMMA GroupOf ==
  ASSUME NEW s, Good(s), NEW v \in Shown(s)
  PROVE  LET group == s.visible_group_views[s.group_of[v]]
         IN  /\ group \in Seq(View) /\ IsInjective(group) /\ v \in ToSet(group)
             /\ ToSet(group) \subseteq Shown(s)
<1> DEFINE g == s.group_of[v]
           M == {w \in Shown(s) : s.group_of[w] = g}
<1>1. g \in Group
  BY GroupIsLinked DEF Good, Core
<1> HIDE DEF g
<1>2. Holds(s.visible_group_views[g], M)
  BY <1>1, ListsHold DEF Good
<1>3. v \in M /\ M \subseteq Shown(s)
  BY DEF g
<1> HIDE DEF M
<1>4. LET group == s.visible_group_views[g]
      IN  /\ group \in Seq(View) /\ IsInjective(group) /\ v \in ToSet(group)
          /\ ToSet(group) \subseteq Shown(s)
  BY <1>2, <1>3 DEF Holds
<1> QED
  BY <1>4 DEF g

LEMMA SameIsGood ==
  ASSUME NEW s, Good(s), NEW t, Core(t, {}, {}), Same(s, t)
  PROVE  Good(t) /\ Shown(t) = Shown(s)
BY SameStays DEF Good

-----------------------------------------------------------------------------
(* Raising and lowering a group                                             *)

(* What raising and lowering a view do to the list of visible views and to  *)
(* that of its group, whether or not they find the view in its place.       *)
ToFront(s, t, v) ==
  /\ t.visible_views = <<v>> \o RemoveFirst(s.visible_views, v)
  /\ t.visible_group_views[s.group_of[v]] =
       <<v>> \o RemoveFirst(s.visible_group_views[s.group_of[v]], v)

ToBack(s, t, v) ==
  /\ t.visible_views = Append(RemoveFirst(s.visible_views, v), v)
  /\ t.visible_group_views[s.group_of[v]] =
       Append(RemoveFirst(s.visible_group_views[s.group_of[v]], v), v)

LEMMA RanksOfVisible ==
  ASSUME NEW s, Good(s), NEW v \in Shown(s)
  PROVE  \E r \in [View -> Int], lo \in Int, hi \in Int :
           LET all   == s.visible_views
               group == s.visible_group_views[s.group_of[v]]
           IN  /\ Lowest(lo, View, r) /\ Highest(hi, View, r)
               /\ all \in Seq(View) /\ Rising(all, r) /\ ToSet(all) = Shown(s)
               /\ group \in Seq(View) /\ Rising(group, r) /\ v \in ToSet(group)
               /\ ToSet(group) \subseteq Shown(s)
<1>1. PICK r, lo, hi : Ordered(s, {}, {}, r, lo, hi)
  BY DEF Good, Core, InLists
<1>2. /\ r \in [View -> Int] /\ lo \in Int /\ hi \in Int /\ Lowest(lo, View, r) /\ Highest(hi, View, r)
      /\ InVisible(s, {}, r)
  BY <1>1 DEF Ordered
<1> DEFINE g == s.group_of[v]
           all == s.visible_views
           group == s.visible_group_views[g]
<1>3. g \in Group
  BY GroupIsLinked DEF Good, Core
<1>4. Holds(all, Shown(s))
  BY ListsHold DEF Good
<1>5. group \in Seq(View) /\ v \in ToSet(group) /\ ToSet(group) \subseteq Shown(s)
  BY GroupOf
<1>6. Rising(all, r)
  BY <1>2 DEF InVisible, Line
<1>7. Rising(group, r)
  <2>1. DOMAIN s.visible_group_views = Group
    BY TypedLists DEF Good, Core, VisibleTyped
  <2> QED
    BY <1>2, <1>3, <2>1 DEF InVisible, Shelf
<1> HIDE DEF all, group
<1>8. all \in Seq(View) /\ ToSet(all) = Shown(s)
  BY <1>4 DEF Holds
<1> QED
  BY <1>2, <1>5, <1>6, <1>7, <1>8 DEF all, group

LEMMA RaiseToFront ==
  ASSUME NEW s, Good(s), NEW v \in Shown(s)
  PROVE  ToFront(s, Raise(s, v), v) /\ Good(Raise(s, v)) /\ Same(s, Raise(s, v))
<1> DEFINE g == s.group_of[v]
           all == s.visible_views
           group == s.visible_group_views[g]
           t == Raise(s, v)
<1>1. /\ Core(t, {}, {}) /\ Same(s, t)
      /\ (all[1] # v => TopOfVisible(s, t, v)) /\ (all[1] = v => t = s)
  BY RaiseKeeps DEF Good
<1>2. Good(t)
  BY <1>1, SameIsGood
<1>3. CASE all[1] # v
  <2>1. g \in Group /\ s.visible_group_views \in [Group -> Seq(View)]
    BY GroupIsLinked, TypedLists DEF Good, Core, VisibleTyped
  <2>2. TopOfVisible(s, t, v)
    BY <1>1, <1>3
  <2>3. t.visible_views = <<v>> \o RemoveFirst(s.visible_views, v)
        /\ t.visible_group_views = AtHead(s.visible_group_views, g, v)
    BY <2>2 DEF TopOfVisible
  <2>4. t.visible_group_views[g] = <<v>> \o RemoveFirst(s.visible_group_views[g], v)
    <3> DEFINE h == s.visible_group_views
    <3>1. DOMAIN h = Group
      BY <2>1
    <3> HIDE DEF h, g, t
    <3>2. AtHead(h, g, v)[g] = <<v>> \o RemoveFirst(h[g], v)
      BY <2>1, <3>1 DEF AtHead, Out
    <3> QED
      BY <2>3, <3>2 DEF h
  <2> QED
    BY <1>1, <1>2, <2>3, <2>4 DEF ToFront
<1>4. CASE all[1] = v
  <2>1. PICK r \in [View -> Int], lo \in Int, hi \in Int :
          /\ all \in Seq(View) /\ Rising(all, r) /\ ToSet(all) = Shown(s)
          /\ group \in Seq(View) /\ Rising(group, r) /\ v \in ToSet(group)
          /\ ToSet(group) \subseteq Shown(s)
    BY RanksOfVisible
  <2>2. t = s
    BY <1>1, <1>4
  <2> HIDE DEF all, group, t
  <2>3. ASSUME NEW x \in Shown(s), x # v PROVE r[v] < r[x]
    <3>1. PICK i \in 1 .. Len(all) : all[i] = x
      BY <2>1, <2>3, InList
    <3>2. 1 \in 1 .. Len(all) /\ i > 1
      BY <1>4, <2>3, <3>1, <2>1
    <3> QED
      BY <1>4, <2>1, <3>1, <3>2 DEF Rising
  <2>4. ToSet(RemoveFirst(all, v)) = ToSet(all) \ {v}
        /\ ToSet(RemoveFirst(group, v)) = ToSet(group) \ {v}
    <3>1. ToSet(RemoveFirst(all, v)) = ToSet(all) \ {v}
      BY <2>1, RisingWithout
    <3>2. ToSet(RemoveFirst(group, v)) = ToSet(group) \ {v}
      BY <2>1, RisingWithout
    <3> QED
      BY <3>1, <3>2
  <2>5. RanksFirst(v, RemoveFirst(all, v), r) /\ RanksFirst(v, RemoveFirst(group, v), r)
    BY <2>1, <2>3, <2>4 DEF RanksFirst
  <2>6. v \in ToSet(all)
    BY <2>1
  <2>7. <<v>> \o RemoveFirst(all, v) = all /\ <<v>> \o RemoveFirst(group, v) = group
    BY <2>1, <2>5, <2>6, FrontStays
  <2> QED
    BY <1>1, <1>2, <2>2, <2>7 DEF ToFront, all, group, t
<1> QED
  BY <1>3, <1>4

LEMMA LowerToBack ==
  ASSUME NEW s, Good(s), NEW v \in Shown(s)
  PROVE  ToBack(s, Lower(s, v), v) /\ Good(Lower(s, v)) /\ Same(s, Lower(s, v))
<1> DEFINE g == s.group_of[v]
           all == s.visible_views
           group == s.visible_group_views[g]
           t == Lower(s, v)
<1>1. /\ Core(t, {}, {}) /\ Same(s, t)
      /\ (Last(all) # v => BottomOfVisible(s, t, v)) /\ (Last(all) = v => t = s)
  BY LowerKeeps DEF Good
<1>2. Good(t)
  BY <1>1, SameIsGood
<1>3. CASE Last(all) # v
  <2>1. g \in Group /\ s.visible_group_views \in [Group -> Seq(View)]
    BY GroupIsLinked, TypedLists DEF Good, Core, VisibleTyped
  <2>2. BottomOfVisible(s, t, v)
    BY <1>1, <1>3
  <2>3. t.visible_views = Append(RemoveFirst(s.visible_views, v), v)
        /\ t.visible_group_views = AtTail(s.visible_group_views, g, v)
    BY <2>2 DEF BottomOfVisible
  <2>4. t.visible_group_views[g] = Append(RemoveFirst(s.visible_group_views[g], v), v)
    <3> DEFINE h == s.visible_group_views
    <3>1. DOMAIN h = Group
      BY <2>1
    <3> HIDE DEF h, g, t
    <3>2. AtTail(h, g, v)[g] = Append(RemoveFirst(h[g], v), v)
      BY <2>1, <3>1 DEF AtTail, Out
    <3> QED
      BY <2>3, <3>2 DEF h
  <2> QED
    BY <1>1, <1>2, <2>3, <2>4 DEF ToBack
<1>4. CASE Last(all) = v
  <2>1. PICK r \in [View -> Int], lo \in Int, hi \in Int :
          /\ all \in Seq(View) /\ Rising(all, r) /\ ToSet(all) = Shown(s)
          /\ group \in Seq(View) /\ Rising(group, r) /\ v \in ToSet(group)
          /\ ToSet(group) \subseteq Shown(s)
    BY RanksOfVisible
  <2>2. t = s
    BY <1>1, <1>4
  <2>3. all[Len(all)] = v
    BY <1>4 DEF Last
  <2> HIDE DEF all, group, t
  <2>4. ASSUME NEW x \in Shown(s), x # v PROVE r[x] < r[v]
    <3>1. PICK i \in 1 .. Len(all) : all[i] = x
      BY <2>1, <2>4, InList
    <3>2. Len(all) \in 1 .. Len(all) /\ i < Len(all)
      BY <2>3, <2>4, <3>1, <2>1
    <3> QED
      BY <2>3, <2>1, <3>1, <3>2 DEF Rising
  <2>5. ToSet(RemoveFirst(all, v)) = ToSet(all) \ {v}
        /\ ToSet(RemoveFirst(group, v)) = ToSet(group) \ {v}
    <3>1. ToSet(RemoveFirst(all, v)) = ToSet(all) \ {v}
      BY <2>1, RisingWithout
    <3>2. ToSet(RemoveFirst(group, v)) = ToSet(group) \ {v}
      BY <2>1, RisingWithout
    <3> QED
      BY <3>1, <3>2
  <2>6. RanksLast(v, RemoveFirst(all, v), r) /\ RanksLast(v, RemoveFirst(group, v), r)
    BY <2>1, <2>4, <2>5 DEF RanksLast
  <2>7. v \in ToSet(all)
    BY <2>1
  <2>8. Append(RemoveFirst(all, v), v) = all /\ Append(RemoveFirst(group, v), v) = group
    BY <2>1, <2>6, <2>7, BackStays
  <2> QED
    BY <1>1, <1>2, <2>2, <2>8 DEF ToBack, all, group, t
<1> QED
  BY <1>3, <1>4

(* The order of the visible views while those of a list are put in front    *)
(* of all, or behind all, one after the other; the first ones, u, are done. *)
FrontRanks(lo) == [i \in Nat |-> lo - i]
BackRanks(hi) == [i \in Nat |-> hi + i]

Ranked(list, u, r, p, q) ==
  /\ \A i \in u : q[list[i]] = p[i]
  /\ \A x \in View : (\A i \in u : list[i] # x) => q[x] = r[x]

OrderedBy(all, list, u, r, p) ==
  \E q \in [View -> Int] : Ranked(list, u, r, p, q) /\ Rising(all, q)

MovedUpTo(s, w, list, u, r, p) ==
  /\ Good(w) /\ Same(s, w)
  /\ Runs(s) => OrderedBy(w.visible_views, list, u, r, p)

LEMMA OneMoreRanked ==
  ASSUME NEW list \in Seq(View), IsInjective(list), NEW m \in 1 .. Len(list), NEW u, m \in u,
         u \subseteq 1 .. Len(list), NEW r, NEW p, p[m] \in Int,
         NEW q \in [View -> Int], Ranked(list, u \ {m}, r, p, q)
  PROVE  /\ [q EXCEPT ![list[m]] = p[m]] \in [View -> Int]
         /\ Ranked(list, u, r, p, [q EXCEPT ![list[m]] = p[m]])
<1> DEFINE e == list[m]
           k == [q EXCEPT ![e] = p[m]]
<1>1. e \in View
  OBVIOUS
<1> HIDE DEF e
<1>2. k \in [View -> Int] /\ k[e] = p[m] /\ \A x \in View : x # e => k[x] = q[x]
  BY <1>1
<1> HIDE DEF k
<1>3. ASSUME NEW i \in u PROVE k[list[i]] = p[i]
  <2>1. CASE i = m
    BY <1>2, <2>1 DEF e
  <2>2. CASE i # m
    <3>1. list[i] # e /\ list[i] \in View /\ i \in u \ {m}
      BY <2>2, OnceInList DEF e
    <3> QED
      BY <1>2, <3>1 DEF Ranked
  <2> QED
    BY <2>1, <2>2
<1>4. ASSUME NEW x \in View, \A i \in u : list[i] # x PROVE k[x] = r[x]
  <2>1. x # e
    BY <1>4 DEF e
  <2> QED
    BY <1>2, <1>4, <2>1 DEF Ranked
<1> QED
  BY <1>2, <1>3, <1>4 DEF Ranked, k, e

LEMMA OneMoreInFront ==
  ASSUME NEW list \in Seq(View), IsInjective(list), NEW m \in 1 .. Len(list), NEW u, m \in u,
         u \subseteq 1 .. Len(list), \A i \in u : i <= m,
         NEW r \in [View -> Int], NEW lo \in Int, Lowest(lo, View, r),
         NEW all \in Seq(View), OrderedBy(all, list, u \ {m}, r, FrontRanks(lo))
  PROVE  OrderedBy(<<list[m]>> \o RemoveFirst(all, list[m]), list, u, r, FrontRanks(lo))
<1> DEFINE p == FrontRanks(lo)
           e == list[m]
           rest == RemoveFirst(all, e)
<1>1. PICK q \in [View -> Int] : Ranked(list, u \ {m}, r, p, q) /\ Rising(all, q)
  BY DEF OrderedBy
<1>2. p[m] = lo - m /\ p[m] \in Int /\ \A i \in u : p[i] = lo - i
  BY DEF FrontRanks
<1> DEFINE k == [q EXCEPT ![e] = p[m]]
<1>3. e \in View
  OBVIOUS
<1> HIDE DEF p
<1>4. k \in [View -> Int] /\ Ranked(list, u, r, p, k)
  BY <1>1, <1>2, OneMoreRanked
<1>5. Rising(rest, q) /\ rest \in Seq(View) /\ ToSet(rest) = ToSet(all) \ {e}
  BY <1>1, RisingWithout
<1> HIDE DEF e, rest
<1>6. k[e] = lo - m /\ \A x \in ToSet(rest) : k[x] = q[x]
  <2>1. \A x \in ToSet(rest) : x \in View /\ x # e
    BY <1>5, MembersAreViews
  <2> QED
    BY <1>2, <1>3, <2>1
<1> HIDE DEF k
<1>7. Rising(rest, k)
  BY <1>5, <1>6, RisingElsewhere
<1>8. ASSUME NEW x \in ToSet(rest) PROVE k[e] < k[x]
  <2>1. x \in View /\ x # e /\ m \in Nat /\ m >= 1
    BY <1>5, MembersAreViews
  <2>2. CASE \E i \in u : list[i] = x
    <3>1. PICK i \in u : list[i] = x
      BY <2>2
    <3>2. i # m /\ i \in u /\ i <= m /\ i \in 1 .. Len(list)
      BY <2>1, <3>1 DEF e
    <3>3. k[x] = lo - i
      BY <1>2, <1>4, <3>1 DEF Ranked
    <3> QED
      BY <1>6, <2>1, <3>2, <3>3
  <2>3. CASE ~ \E i \in u : list[i] = x
    <3>1. k[x] = r[x] /\ lo < r[x] /\ r[x] \in Int
      BY <1>4, <2>1, <2>3 DEF Ranked, Lowest
    <3> QED
      BY <1>6, <2>1, <3>1
  <2> QED
    BY <2>2, <2>3
<1>9. RanksFirst(e, rest, k)
  BY <1>8 DEF RanksFirst
<1>10. Rising(<<e>> \o rest, k)
  BY <1>3, <1>4, <1>5, <1>7, <1>9, RisingPrepended
<1> QED
  BY <1>4, <1>10 DEF OrderedBy, e, rest, p

LEMMA OneMoreBehind ==
  ASSUME NEW list \in Seq(View), IsInjective(list), NEW m \in 1 .. Len(list), NEW u, m \in u,
         u \subseteq 1 .. Len(list), \A i \in u : i <= m,
         NEW r \in [View -> Int], NEW hi \in Int, Highest(hi, View, r),
         NEW all \in Seq(View), OrderedBy(all, list, u \ {m}, r, BackRanks(hi))
  PROVE  OrderedBy(Append(RemoveFirst(all, list[m]), list[m]), list, u, r, BackRanks(hi))
<1> DEFINE p == BackRanks(hi)
           e == list[m]
           rest == RemoveFirst(all, e)
<1>1. PICK q \in [View -> Int] : Ranked(list, u \ {m}, r, p, q) /\ Rising(all, q)
  BY DEF OrderedBy
<1>2. p[m] = hi + m /\ p[m] \in Int /\ \A i \in u : p[i] = hi + i
  BY DEF BackRanks
<1> DEFINE k == [q EXCEPT ![e] = p[m]]
<1>3. e \in View
  OBVIOUS
<1> HIDE DEF p
<1>4. k \in [View -> Int] /\ Ranked(list, u, r, p, k)
  BY <1>1, <1>2, OneMoreRanked
<1>5. Rising(rest, q) /\ rest \in Seq(View) /\ ToSet(rest) = ToSet(all) \ {e}
  BY <1>1, RisingWithout
<1> HIDE DEF e, rest
<1>6. k[e] = hi + m /\ \A x \in ToSet(rest) : k[x] = q[x]
  <2>1. \A x \in ToSet(rest) : x \in View /\ x # e
    BY <1>5, MembersAreViews
  <2> QED
    BY <1>2, <1>3, <2>1
<1> HIDE DEF k
<1>7. Rising(rest, k)
  BY <1>5, <1>6, RisingElsewhere
<1>8. ASSUME NEW x \in ToSet(rest) PROVE k[x] < k[e]
  <2>1. x \in View /\ x # e /\ m \in Nat /\ m >= 1
    BY <1>5, MembersAreViews
  <2>2. CASE \E i \in u : list[i] = x
    <3>1. PICK i \in u : list[i] = x
      BY <2>2
    <3>2. i # m /\ i \in u /\ i <= m /\ i \in 1 .. Len(list)
      BY <2>1, <3>1 DEF e
    <3>3. k[x] = hi + i
      BY <1>2, <1>4, <3>1 DEF Ranked
    <3> QED
      BY <1>6, <2>1, <3>2, <3>3
  <2>3. CASE ~ \E i \in u : list[i] = x
    <3>1. k[x] = r[x] /\ r[x] < hi /\ r[x] \in Int
      BY <1>4, <2>1, <2>3 DEF Ranked, Highest
    <3> QED
      BY <1>6, <2>1, <3>1
  <2> QED
    BY <2>2, <2>3
<1>9. RanksLast(e, rest, k)
  BY <1>8 DEF RanksLast
<1>10. Rising(Append(rest, e), k)
  BY <1>3, <1>4, <1>5, <1>7, <1>9, RisingAppended
<1> QED
  BY <1>4, <1>10 DEF OrderedBy, e, rest, p

LEMMA RaiseEachOrders ==
  ASSUME NEW s, Good(s), NEW list \in Seq(View), ToSet(list) \subseteq Shown(s), IsInjective(list),
         NEW r \in [View -> Int], NEW lo \in Int, Rising(s.visible_views, r), Lowest(lo, View, r)
  PROVE  /\ Good(Each(Raise, s, list)) /\ Same(s, Each(Raise, s, list))
         /\ Runs(s) => OrderedBy(Each(Raise, s, list).visible_views, list, 1 .. Len(list), r, FrontRanks(lo))
<1> DEFINE n == Len(list)
           ranks == FrontRanks(lo)
           V == [u \in SUBSET (1 .. n) |-> {w \in States : MovedUpTo(s, w, list, u, r, ranks)}]
           After(w, i) == IF Runs(w) THEN Raise(w, list[i]) ELSE w
           step == [p \in (1 .. n) \X States |-> After(p[2], p[1])]
           iter == CHOOSE iter : iter = [u \in SUBSET DOMAIN list |->
                     IF u = {} THEN s ELSE After(iter[u \ {Max(u)}], Max(u))]
<1>1. Each(Raise, s, list) = iter[DOMAIN list]
  BY DEF Each, FoldLeft, MapThenFoldSet
<1>2. n \in Nat /\ DOMAIN list = 1 .. n
  OBVIOUS
<1>0. s \in States /\ Same(s, s)
  BY DEF Good, Core, Same
<1>3. s \in V[{}]
  <2>1. OrderedBy(s.visible_views, list, {}, r, ranks)
    BY DEF OrderedBy, Ranked
  <2> QED
    BY <1>0, <2>1 DEF MovedUpTo
<1>4. ASSUME NEW u \in SUBSET (1 .. n), u # {}, NEW w \in V[u \ {Max(u)}]
      PROVE  After(w, Max(u)) \in V[u] /\ Max(u) \in 1 .. n /\ w \in States
  <2>1. Max(u) \in 1 .. n /\ Max(u) \in u /\ \A i \in u : i <= Max(u)
    <3> HIDE DEF n
    <3> QED
      BY <1>2, <1>4, LastPlace
  <2>2. u \ {Max(u)} \in SUBSET (1 .. n)
    OBVIOUS
  <2> DEFINE m == Max(u)
             e == list[m]
             t == Raise(w, e)
  <2>3. w \in States /\ MovedUpTo(s, w, list, u \ {m}, r, ranks)
    BY <1>4, <2>2
  <2>4. /\ Good(w) /\ Same(s, w)
         /\ (Runs(s) => OrderedBy(w.visible_views, list, u \ {m}, r, ranks))
    BY <2>3 DEF MovedUpTo
  <2>5. e \in ToSet(list)
    BY <2>1, InList
  <2>6. e \in Shown(w)
    BY <2>4, <2>5, SameStays
  <2> HIDE DEF e, t
  <2>7. ToFront(w, t, e) /\ Good(t) /\ Same(w, t)
    BY <2>4, <2>6, RaiseToFront DEF t
  <2>8. Same(s, t) /\ t \in States
    BY <2>4, <2>7, SameTwice DEF Good, Core
  <2>9. ASSUME Runs(s) PROVE OrderedBy(t.visible_views, list, u, r, ranks)
    <3>1. OrderedBy(w.visible_views, list, u \ {m}, r, ranks)
      BY <2>4, <2>9
    <3>2. t.visible_views = <<e>> \o RemoveFirst(w.visible_views, e)
      BY <2>7 DEF ToFront
    <3>3. w.visible_views \in Seq(View)
      BY <2>3 DEF States
    <3>4. m \in 1 .. Len(list) /\ m \in u /\ u \subseteq 1 .. Len(list) /\ \A i \in u : i <= m
      BY <2>1
    <3> HIDE DEF m, ranks
    <3> QED
      BY <3>1, <3>2, <3>3, <3>4, OneMoreInFront DEF e, ranks
  <2>10. After(w, Max(u)) = IF Runs(w) THEN t ELSE w
    BY DEF t, e
  <2>11. Runs(w) <=> Runs(s)
    BY <2>4 DEF Same, Runs
  <2> HIDE DEF After, m, ranks
  <2> QED
    BY <1>4, <2>1, <2>3, <2>4, <2>7, <2>8, <2>9, <2>10, <2>11 DEF m, MovedUpTo
<1>5. PICK g : IsLoop(g, n, V, s, step)
  <2>1. LoopSteps(n, V, step)
    <3> HIDE DEF n, V, After
    <3> QED
      BY <1>4 DEF LoopSteps
  <2> HIDE DEF n, V, step
  <2> QED
    BY <1>2, <1>3, <2>1, LoopExists
<1>6. iter = [u \in SUBSET DOMAIN list |->
                IF u = {} THEN s ELSE After(iter[u \ {Max(u)}], Max(u))]
  <2> DEFINE Is(f) == f = [u \in SUBSET DOMAIN list |->
                IF u = {} THEN s ELSE After(f[u \ {Max(u)}], Max(u))]
  <2>1. ASSUME NEW u \in SUBSET (1 .. n), u # {}
        PROVE  step[<<Max(u), g[u \ {Max(u)}]>>] = After(g[u \ {Max(u)}], Max(u))
    <3>1. g[u \ {Max(u)}] \in V[u \ {Max(u)}]
      BY <1>5, <2>1 DEF IsLoop
    <3> HIDE DEF V, After, n
    <3> QED
      BY <1>4, <2>1, <3>1
  <2>2. Is(g)
    <3> HIDE DEF V, After, n, step
    <3> QED
      BY <1>2, <1>5, <2>1 DEF IsLoop
  <2> HIDE DEF Is
  <2>3. Is(CHOOSE f : Is(f))
    BY <2>2
  <2> QED
    BY <2>3 DEF Is
<1> HIDE DEF iter
<1>7. \A u \in SUBSET (1 .. n) : iter[u] \in V[u]
  <2>1. iter[{}] \in V[{}]
    <3>1. iter[{}] = s
      BY <1>6
    <3> HIDE DEF V
    <3> QED
      BY <1>3, <3>1
  <2>2. \A u \in SUBSET (1 .. n) :
          u # {} /\ iter[u \ {Max(u)}] \in V[u \ {Max(u)}] => iter[u] \in V[u]
    <3> HIDE DEF V, After, n
    <3> QED
      BY <1>2, <1>4, <1>6
  <2> HIDE DEF V, n
  <2> QED
    BY <1>2, <2>1, <2>2, LoopStays
<1> QED
  BY <1>1, <1>2, <1>7 DEF ranks, MovedUpTo

LEMMA LowerEachOrders ==
  ASSUME NEW s, Good(s), NEW list \in Seq(View), ToSet(list) \subseteq Shown(s), IsInjective(list),
         NEW r \in [View -> Int], NEW hi \in Int, Rising(s.visible_views, r), Highest(hi, View, r)
  PROVE  /\ Good(Each(Lower, s, list)) /\ Same(s, Each(Lower, s, list))
         /\ Runs(s) => OrderedBy(Each(Lower, s, list).visible_views, list, 1 .. Len(list), r, BackRanks(hi))
<1> DEFINE n == Len(list)
           ranks == BackRanks(hi)
           V == [u \in SUBSET (1 .. n) |-> {w \in States : MovedUpTo(s, w, list, u, r, ranks)}]
           After(w, i) == IF Runs(w) THEN Lower(w, list[i]) ELSE w
           step == [p \in (1 .. n) \X States |-> After(p[2], p[1])]
           iter == CHOOSE iter : iter = [u \in SUBSET DOMAIN list |->
                     IF u = {} THEN s ELSE After(iter[u \ {Max(u)}], Max(u))]
<1>1. Each(Lower, s, list) = iter[DOMAIN list]
  BY DEF Each, FoldLeft, MapThenFoldSet
<1>2. n \in Nat /\ DOMAIN list = 1 .. n
  OBVIOUS
<1>0. s \in States /\ Same(s, s)
  BY DEF Good, Core, Same
<1>3. s \in V[{}]
  <2>1. OrderedBy(s.visible_views, list, {}, r, ranks)
    BY DEF OrderedBy, Ranked
  <2> QED
    BY <1>0, <2>1 DEF MovedUpTo
<1>4. ASSUME NEW u \in SUBSET (1 .. n), u # {}, NEW w \in V[u \ {Max(u)}]
      PROVE  After(w, Max(u)) \in V[u] /\ Max(u) \in 1 .. n /\ w \in States
  <2>1. Max(u) \in 1 .. n /\ Max(u) \in u /\ \A i \in u : i <= Max(u)
    <3> HIDE DEF n
    <3> QED
      BY <1>2, <1>4, LastPlace
  <2>2. u \ {Max(u)} \in SUBSET (1 .. n)
    OBVIOUS
  <2> DEFINE m == Max(u)
             e == list[m]
             t == Lower(w, e)
  <2>3. w \in States /\ MovedUpTo(s, w, list, u \ {m}, r, ranks)
    BY <1>4, <2>2
  <2>4. /\ Good(w) /\ Same(s, w)
         /\ (Runs(s) => OrderedBy(w.visible_views, list, u \ {m}, r, ranks))
    BY <2>3 DEF MovedUpTo
  <2>5. e \in ToSet(list)
    BY <2>1, InList
  <2>6. e \in Shown(w)
    BY <2>4, <2>5, SameStays
  <2> HIDE DEF e, t
  <2>7. ToBack(w, t, e) /\ Good(t) /\ Same(w, t)
    BY <2>4, <2>6, LowerToBack DEF t
  <2>8. Same(s, t) /\ t \in States
    BY <2>4, <2>7, SameTwice DEF Good, Core
  <2>9. ASSUME Runs(s) PROVE OrderedBy(t.visible_views, list, u, r, ranks)
    <3>1. OrderedBy(w.visible_views, list, u \ {m}, r, ranks)
      BY <2>4, <2>9
    <3>2. t.visible_views = Append(RemoveFirst(w.visible_views, e), e)
      BY <2>7 DEF ToBack
    <3>3. w.visible_views \in Seq(View)
      BY <2>3 DEF States
    <3>4. m \in 1 .. Len(list) /\ m \in u /\ u \subseteq 1 .. Len(list) /\ \A i \in u : i <= m
      BY <2>1
    <3> HIDE DEF m, ranks
    <3> QED
      BY <3>1, <3>2, <3>3, <3>4, OneMoreBehind DEF e, ranks
  <2>10. After(w, Max(u)) = IF Runs(w) THEN t ELSE w
    BY DEF t, e
  <2>11. Runs(w) <=> Runs(s)
    BY <2>4 DEF Same, Runs
  <2> HIDE DEF After, m, ranks
  <2> QED
    BY <1>4, <2>1, <2>3, <2>4, <2>7, <2>8, <2>9, <2>10, <2>11 DEF m, MovedUpTo
<1>5. PICK g : IsLoop(g, n, V, s, step)
  <2>1. LoopSteps(n, V, step)
    <3> HIDE DEF n, V, After
    <3> QED
      BY <1>4 DEF LoopSteps
  <2> HIDE DEF n, V, step
  <2> QED
    BY <1>2, <1>3, <2>1, LoopExists
<1>6. iter = [u \in SUBSET DOMAIN list |->
                IF u = {} THEN s ELSE After(iter[u \ {Max(u)}], Max(u))]
  <2> DEFINE Is(f) == f = [u \in SUBSET DOMAIN list |->
                IF u = {} THEN s ELSE After(f[u \ {Max(u)}], Max(u))]
  <2>1. ASSUME NEW u \in SUBSET (1 .. n), u # {}
        PROVE  step[<<Max(u), g[u \ {Max(u)}]>>] = After(g[u \ {Max(u)}], Max(u))
    <3>1. g[u \ {Max(u)}] \in V[u \ {Max(u)}]
      BY <1>5, <2>1 DEF IsLoop
    <3> HIDE DEF V, After, n
    <3> QED
      BY <1>4, <2>1, <3>1
  <2>2. Is(g)
    <3> HIDE DEF V, After, n, step
    <3> QED
      BY <1>2, <1>5, <2>1 DEF IsLoop
  <2> HIDE DEF Is
  <2>3. Is(CHOOSE f : Is(f))
    BY <2>2
  <2> QED
    BY <2>3 DEF Is
<1> HIDE DEF iter
<1>7. \A u \in SUBSET (1 .. n) : iter[u] \in V[u]
  <2>1. iter[{}] \in V[{}]
    <3>1. iter[{}] = s
      BY <1>6
    <3> HIDE DEF V
    <3> QED
      BY <1>3, <3>1
  <2>2. \A u \in SUBSET (1 .. n) :
          u # {} /\ iter[u \ {Max(u)}] \in V[u \ {Max(u)}] => iter[u] \in V[u]
    <3> HIDE DEF V, After, n
    <3> QED
      BY <1>2, <1>4, <1>6
  <2> HIDE DEF V, n
  <2> QED
    BY <1>2, <2>1, <2>2, LoopStays
<1> QED
  BY <1>1, <1>2, <1>7 DEF ranks, MovedUpTo

(* The views of a group, without the one that has the focus.                *)
LEMMA RestOfGroup ==
  ASSUME NEW s, Good(s), NEW top \in Shown(s)
  PROVE  LET group == s.visible_group_views[s.group_of[top]]
             rest  == RemoveFirst(group, top)
         IN  /\ rest \in Seq(View) /\ IsInjective(rest) /\ ToSet(rest) = ToSet(group) \ {top}
             /\ ToSet(group) \subseteq Shown(s) /\ top \in ToSet(group)
             /\ group \in Seq(View)
BY GroupOf, RemoveFirstIsList

LEMMA BelowFirst ==
  ASSUME NEW e \in View, NEW rest \in Seq(View)
  PROVE  Below(<<e>> \o rest, e) = rest
<1> DEFINE all == <<e>> \o rest
           k == PlaceIn(all, e)
           n == Len(rest)
<1>1. /\ all \in Seq(View) /\ n \in Nat /\ Len(all) = n + 1 /\ all[1] = e
      /\ \A i \in 1 .. n : all[i + 1] = rest[i]
  OBVIOUS
<1>2. k = 1
  <2> DEFINE I == {i \in 1 .. Len(all) : all[i] = e}
  <2>1. k = IF I # {} THEN Min(I) ELSE 0
    BY DEF PlaceIn, SelectInSeq
  <2> HIDE DEF all
  <2>2. 1 \in I /\ I \in SUBSET (1 .. Len(all)) /\ Len(all) \in Nat
    BY <1>1
  <2> HIDE DEF I, k
  <2>3. Min(I) \in I /\ Min(I) <= 1
    BY <2>2, FirstPlace
  <2>4. Min(I) \in 1 .. Len(all)
    BY <2>2, <2>3
  <2> QED
    BY <2>1, <2>2, <2>3, <2>4
<1>3. Below(all, e) = SubSeq(all, k + 1, Len(all))
  BY DEF Below, PlaceIn
<1> HIDE DEF all, k, n
<1>4. Below(all, e) = SubSeq(all, 2, n + 1)
  BY <1>1, <1>2, <1>3
<1>5. /\ Len(SubSeq(all, 2, n + 1)) = n /\ SubSeq(all, 2, n + 1) \in Seq(View)
      /\ \A i \in 1 .. n : SubSeq(all, 2, n + 1)[i] = all[i + 1]
  BY <1>1, SubSeqProperties
<1> DEFINE part == SubSeq(all, 2, n + 1)
<1> HIDE DEF part
<1>6. part \in Seq(View) /\ Len(part) = Len(rest) /\ \A i \in 1 .. Len(rest) : part[i] = rest[i]
  BY <1>1, <1>5 DEF part, n
<1>7. part = rest
  BY <1>6
<1> QED
  BY <1>4, <1>7 DEF part, all

LEMMA AboveLast ==
  ASSUME NEW e \in View, NEW rest \in Seq(View), e \notin ToSet(rest)
  PROVE  Above(Append(rest, e), e) = rest
<1> DEFINE all == Append(rest, e)
           k == PlaceIn(all, e)
           n == Len(rest)
<1>1. /\ all \in Seq(View) /\ n \in Nat /\ Len(all) = n + 1 /\ all[n + 1] = e
      /\ \A i \in 1 .. n : all[i] = rest[i]
  OBVIOUS
<1>2. \A i \in 1 .. n : rest[i] # e
  BY InList
<1>3. k = n + 1
  <2>1. e \in ToSet(all)
    <3> HIDE DEF all
    <3>1. n + 1 \in 1 .. Len(all)
      BY <1>1
    <3> QED
      BY <1>1, <3>1, InList
  <2>2. k \in 1 .. Len(all) /\ all[k] = e
    BY <1>1, <2>1, PlaceInList
  <2> HIDE DEF all, k, n
  <2>3. ~(k \in 1 .. n)
    BY <1>1, <1>2, <2>2
  <2> QED
    BY <1>1, <2>2, <2>3
<1>4. Above(all, e) = SubSeq(all, 1, k - 1)
  BY DEF Above, PlaceIn
<1> HIDE DEF all, k, n
<1>5. Above(all, e) = SubSeq(all, 1, n)
  BY <1>1, <1>3, <1>4
<1>6. /\ Len(SubSeq(all, 1, n)) = n /\ SubSeq(all, 1, n) \in Seq(View)
      /\ \A i \in 1 .. n : SubSeq(all, 1, n)[i] = all[i]
  BY <1>1, SubSeqProperties
<1> DEFINE part == SubSeq(all, 1, n)
<1> HIDE DEF part
<1>7. part \in Seq(View) /\ Len(part) = Len(rest) /\ \A i \in 1 .. Len(rest) : part[i] = rest[i]
  BY <1>1, <1>6 DEF part, n
<1>8. part = rest
  BY <1>7
<1> QED
  BY <1>5, <1>8 DEF part, all

LEMMA ReversedGroup ==
  ASSUME NEW rest \in Seq(View), IsInjective(rest), NEW e \in View, e \notin ToSet(rest)
  PROVE  LET list  == Reverse(rest) \o <<e>>
             inner == <<e>> \o rest
         IN  /\ list \in Seq(View) /\ IsInjective(list) /\ ToSet(list) = ToSet(rest) \cup {e}
             /\ inner \in Seq(View) /\ Len(inner) = Len(list) /\ Len(list) \in Nat
             /\ \A i \in 1 .. Len(list) : inner[i] = list[(Len(list) + 1) - i]
<1> DEFINE a == Reverse(rest)
           one == <<e>>
           list == a \o one
           inner == one \o rest
           n == Len(rest)
<1>1. one \in Seq(View) /\ Len(one) = 1 /\ ToSet(one) = {e} /\ IsInjective(one) /\ one[1] = e
  BY OneItem
<1>2. a \in Seq(View) /\ ToSet(a) = ToSet(rest) /\ IsInjective(a)
  BY ReversedList, ReversedOnce
<1>3. a = [i \in 1 .. n |-> rest[(n - i) + 1]] /\ n \in Nat
  BY DEF Reverse
<1> HIDE DEF a, one
<1>4. /\ list \in Seq(View) /\ ToSet(list) = ToSet(a) \cup ToSet(one)
      /\ (ToSet(a) \cap ToSet(one) = {} => IsInjective(list))
  BY <1>1, <1>2, Appended
<1>5. ToSet(a) \cap ToSet(one) = {}
  BY <1>1, <1>2
<1>6. /\ inner \in Seq(View) /\ Len(inner) = n + 1 /\ inner[1] = e
      /\ \A i \in 1 .. n : inner[i + 1] = rest[i]
  <2>1. /\ inner \in Seq(View) /\ Len(inner) = Len(one) + n
        /\ \A i \in 1 .. Len(one) : inner[i] = one[i]
        /\ \A i \in 1 .. n : inner[Len(one) + i] = rest[i]
    <3>1. IsJoin(View, one, rest, inner)
      BY <1>1, Joined
    <3> HIDE DEF inner
    <3> QED
      BY <3>1 DEF IsJoin
  <2> HIDE DEF inner, n
  <2>2. 1 \in 1 .. Len(one) /\ \A i \in 1 .. n : Len(one) + i = i + 1
    BY <1>1, <1>3
  <2> QED
    BY <1>1, <1>3, <2>1, <2>2
<1>7. Len(a) = n /\ \A i \in 1 .. n : a[i] = rest[(n - i) + 1]
  BY <1>2, <1>3
<1>8. /\ Len(list) = n + 1 /\ list[n + 1] = e
      /\ \A i \in 1 .. n : list[i] = a[i]
  <2>1. /\ Len(list) = Len(a) + Len(one)
        /\ \A i \in 1 .. Len(a) : list[i] = a[i]
        /\ \A i \in 1 .. Len(one) : list[Len(a) + i] = one[i]
    <3>1. IsJoin(View, a, one, list)
      BY <1>1, <1>2, Joined
    <3> HIDE DEF list
    <3> QED
      BY <3>1 DEF IsJoin
  <2> HIDE DEF list, n
  <2>2. 1 \in 1 .. Len(one)
    BY <1>1
  <2> QED
    BY <1>1, <1>3, <1>7, <2>1, <2>2
<1> HIDE DEF list, inner, n
<1>9. ASSUME NEW i \in 1 .. (n + 1) PROVE inner[i] = list[(n + 2) - i]
  <2>1. CASE i = 1
    BY <1>3, <1>6, <1>8, <2>1
  <2>2. CASE i # 1
    <3> DEFINE j == i - 1
               k == (n + 2) - i
    <3>1. j \in 1 .. n /\ k \in 1 .. n /\ (n - k) + 1 = j /\ i = j + 1
      BY <1>3, <1>9, <2>2
    <3> HIDE DEF j, k
    <3>2. inner[i] = rest[j] /\ list[k] = rest[j]
      BY <1>6, <1>7, <1>8, <3>1
    <3> QED
      BY <3>2 DEF k
  <2> QED
    BY <2>1, <2>2
<1>10. \A i \in 1 .. Len(list) : inner[i] = list[(Len(list) + 1) - i]
  <2>1. (Len(list) + 1) = n + 2 /\ Len(list) = n + 1
    BY <1>3, <1>8
  <2> QED
    BY <1>9, <2>1
<1>11. ToSet(list) = ToSet(rest) \cup {e}
  BY <1>1, <1>2, <1>4
<1>12. n + 1 \in Nat
  BY <1>3
<1>13. /\ list \in Seq(View) /\ IsInjective(list) /\ ToSet(list) = ToSet(rest) \cup {e}
       /\ inner \in Seq(View) /\ Len(inner) = Len(list) /\ Len(list) \in Nat
  BY <1>4, <1>5, <1>6, <1>8, <1>11, <1>12
<1> QED
  BY <1>10, <1>13 DEF list, inner, a, one

Rerank(r, e, n) == [r EXCEPT ![e] = n]

LEMMA FrontOfAll ==
  ASSUME NEW all \in Seq(View), NEW r \in [View -> Int], NEW lo \in Int, Lowest(lo, View, r),
         Rising(all, r), NEW e \in View
  PROVE  /\ Rerank(r, e, lo) \in [View -> Int]
         /\ Lowest(lo - 1, View, Rerank(r, e, lo))
         /\ Rising(<<e>> \o RemoveFirst(all, e), Rerank(r, e, lo))
<1> DEFINE k == Rerank(r, e, lo)
           rest == RemoveFirst(all, e)
<1>1. k \in [View -> Int] /\ k[e] = lo /\ \A x \in View \ {e} : k[x] = r[x]
  BY DEF Rerank
<1>2. Rising(rest, r) /\ rest \in Seq(View) /\ ToSet(rest) = ToSet(all) \ {e}
  BY RisingWithout
<1> HIDE DEF k, rest
<1>3. \A x \in ToSet(rest) : x \in View \ {e}
  BY <1>2, MembersAreViews
<1>4. Rising(rest, k)
  BY <1>1, <1>2, <1>3, RisingElsewhere
<1>5. RanksFirst(e, rest, k)
  BY <1>1, <1>3 DEF RanksFirst, Lowest
<1>6. Rising(<<e>> \o rest, k)
  BY <1>1, <1>2, <1>4, <1>5, RisingPrepended
<1>7. Lowest(lo - 1, View, k)
  <2>1. \A x \in View : r[x] \in Int /\ lo < r[x]
    BY DEF Lowest
  <2>2. ASSUME NEW x \in View PROVE lo - 1 < k[x]
    BY <1>1, <2>1
  <2> QED
    BY <2>2 DEF Lowest
<1> QED
  BY <1>1, <1>6, <1>7 DEF k, rest

LEMMA BackOfAll ==
  ASSUME NEW all \in Seq(View), NEW r \in [View -> Int], NEW hi \in Int, Highest(hi, View, r),
         Rising(all, r), NEW e \in View
  PROVE  /\ Rerank(r, e, hi) \in [View -> Int]
         /\ Highest(hi + 1, View, Rerank(r, e, hi))
         /\ Rising(Append(RemoveFirst(all, e), e), Rerank(r, e, hi))
<1> DEFINE k == Rerank(r, e, hi)
           rest == RemoveFirst(all, e)
<1>1. k \in [View -> Int] /\ k[e] = hi /\ \A x \in View \ {e} : k[x] = r[x]
  BY DEF Rerank
<1>2. Rising(rest, r) /\ rest \in Seq(View) /\ ToSet(rest) = ToSet(all) \ {e}
  BY RisingWithout
<1> HIDE DEF k, rest
<1>3. \A x \in ToSet(rest) : x \in View \ {e}
  BY <1>2, MembersAreViews
<1>4. Rising(rest, k)
  BY <1>1, <1>2, <1>3, RisingElsewhere
<1>5. RanksLast(e, rest, k)
  BY <1>1, <1>3 DEF RanksLast, Highest
<1>6. Rising(Append(rest, e), k)
  BY <1>1, <1>2, <1>4, <1>5, RisingAppended
<1>7. Highest(hi + 1, View, k)
  <2>1. \A x \in View : r[x] \in Int /\ r[x] < hi
    BY DEF Highest
  <2>2. ASSUME NEW x \in View PROVE k[x] < hi + 1
    BY <1>1, <2>1
  <2> QED
    BY <2>2 DEF Highest
<1> QED
  BY <1>1, <1>6, <1>7 DEF k, rest

(* The visible views that are not of a group keep their order.              *)
Others(s, g) == Without(s.visible_views, s.visible_group_views[g])

GroupOnTop(s, top) ==
  (<<top>> \o RemoveFirst(s.visible_group_views[s.group_of[top]], top))
     \o Others(s, s.group_of[top])

GroupAtBottom(s, top) ==
  Others(s, s.group_of[top])
     \o (<<top>> \o RemoveFirst(s.visible_group_views[s.group_of[top]], top))

LEMMA ReversedRanks ==
  ASSUME NEW list \in Seq(View), NEW inner \in Seq(View), Len(inner) = Len(list),
         \A i \in 1 .. Len(list) : inner[i] = list[(Len(list) + 1) - i],
         NEW r \in [View -> Int], NEW lo \in Int, NEW q,
         Ranked(list, 1 .. Len(list), r, FrontRanks(lo), q)
  PROVE  Rising(inner, q) /\ \A x \in ToSet(inner) : q[x] \in Int /\ q[x] < lo
<1> DEFINE n == Len(list)
<1>1. n \in Nat /\ Len(inner) = n
  OBVIOUS
<1>2. ASSUME NEW i \in 1 .. n PROVE q[inner[i]] = lo - ((n + 1) - i)
  <2> DEFINE j == (n + 1) - i
  <2>1. j \in 1 .. n /\ j \in Nat
    BY <1>1
  <2>2. inner[i] = list[j]
    OBVIOUS
  <2> HIDE DEF j
  <2>3. q[list[j]] = lo - j
    BY <2>1 DEF Ranked, FrontRanks
  <2> QED
    BY <2>2, <2>3 DEF j
<1> HIDE DEF n
<1>3. Rising(inner, q)
  BY <1>1, <1>2 DEF Rising
<1>4. ASSUME NEW x \in ToSet(inner) PROVE q[x] \in Int /\ q[x] < lo
  <2>1. PICK i \in 1 .. n : inner[i] = x
    BY <1>1, InList
  <2> QED
    BY <1>1, <1>2, <2>1
<1> QED
  BY <1>3, <1>4

LEMMA ForwardRanks ==
  ASSUME NEW list \in Seq(View), NEW r \in [View -> Int], NEW hi \in Int, NEW q,
         Ranked(list, 1 .. Len(list), r, BackRanks(hi), q)
  PROVE  Rising(list, q) /\ \A x \in ToSet(list) : q[x] \in Int /\ hi < q[x]
<1> DEFINE n == Len(list)
<1>1. n \in Nat
  OBVIOUS
<1>2. \A i \in 1 .. n : q[list[i]] = hi + i
  <2>1. \A i \in 1 .. n : i \in Nat
    OBVIOUS
  <2> QED
    BY <2>1 DEF Ranked, BackRanks
<1> HIDE DEF n
<1>3. Rising(list, q)
  BY <1>1, <1>2 DEF Rising, n
<1>4. ASSUME NEW x \in ToSet(list) PROVE q[x] \in Int /\ hi < q[x]
  <2>1. PICK i \in 1 .. n : list[i] = x
    BY InList DEF n
  <2> QED
    BY <1>1, <1>2, <2>1
<1> QED
  BY <1>3, <1>4

LEMMA GroupRaiseKeeps ==
  ASSUME NEW s, Good(s), NEW top \in Shown(s)
  PROVE  /\ Good(GroupRaise(s, top))
         /\ Runs(s) => GroupRaise(s, top).visible_views = GroupOnTop(s, top)
<1> DEFINE t == Raise(s, top)
           g == s.group_of[top]
           group == s.visible_group_views[g]
           rest == RemoveFirst(group, top)
           inner == <<top>> \o rest
           list == Reverse(rest) \o <<top>>
           z == Each(Raise, t, list)
           all == s.visible_views
<1>1. Good(t) /\ Same(s, t) /\ ToFront(s, t, top)
  BY RaiseToFront
<1>2. /\ rest \in Seq(View) /\ IsInjective(rest) /\ ToSet(rest) = ToSet(group) \ {top}
      /\ ToSet(group) \subseteq Shown(s) /\ top \in ToSet(group) /\ group \in Seq(View)
  BY RestOfGroup
<1>3. top \in View /\ Shown(t) = Shown(s) /\ t.group_of = s.group_of
  BY <1>1, SameStays DEF Shown, Mapped, Same
<1>4. GroupRaise(s, top) = z
  <2>1. t.visible_group_views[g] = inner
    BY <1>1 DEF ToFront
  <2> HIDE DEF t, rest
  <2>2. Below(inner, top) = rest
    BY <1>2, <1>3, BelowFirst
  <2>3. GroupRaise(s, top) =
          Each(Raise, t, Reverse(Below(t.visible_group_views[t.group_of[top]], top)) \o <<top>>)
    BY DEF GroupRaise, t
  <2> HIDE DEF inner, g
  <2>4. t.visible_group_views[t.group_of[top]] = inner
    BY <1>3, <2>1 DEF g
  <2> QED
    BY <2>2, <2>3, <2>4
<1>5. /\ list \in Seq(View) /\ IsInjective(list) /\ ToSet(list) = ToSet(rest) \cup {top}
      /\ inner \in Seq(View) /\ Len(inner) = Len(list) /\ Len(list) \in Nat
      /\ \A i \in 1 .. Len(list) : inner[i] = list[(Len(list) + 1) - i]
  <2> HIDE DEF rest
  <2> QED
    BY <1>2, <1>3, ReversedGroup
<1>6. PICK r \in [View -> Int], lo \in Int, hi \in Int :
        /\ Lowest(lo, View, r) /\ all \in Seq(View) /\ Rising(all, r) /\ ToSet(all) = Shown(s)
  BY RanksOfVisible
<1> DEFINE k == Rerank(r, top, lo)
<1>7. k \in [View -> Int] /\ Lowest(lo - 1, View, k) /\ Rising(t.visible_views, k)
  <2>1. t.visible_views = <<top>> \o RemoveFirst(all, top)
    BY <1>1 DEF ToFront
  <2> HIDE DEF all, t
  <2> QED
    BY <1>3, <1>6, <2>1, FrontOfAll
<1>8. ToSet(list) = ToSet(group) /\ ToSet(list) \subseteq Shown(t)
  BY <1>2, <1>3, <1>5
<1>9. \A x \in View \ {top} : k[x] = r[x]
  BY <1>6 DEF Rerank
<1> DEFINE others == Without(all, group)
<1> HIDE DEF t, k, list, inner, rest, z, group, all
<1>10. lo - 1 \in Int
  OBVIOUS
<1> DEFINE low == lo - 1
<1> HIDE DEF low
<1>11. /\ Good(z) /\ Same(t, z)
       /\ Runs(t) => OrderedBy(z.visible_views, list, 1 .. Len(list), k, FrontRanks(low))
  BY <1>1, <1>5, <1>7, <1>8, <1>10, RaiseEachOrders DEF z, low
<1>12. ASSUME Runs(s) PROVE z.visible_views = inner \o others
  <2>1. PICK q \in [View -> Int] : /\ Ranked(list, 1 .. Len(list), k, FrontRanks(low), q)
                                   /\ Rising(z.visible_views, q)
    BY <1>1, <1>11, <1>12 DEF OrderedBy, Same, Runs
  <2>2. /\ others \in Seq(View) /\ Rising(others, r) /\ ToSet(others) = ToSet(all) \ ToSet(group)
    BY <1>2, <1>6, WithoutAll
  <2> HIDE DEF others
  <2>3. Rising(inner, q) /\ \A x \in ToSet(inner) : q[x] \in Int /\ q[x] < low
    BY <1>5, <1>7, <1>10, <2>1, ReversedRanks DEF low
  <2>4. ToSet(inner) = ToSet(group)
    <3>1. ToSet(inner) = ToSet(rest) \cup {top}
      BY <1>2, <1>3, Prepended DEF inner
    <3> QED
      BY <1>2, <3>1
  <2>5. ASSUME NEW x \in ToSet(others) PROVE q[x] = r[x] /\ low < q[x] /\ q[x] \in Int
    <3>1. x \in View /\ x \notin ToSet(list) /\ x # top
      BY <1>2, <1>8, <2>2, <2>5, MembersAreViews
    <3>2. \A i \in 1 .. Len(list) : list[i] # x
      BY <1>5, <3>1, InList
    <3>3. q[x] = k[x]
      BY <2>1, <3>1, <3>2 DEF Ranked
    <3> QED
      BY <1>7, <1>9, <3>1, <3>3 DEF Lowest, low
  <2>6. Rising(others, q)
    BY <2>2, <2>5, RisingElsewhere
  <2>7. \A x \in ToSet(inner), y \in ToSet(others) : q[x] < q[y]
    <3>1. low \in Int
      BY <1>10 DEF low
    <3> QED
      BY <2>3, <2>5, <3>1
  <2>8. Rising(inner \o others, q)
    BY <1>5, <2>2, <2>3, <2>6, <2>7, RisingJoined
  <2>9. inner \o others \in Seq(View) /\ ToSet(inner \o others) = ToSet(inner) \cup ToSet(others)
    BY <1>5, <2>2, Appended
  <2>10. z.visible_views \in Seq(View) /\ ToSet(z.visible_views) = Shown(s)
    <3>1. Shown(z) = Shown(t) /\ Core(z, {}, {})
      BY <1>11, SameStays DEF Good
    <3>2. Holds(z.visible_views, Shown(z))
      BY <3>1, ListsHold
    <3> QED
      BY <1>3, <3>1, <3>2 DEF Holds
  <2>11. ToSet(inner \o others) = ToSet(z.visible_views)
    BY <1>2, <1>6, <2>2, <2>4, <2>9, <2>10
  <2> DEFINE a == z.visible_views
             b == inner \o others
  <2> HIDE DEF a, b
  <2>12. a = b
    BY <2>1, <2>8, <2>9, <2>10, <2>11, RisingAlike DEF a, b
  <2> QED
    BY <2>12 DEF a, b
<1> QED
  BY <1>4, <1>11, <1>12 DEF GroupOnTop, Others, others, inner, rest, group, all
LEMMA GroupLowerKeeps ==
  ASSUME NEW s, Good(s), NEW top \in Shown(s)
  PROVE  /\ Good(GroupLower(s, top))
         /\ Runs(s) => GroupLower(s, top).visible_views = GroupAtBottom(s, top)
<1> DEFINE t == Lower(s, top)
           g == s.group_of[top]
           group == s.visible_group_views[g]
           rest == RemoveFirst(group, top)
           inner == <<top>> \o rest
           z == Each(Lower, t, rest)
           all == s.visible_views
<1>1. Good(t) /\ Same(s, t) /\ ToBack(s, t, top)
  BY LowerToBack
<1>2. /\ rest \in Seq(View) /\ IsInjective(rest) /\ ToSet(rest) = ToSet(group) \ {top}
      /\ ToSet(group) \subseteq Shown(s) /\ top \in ToSet(group) /\ group \in Seq(View)
  BY RestOfGroup
<1>3. top \in View /\ Shown(t) = Shown(s) /\ t.group_of = s.group_of
  BY <1>1, SameStays DEF Shown, Mapped, Same
<1>4. GroupLower(s, top) = z
  <2>1. t.visible_group_views[g] = Append(rest, top)
    BY <1>1 DEF ToBack
  <2> HIDE DEF t, rest
  <2>2. Above(Append(rest, top), top) = rest
    BY <1>2, <1>3, AboveLast
  <2>3. GroupLower(s, top) =
          Each(Lower, t, Above(t.visible_group_views[t.group_of[top]], top))
    BY DEF GroupLower, t
  <2> DEFINE list == Append(rest, top)
  <2> HIDE DEF list, g
  <2>4. t.visible_group_views[t.group_of[top]] = list
    BY <1>3, <2>1 DEF g, list
  <2> QED
    BY <2>2, <2>3, <2>4 DEF list
<1>5. top \notin ToSet(rest) /\ ToSet(rest) \subseteq Shown(t)
  BY <1>2, <1>3
<1>6. PICK r \in [View -> Int], lo \in Int, hi \in Int :
        /\ Highest(hi, View, r) /\ all \in Seq(View) /\ Rising(all, r) /\ ToSet(all) = Shown(s)
  BY RanksOfVisible
<1> DEFINE k == Rerank(r, top, hi)
<1>7. k \in [View -> Int] /\ Highest(hi + 1, View, k) /\ Rising(t.visible_views, k)
  <2>1. t.visible_views = Append(RemoveFirst(all, top), top)
    BY <1>1 DEF ToBack
  <2> HIDE DEF all, t
  <2> QED
    BY <1>3, <1>6, <2>1, BackOfAll
<1>8. k[top] = hi /\ \A x \in View \ {top} : k[x] = r[x]
  BY <1>3, <1>6 DEF Rerank
<1> DEFINE others == Without(all, group)
<1> HIDE DEF t, k, inner, rest, z, group, all
<1> DEFINE high == hi + 1
<1>9. high \in Int /\ hi < high
  OBVIOUS
<1> HIDE DEF high
<1>10. /\ Good(z) /\ Same(t, z)
       /\ Runs(t) => OrderedBy(z.visible_views, rest, 1 .. Len(rest), k, BackRanks(high))
  BY <1>1, <1>2, <1>5, <1>7, <1>9, LowerEachOrders DEF z, high
<1>11. ASSUME Runs(s) PROVE z.visible_views = others \o inner
  <2>1. PICK q \in [View -> Int] : /\ Ranked(rest, 1 .. Len(rest), k, BackRanks(high), q)
                                   /\ Rising(z.visible_views, q)
    BY <1>1, <1>10, <1>11 DEF OrderedBy, Same, Runs
  <2>2. /\ others \in Seq(View) /\ Rising(others, r) /\ ToSet(others) = ToSet(all) \ ToSet(group)
    BY <1>2, <1>6, WithoutAll
  <2> HIDE DEF others
  <2>3. Rising(rest, q) /\ \A x \in ToSet(rest) : q[x] \in Int /\ high < q[x]
    BY <1>2, <1>7, <1>9, <2>1, ForwardRanks
  <2>4. \A x \in View : x \notin ToSet(rest) => q[x] = k[x]
    <3>1. ASSUME NEW x \in View, x \notin ToSet(rest) PROVE \A i \in 1 .. Len(rest) : rest[i] # x
      BY <1>2, <3>1, InList
    <3> QED
      BY <2>1, <3>1 DEF Ranked
  <2>5. q[top] = hi
    BY <1>3, <1>5, <1>8, <2>4
  <2>6. RanksFirst(top, rest, q)
    BY <1>9, <2>3, <2>5 DEF RanksFirst
  <2>7. /\ Rising(inner, q) /\ inner \in Seq(View) /\ ToSet(inner) = ToSet(group)
    <3>1. /\ Rising(inner, q) /\ inner \in Seq(View)
          /\ ToSet(inner) = ToSet(rest) \cup {top}
      BY <1>2, <1>3, <2>1, <2>3, <2>6, RisingPrepended DEF inner
    <3> QED
      BY <1>2, <3>1
  <2>8. ASSUME NEW y \in ToSet(others) PROVE q[y] = r[y] /\ q[y] < hi /\ q[y] \in Int
    <3>1. y \in View /\ y \notin ToSet(rest) /\ y # top
      BY <1>2, <2>2, <2>8, MembersAreViews
    <3> QED
      BY <1>6, <1>8, <2>1, <2>4, <3>1 DEF Highest
  <2>9. Rising(others, q)
    BY <2>2, <2>8, RisingElsewhere
  <2>10. \A y \in ToSet(others), x \in ToSet(inner) : q[y] < q[x]
    <3>1. ASSUME NEW x \in ToSet(inner) PROVE q[x] \in Int /\ hi <= q[x]
      <4>1. x = top \/ x \in ToSet(rest)
        BY <1>2, <2>7, <3>1
      <4> QED
        BY <1>9, <2>3, <2>5, <4>1
    <3> QED
      BY <2>8, <3>1
  <2>11. Rising(others \o inner, q)
    BY <2>1, <2>2, <2>7, <2>9, <2>10, RisingJoined
  <2>12. others \o inner \in Seq(View) /\ ToSet(others \o inner) = ToSet(others) \cup ToSet(inner)
    BY <2>2, <2>7, Appended
  <2>13. z.visible_views \in Seq(View) /\ ToSet(z.visible_views) = Shown(s)
    <3>1. Shown(z) = Shown(t) /\ Core(z, {}, {})
      BY <1>10, SameStays DEF Good
    <3>2. Holds(z.visible_views, Shown(z))
      BY <3>1, ListsHold
    <3> QED
      BY <1>3, <3>1, <3>2 DEF Holds
  <2>14. ToSet(others \o inner) = ToSet(z.visible_views)
    BY <1>2, <1>6, <2>2, <2>7, <2>12, <2>13
  <2> DEFINE a == z.visible_views
             b == others \o inner
  <2> HIDE DEF a, b
  <2>15. a = b
    BY <2>1, <2>11, <2>12, <2>13, <2>14, RisingAlike DEF a, b
  <2> QED
    BY <2>15 DEF a, b
<1> QED
  BY <1>4, <1>10, <1>11 DEF GroupAtBottom, Others, others, inner, rest, group, all

-----------------------------------------------------------------------------
(* The steps                                                               *)

LEMMA Ends ==
  ASSUME NEW list \in Seq(View), NEW v \in ToSet(list)
  PROVE  list[1] \in ToSet(list) /\ Last(list) \in ToSet(list)
<1>1. PICK i \in 1 .. Len(list) : list[i] = v
  BY InList
<1>2. Len(list) \in Nat /\ 1 \in 1 .. Len(list) /\ Len(list) \in 1 .. Len(list)
  BY <1>1
<1>3. Last(list) = list[Len(list)]
  BY DEF Last
<1> QED
  BY <1>2, <1>3, InList

LEMMA NeighbourInList ==
  ASSUME NEW list \in Seq(View), NEW v \in ToSet(list), NEW up \in BOOLEAN
  PROVE  Neighbour(list, v, up) \in ToSet(list)
<1> DEFINE i == PlaceIn(list, v)
<1>1. Neighbour(list, v, up) =
        IF up THEN IF i = 1 THEN Last(list) ELSE list[i - 1]
        ELSE IF i = Len(list) THEN list[1] ELSE list[i + 1]
  BY DEF Neighbour, PlaceIn
<1>2. i \in 1 .. Len(list) /\ Len(list) \in Nat
  BY PlaceInList
<1> HIDE DEF i
<1>3. (i # 1 => i - 1 \in 1 .. Len(list)) /\ (i # Len(list) => i + 1 \in 1 .. Len(list))
  BY <1>2
<1> QED
  BY <1>1, <1>3, Ends, InList

(* Only the focus and the modes of the server change.                       *)
LEMMA RestKeeps ==
  ASSUME NEW s, Good(s), NEW t \in States, NotFailed(t), SameLists(s, t), SameViews(s, t),
         FocusFits(t)
  PROVE  Good(t)
BY CoreStays DEF Good

LEMMA FocusMoves ==
  ASSUME NEW s, Good(s), NEW v \in Shown(s)
  PROVE  Good([s EXCEPT !.focus = v]) /\ SameViews(s, [s EXCEPT !.focus = v])
<1> DEFINE t == [s EXCEPT !.focus = v]
<1>1. s \in States /\ NotFailed(s) /\ v \in View /\ v # NULL
  BY NamesAssumption DEF Good, Core, Shown, Mapped
<1>2. /\ t \in States /\ NotFailed(t) /\ SameLists(s, t) /\ SameViews(s, t) /\ t.focus = v
  BY <1>1 DEF States, NotFailed, SameLists, SameShelves, SameLinks, SameViews
<1> HIDE DEF t
<1>3. FocusFits(t)
  BY <1>1, <1>2, SameViewsStay DEF FocusFits
<1> QED
  BY <1>2, <1>3, RestKeeps DEF t

LEMMA FocusLeaves ==
  ASSUME NEW s, Good(s), s.mode = "normal"
  PROVE  Good([s EXCEPT !.focus = NULL]) /\ SameViews(s, [s EXCEPT !.focus = NULL])
<1> DEFINE t == [s EXCEPT !.focus = NULL]
<1>1. s \in States /\ NotFailed(s)
  BY DEF Good, Core
<1>2. /\ t \in States /\ NotFailed(t) /\ SameLists(s, t) /\ SameViews(s, t) /\ t.focus = NULL
      /\ t.mode = "normal"
  BY <1>1 DEF States, NotFailed, SameLists, SameShelves, SameLinks, SameViews
<1> HIDE DEF t
<1>3. FocusFits(t)
  BY <1>2 DEF FocusFits
<1> QED
  BY <1>2, <1>3, RestKeeps DEF t

LEMMA CyclingKeeps ==
  ASSUME NEW s, Good(s), NEW b \in BOOLEAN
  PROVE  Good([s EXCEPT !.cycling = b]) /\ SameViews(s, [s EXCEPT !.cycling = b])
         /\ [s EXCEPT !.cycling = b].focus = s.focus
<1> DEFINE t == [s EXCEPT !.cycling = b]
<1>1. s \in States /\ NotFailed(s) /\ FocusFits(s)
  BY DEF Good, Core
<1>2. /\ t \in States /\ NotFailed(t) /\ SameLists(s, t) /\ SameViews(s, t) /\ t.focus = s.focus
      /\ t.mode = s.mode /\ t.fault = s.fault
  BY <1>1 DEF States, NotFailed, SameLists, SameShelves, SameLinks, SameViews
<1> HIDE DEF t
<1>3. FocusFits(t)
  BY <1>1, <1>2, SameViewsStay, FocusStays
<1> QED
  BY <1>2, <1>3, RestKeeps DEF t

LEMMA RefocusedKeeps ==
  ASSUME NEW s, Good(s), NEW t \in Refocused(s)
  PROVE  Good(t) /\ SameViews(s, t)
<1>1. \/ t = s
      \/ \E v \in Shown(s) : t = [s EXCEPT !.focus = v]
      \/ s.mode = "normal" /\ t = [s EXCEPT !.focus = NULL]
  BY DEF Refocused, Shown
<1>2. CASE t = s
  BY <1>2 DEF SameViews
<1>3. CASE \E v \in Shown(s) : t = [s EXCEPT !.focus = v]
  BY <1>3, FocusMoves
<1>4. CASE s.mode = "normal" /\ t = [s EXCEPT !.focus = NULL]
  BY <1>4, FocusLeaves
<1> QED
  BY <1>1, <1>2, <1>3, <1>4

(* The list of visible groups is empty once no group is linked.             *)
LEMMA RingOfNone ==
  ASSUME NEW n, NEW p, NEW L, Chain(n, p, L), \A g \in Group : n[g] = NULL
  PROVE  Ring(n, p, L)
<1>1. \A g \in Group : g \notin L /\ p[g] = NULL
  BY DEF Chain
<1>2. Root \in Places /\ \A x \in Places : x = Root \/ x \in Group
  BY DEF Places
<1>3. n[Root] \in Places /\ p[Root] \in Places
  BY <1>2 DEF Chain
<1>4. Root # NULL
  BY NamesAssumption
<1>5. n[Root] = Root /\ p[Root] = Root
  <2>1. \A g \in Group : (n[Root] = g => p[g] = Root) /\ (p[Root] = g => n[g] = Root)
    BY <1>2 DEF Chain
  <2> QED
    BY <1>1, <1>2, <1>3, <1>4, <2>1
<1> DEFINE c == [i \in 0 .. 0 + 1 |-> Root]
<1>6. c \in [0 .. 0 + 1 -> Places] /\ c[0] = Root /\ c[0 + 1] = Root
  BY <1>2
<1>7. Round(n, p, L, 0, c)
  <2>1. \A i \in 0 .. 0 : i = 0
    OBVIOUS
  <2>2. \A i \in 1 .. 0 : FALSE
    OBVIOUS
  <2> HIDE DEF c
  <2> QED
    BY <1>1, <1>5, <1>6, <2>1, <2>2 DEF Round
<1> HIDE DEF c
<1> QED
  BY <1>7 DEF Ring

(* The invariant: Good, of the state of the server.                         *)
IInv == Good(S) /\ outputs \in SUBSET Output

LEMMA Fields ==
  /\ S.sheet_of = sheet_of /\ S.group_of = group_of /\ S.hidden = hidden
  /\ S.stale = stale /\ S.sheet_views = sheet_views /\ S.output_views = output_views
  /\ S.group_views = group_views /\ S.visible_views = visible_views
  /\ S.workspace_views = workspace_views /\ S.visible_group_views = visible_group_views
  /\ S.next = next /\ S.prev = prev /\ S.current = current /\ S.focus = focus
  /\ S.cycling = cycling /\ S.mode = mode /\ S.typed = typed /\ S.cut = cut /\ S.fault = fault
BY DEF S

LEMMA BecomeKeeps ==
  ASSUME NEW t, Good(t), Become(t), outputs' \in SUBSET Output
  PROVE  IInv'
<1> DEFINE u == S'
<1>1. /\ SameShelves(t, u) /\ SameViews(t, u) /\ u.next = t.next /\ u.prev = t.prev
      /\ u.current = t.current /\ u.focus = t.focus /\ u.cycling = t.cycling
      /\ u.mode = t.mode /\ u.typed = t.typed /\ u.fault = t.fault
      /\ u.cut = (t.cut /\ \E g \in Group : t.next[g] # NULL)
  BY DEF Become, S, SameShelves, SameViews
<1>2. t \in States /\ Placed(t) /\ NotFailed(t) /\ InLists(t, {}, {})
      /\ Linked(t, GroupsOf(t, {})) /\ FocusFits(t)
  BY DEF Good, Core
<1>3. u \in States
  <2>1. DOMAIN u = DOMAIN t /\ u = [i \in DOMAIN u |-> u[i]]
    BY <1>2 DEF S, States
  <2>2. u.cut \in BOOLEAN
    BY <1>1
  <2> QED
    BY <1>1, <1>2, <2>2 DEF S, States, SameShelves, SameViews
<1> HIDE DEF u
<1>4. Placed(u) /\ NotFailed(u) /\ FocusFits(u) /\ GroupsOf(u, {}) = GroupsOf(t, {})
  <2>1. Shown(u) = Shown(t)
    BY <1>1, SameViewsStay
  <2>2. FocusFits(u)
    BY <1>1, <1>2, <2>1, FocusStays
  <2> QED
    BY <1>1, <1>2, <2>2, SameViewsStay DEF NotFailed
<1>5. InLists(u, {}, {})
  BY <1>1, <1>2, InListsStay
<1>6. Linked(u, GroupsOf(t, {}))
  <2>1. Chain(u.next, u.prev, GroupsOf(t, {}))
    BY <1>1, <1>2 DEF Linked
  <2>2. ASSUME ~u.cut PROVE Ring(u.next, u.prev, GroupsOf(t, {}))
    <3>1. CASE t.cut
      <4>1. \A g \in Group : u.next[g] = NULL
        BY <1>1, <2>2, <3>1
      <4> QED
        BY <2>1, <4>1, RingOfNone
    <3>2. CASE ~t.cut
      BY <1>1, <1>2, <3>2 DEF Linked
    <3> QED
      BY <3>1, <3>2
  <2> QED
    BY <2>1, <2>2 DEF Linked
<1>7. Good(u)
  BY <1>3, <1>4, <1>5, <1>6 DEF Good, Core
<1> QED
  BY <1>7 DEF IInv, u

LEMMA BecomeFocusedKeeps ==
  ASSUME NEW s, Good(s), BecomeFocused(s), outputs' \in SUBSET Output
  PROVE  IInv'
BY RefocusedKeeps, BecomeKeeps DEF BecomeFocused

LEMMA FocusIsShown ==
  ASSUME IInv, Focused \/ Dialogue
  PROVE  /\ focus \in Shown(S) /\ focus \in View /\ group_of[focus] \in Group
         /\ OutputOf(S, focus) \in Output
<1>1. focus \in Shown(S)
  BY Fields DEF IInv, Good, FocusFits, Focused, Normal, Running, Dialogue, Runs
<1>2. focus \in Mapped(S) /\ S \in States /\ Placed(S)
  BY <1>1 DEF Shown, IInv, Good, Core
<1> QED
  BY <1>1, <1>2, MappedHasPlace, Fields

LEMMA ShowGood ==
  ASSUME NEW s, Good(s), NEW v \in Mapped(s), v \in s.hidden
  PROVE  Good(Show(s, v))
<1>1. Core(Show(s, v), {}, {}) /\ Shows(s, Show(s, v), v)
  BY ShowKeeps DEF Good
<1>2. Shown(s) \subseteq Shown(Show(s, v))
  BY <1>1 DEF Shows, SameRest, Shown, Mapped
<1>3. FocusFits(Show(s, v))
  BY <1>1, <1>2, FocusStays DEF Shows, SameRest, Good
<1> QED
  BY <1>1, <1>3 DEF Good

LEMMA RaiseViewGood ==
  ASSUME NEW s, Good(s), NEW v \in Shown(s)
  PROVE  Good(RaiseView(s, v))
BY ButFor, RaiseViewKeeps, SameIsGood DEF Good

LEMMA MoveToTopGood ==
  ASSUME NEW s, Good(s), NEW v \in Mapped(s), v \in s.hidden
  PROVE  Good(MoveToTop(s, v))
BY ButFor, MoveToTopKeeps, SameIsGood DEF Good

LEMMA RaiseGood ==
  ASSUME NEW s, Good(s), NEW v \in Shown(s)
  PROVE  Good(Raise(s, v)) /\ Same(s, Raise(s, v))
BY RaiseKeeps, SameIsGood DEF Good

LEMMA LowerGood ==
  ASSUME NEW s, Good(s), NEW v \in Shown(s)
  PROVE  Good(Lower(s, v)) /\ Same(s, Lower(s, v))
BY LowerKeeps, SameIsGood DEF Good

LEMMA MapKeeps ==
  ASSUME NEW s, Good(s), NEW v \in View, v \in s.hidden, NEW sheet \in SheetId, NEW g \in Group
  PROVE  Good(Show(MoveToTop([s EXCEPT !.sheet_of[v] = sheet, !.group_of[v] = g], v), v))
<1> DEFINE t == [s EXCEPT !.sheet_of[v] = sheet, !.group_of[v] = g]
<1>1. Core(s, {}, {}) /\ FocusFits(s) /\ s \in States
  BY DEF Good, Core
<1>2. /\ Core(MoveToTop(t, v), {}, {})
      /\ MoveToTop(t, v).group_of = [s.group_of EXCEPT ![v] = g]
      /\ MoveToTop(t, v).hidden = s.hidden
      /\ (FocusFits(s) => FocusFits(MoveToTop(t, v)))
  BY <1>1, MoveHidden
<1> HIDE DEF t
<1>3. g # NULL
  BY NamesAssumption
<1>4. Good(MoveToTop(t, v)) /\ v \in Mapped(MoveToTop(t, v)) /\ v \in MoveToTop(t, v).hidden
  BY <1>1, <1>2, <1>3 DEF Good, Mapped, States
<1>5. Good(Show(MoveToTop(t, v), v))
  BY <1>4, ShowGood
<1> QED
  BY <1>5 DEF t

LEMMA MapStep ==
  ASSUME IInv, NEW v \in View, NEW o \in Output, NEW n \in Sheet, NEW g \in Group, Map(v, o, n, g)
  PROVE  IInv'
<1> DEFINE sheet == <<o, n>>
           z == Show(MoveToTop([S EXCEPT !.sheet_of[v] = sheet, !.group_of[v] = g], v), v)
<1>1. Good(S) /\ outputs' \in SUBSET Output /\ BecomeFocused(z) /\ S.group_of[v] = NULL
  BY Fields DEF IInv, Map
<1>2. v \in S.hidden
  BY <1>1 DEF Good, Core, Placed
<1>3. sheet \in SheetId
  BY DEF SheetId
<1>4. Good(z)
  <2> HIDE DEF sheet
  <2> QED
    BY <1>1, <1>2, <1>3, MapKeeps
<1> HIDE DEF z
<1> QED
  BY <1>1, <1>4, BecomeFocusedKeeps

LEMMA UnmapStep ==
  ASSUME IInv, NEW v \in View, Unmap(v)
  PROVE  IInv'
<1>1. Good(S) /\ outputs' \in SUBSET Output /\ v \in Mapped(S)
  BY Fields DEF IInv, Unmap, Mapped
<1>2. PICK t \in IF v \in hidden THEN {S} ELSE Refocused(Hide(S, v)) :
        Become([DetachFromGroup(t, v) EXCEPT
                 !.sheet_views = Out(@, v), !.output_views = Out(@, v),
                 !.stale = @ \ {v}, !.sheet_of[v] = NULL, !.group_of[v] = NULL])
  BY DEF Unmap
<1>3. Good(t) /\ v \in Mapped(t) /\ v \in t.hidden
  <2>1. CASE v \in hidden
    BY <1>1, <1>2, <2>1, Fields
  <2>2. CASE v \notin hidden
    <3>1. v \in Shown(S)
      BY <1>1, <2>2, Fields DEF Shown
    <3>2. Good(Hide(S, v)) /\ Conceals(S, Hide(S, v), v)
      BY <1>1, <3>1, HideKeeps
    <3>3. Good(t) /\ SameViews(Hide(S, v), t)
      BY <1>2, <2>2, <3>2, RefocusedKeeps
    <3> QED
      BY <1>1, <3>2, <3>3 DEF Conceals, SameViews, Mapped
  <2> QED
    BY <2>1, <2>2
<1> DEFINE u == [DetachFromGroup(t, v) EXCEPT
                   !.sheet_views = Out(@, v), !.output_views = Out(@, v),
                   !.stale = @ \ {v}, !.sheet_of[v] = NULL, !.group_of[v] = NULL]
<1>4. Good(u)
  BY <1>3, UnmapKeeps
<1>5. Become(u)
  BY <1>2
<1> HIDE DEF u
<1> QED
  BY <1>1, <1>4, <1>5, BecomeKeeps

LEMMA CommittedKeeps ==
  ASSUME NEW s, Good(s), NEW v \in Mapped(s), NEW t \in Committed(s, v)
  PROVE  Good(t)
<1>1. CASE v \notin s.hidden
  <2>1. v \in Shown(s) /\ t \in Refocused(RaiseView(s, v))
    BY <1>1 DEF Shown, Committed
  <2> QED
    BY <2>1, RaiseViewGood, RefocusedKeeps
<1>2. CASE v \in s.hidden
  <2>1. t \in Refocused(Show(s, v)) \/ t = MoveToTop(s, v)
    BY <1>2 DEF Committed
  <2> QED
    BY <1>2, <2>1, ShowGood, MoveToTopGood, RefocusedKeeps
<1> QED
  BY <1>1, <1>2

LEMMA CommitStep ==
  ASSUME IInv, NEW v \in View, Commit(v)
  PROVE  IInv'
<1>1. Good(S) /\ outputs' \in SUBSET Output /\ v \in Mapped(S)
  BY Fields DEF IInv, Commit, Mapped
<1>2. PICK t \in Committed(S, v) : Become(t)
  BY DEF Commit
<1> QED
  BY <1>1, <1>2, CommittedKeeps, BecomeKeeps

LEMMA MinimizeStep ==
  ASSUME IInv, NEW v \in View, Minimize(v)
  PROVE  IInv'
<1>1. Good(S) /\ outputs' \in SUBSET Output /\ v \in Shown(S) /\ Become(Hide(S, v))
  BY Fields DEF IInv, Minimize, Mapped, Shown
<1> QED
  BY <1>1, HideKeeps, BecomeKeeps

(* Keys about the view that has the focus.                                  *)
LEMMA RaiseStep ==
  ASSUME IInv, MoveFocus \/ RaiseFocus \/ LowerFocus \/ RaiseGroup \/ LowerGroup
  PROVE  IInv'
<1>1. Good(S) /\ outputs' \in SUBSET Output
  BY DEF IInv, MoveFocus, RaiseFocus, LowerFocus, RaiseGroup, LowerGroup
<1>2. CASE MoveFocus
  BY <1>1, <1>2, BecomeFocusedKeeps DEF MoveFocus
<1>3. CASE RaiseFocus
  BY <1>1, <1>3, FocusIsShown, RaiseGood, BecomeKeeps DEF RaiseFocus
<1>4. CASE LowerFocus
  <2> DEFINE c == [S EXCEPT !.cycling = FALSE]
  <2>1. Good(c) /\ SameViews(S, c)
    BY <1>1, CyclingKeeps
  <2>2. BecomeFocused(Lower(c, focus)) /\ focus \in Shown(S)
    BY <1>4, FocusIsShown DEF LowerFocus
  <2> HIDE DEF c
  <2>3. focus \in Shown(c)
    BY <2>1, <2>2, SameViewsStay
  <2> QED
    BY <1>1, <2>1, <2>2, <2>3, LowerGood, BecomeFocusedKeeps
<1>5. CASE RaiseGroup
  BY <1>1, <1>5, FocusIsShown, GroupRaiseKeeps, BecomeKeeps DEF RaiseGroup
<1>6. CASE LowerGroup
  BY <1>1, <1>6, FocusIsShown, GroupLowerKeeps, BecomeFocusedKeeps DEF LowerGroup
<1> QED
  BY <1>2, <1>3, <1>4, <1>5, <1>6

LEMMA HideStep ==
  ASSUME IInv, HideView \/ HideGroup \/ OnlyView \/ OnlyGroup
  PROVE  IInv'
<1>1. Good(S) /\ outputs \in SUBSET Output /\ outputs' \in SUBSET Output
  BY DEF IInv, HideView, HideGroup, OnlyView, OnlyGroup
<1>2. focus \in Shown(S) /\ group_of[focus] \in Group /\ OutputOf(S, focus) \in Output
  BY FocusIsShown DEF HideView, HideGroup, OnlyView, OnlyGroup
<1>3. CASE HideView
  BY <1>1, <1>2, <1>3, HideKeeps, BecomeFocusedKeeps DEF HideView
<1>4. CASE HideGroup
  <2> DEFINE list == visible_group_views[group_of[focus]]
  <2>1. BecomeFocused(Each(Hide, S, list))
    BY <1>4 DEF HideGroup
  <2>2. list = S.visible_group_views[S.group_of[focus]]
    BY Fields
  <2> HIDE DEF list
  <2>3. list \in Seq(View) /\ IsInjective(list) /\ ToSet(list) \subseteq Shown(S)
    BY <1>1, <1>2, <2>2, GroupOf
  <2> QED
    BY <1>1, <2>1, <2>3, HideEachKeeps, BecomeFocusedKeeps
<1>5. CASE OnlyView
  <2> DEFINE o == OutputOf(S, focus)
             whole == workspace_views[o]
             list == RemoveFirst(whole, focus)
  <2>1. BecomeFocused(Each(Hide, S, list))
    BY <1>5 DEF OnlyView
  <2>2. whole = S.workspace_views[o]
    BY Fields
  <2>3. o \in Output
    BY <1>2
  <2> HIDE DEF list, whole, o
  <2>4. Holds(whole, {w \in Shown(S) : OutputOf(S, w) = o})
    BY <1>1, <2>2, <2>3, ListsHold DEF Good
  <2>5. whole \in Seq(View) /\ IsInjective(whole) /\ ToSet(whole) \subseteq Shown(S)
    BY <2>4 DEF Holds
  <2>6. list \in Seq(View) /\ IsInjective(list) /\ ToSet(list) \subseteq Shown(S)
    BY <2>5, RemoveFirstIsList DEF list
  <2> QED
    BY <1>1, <2>1, <2>6, HideEachKeeps, BecomeFocusedKeeps
<1>6. CASE OnlyGroup
  BY <1>1, <1>2, <1>6, ShowOnlyGroupKeeps, BecomeFocusedKeeps DEF OnlyGroup
<1> QED
  BY <1>3, <1>4, <1>5, <1>6

(* The places of the lists are written in another order than RaiseView does. *)
LEMMA RaisedEitherWay ==
  ASSUME NEW s, NEW v \in Shown(s), Core(s, {v}, {v})
  PROVE  MoveToTop(PlaceVisiblyAbove(s, v, OutputOf(s, v)), v) = RaiseView(s, v)
<1> DEFINE g == s.group_of[v]
           m == MoveToTop(s, v)
           L == GroupsOf(s, {})
           N == LinkedNext(Unlinked(s.next, s.prev, g), Root, g)
           P == LinkedPrev(Unlinked(s.next, s.prev, g), Unlinked(s.prev, s.next, g), Root, g)
           A == <<v>> \o RemoveFirst(s.visible_views, v)
           B == AtHead(s.visible_group_views, g, v)
           C == AtHead(s.workspace_views, OutputOf(s, v), v)
           D == AtHead(s.sheet_views, s.sheet_of[v], v)
           E == AtHead(s.group_views, g, v)
           F == AtHead(s.output_views, OutputOf(s, v), v)
           G == s.stale \ {v}
<1>1. s \in States /\ Placed(s) /\ Linked(s, L) /\ v \notin s.hidden
  BY DEF Core, Shown
<1>2. g \in Group /\ g \in L /\ Root \in Places
  BY <1>1, GroupIsLinked DEF Places
<1>3. ASSUME NEW t \in States, t.next = s.next, t.prev = s.prev, t.cut = s.cut
      PROVE  LinkAfter(Unlink(t, g), Root, g) = [t EXCEPT !.next = N, !.prev = P]
  <2> DEFINE u == Unlink(t, g)
  <2>1. Linked(t, L)
    BY <1>1, <1>3, LinkedStays
  <2> HIDE DEF L
  <2>2. /\ u = [t EXCEPT !.next = Unlinked(t.next, t.prev, g), !.prev = Unlinked(t.prev, t.next, g)]
        /\ u \in States /\ Linked(u, L \ {g})
    BY <1>2, <1>3, <2>1, UnlinkKeeps
  <2> HIDE DEF u
  <2> DEFINE K == L \ {g}
  <2>3. g \notin K /\ Linked(u, K) /\ u \in States
    BY <2>2
  <2> HIDE DEF K, g
  <2>4. LinkAfter(u, Root, g) = [u EXCEPT !.next = LinkedNext(u.next, Root, g),
                                          !.prev = LinkedPrev(u.next, u.prev, Root, g)]
    BY <1>2, <2>3, LinkAfterKeeps
  <2>5. u.next = Unlinked(s.next, s.prev, g) /\ u.prev = Unlinked(s.prev, s.next, g)
    BY <1>3, <2>2 DEF States
  <2>6. LinkAfter(u, Root, g) = [u EXCEPT !.next = N, !.prev = P]
    BY <2>4, <2>5
  <2> HIDE DEF N, P
  <2>7. [u EXCEPT !.next = N, !.prev = P] = [t EXCEPT !.next = N, !.prev = P]
    BY <1>3, <2>2 DEF States
  <2> QED
    BY <2>6, <2>7 DEF u
<1>4. m = [s EXCEPT !.sheet_views = D, !.group_views = E, !.output_views = F, !.stale = G]
  BY <1>1 DEF MoveToTop, States
<1>5. m \in States
  <2>1. PICK r, lo, hi : Ordered(s, {v}, {v}, r, lo, hi)
    BY DEF Core, InLists
  <2>2. TopOfAll(s, m, v) /\ SameViews(s, m)
    BY <1>1, <1>4 DEF TopOfAll, States, SameViews
  <2>3. v \in Mapped(s)
    BY DEF Shown
  <2>4. {v} \subseteq {v}
    OBVIOUS
  <2> HIDE DEF m
  <2>5. AllTyped(m)
    BY <1>1, <2>1, <2>2, <2>3, <2>4, ToTopOfAll DEF Ordered
  <2>6. G \in SUBSET View
    BY <1>1 DEF States
  <2> HIDE DEF D, E, F, G
  <2> QED
    BY <1>1, <1>4, <2>5, <2>6 DEF States, AllTyped
<1>6. m.next = s.next /\ m.prev = s.prev /\ m.cut = s.cut /\ m.hidden = s.hidden
      /\ m.group_of = s.group_of /\ m.sheet_of = s.sheet_of
  BY <1>1, <1>4 DEF States
<1> HIDE DEF N, P
<1>7. LinkAfter(Unlink(m, g), Root, g) = [m EXCEPT !.next = N, !.prev = P]
  BY <1>3, <1>5, <1>6
<1>8. LinkAfter(Unlink(s, g), Root, g) = [s EXCEPT !.next = N, !.prev = P]
  BY <1>1, <1>3
<1> DEFINE Whole == [s EXCEPT !.next = N, !.prev = P, !.visible_views = A,
                       !.visible_group_views = B, !.workspace_views = C,
                       !.sheet_views = D, !.group_views = E, !.output_views = F,
                       !.stale = G]
<1>9. RaiseView(s, v) = Whole
  <2>1. RaiseView(s, v) = [[m EXCEPT !.next = N, !.prev = P] EXCEPT
                             !.visible_views = <<v>> \o RemoveFirst(@, v),
                             !.visible_group_views = AtHead(@, g, v),
                             !.workspace_views = AtHead(@, OutputOf(s, v), v)]
    BY <1>1, <1>6, <1>7 DEF RaiseView, PlaceVisiblyAbove
  <2>2. m.visible_views = s.visible_views /\ m.visible_group_views = s.visible_group_views
        /\ m.workspace_views = s.workspace_views
    BY <1>1, <1>4 DEF States
  <2>3. RaiseView(s, v) = [m EXCEPT !.next = N, !.prev = P, !.visible_views = A,
                             !.visible_group_views = B, !.workspace_views = C]
    BY <1>5, <2>1, <2>2 DEF States
  <2> HIDE DEF A, B, C, D, E, F, G, m
  <2> QED
    BY <1>1, <1>4, <2>3 DEF States
<1>10. MoveToTop(PlaceVisiblyAbove(s, v, OutputOf(s, v)), v) = Whole
  <2> DEFINE p == PlaceVisiblyAbove(s, v, OutputOf(s, v))
  <2>1. p = [[s EXCEPT !.next = N, !.prev = P] EXCEPT
               !.visible_views = <<v>> \o RemoveFirst(@, v),
               !.visible_group_views = AtHead(@, g, v),
               !.workspace_views = AtHead(@, OutputOf(s, v), v)]
    BY <1>1, <1>8 DEF PlaceVisiblyAbove
  <2> HIDE DEF p
  <2>2. p = [s EXCEPT !.next = N, !.prev = P, !.visible_views = A,
               !.visible_group_views = B, !.workspace_views = C]
    BY <1>1, <2>1 DEF States
  <2>3. p.sheet_of = s.sheet_of /\ p.group_of = s.group_of /\ p.sheet_views = s.sheet_views
        /\ p.group_views = s.group_views /\ p.output_views = s.output_views
        /\ p.stale = s.stale
    BY <1>1, <2>2 DEF States
  <2>4. OutputOf(p, v) = OutputOf(s, v)
    BY <2>3 DEF OutputOf
  <2>5. MoveToTop(p, v) = [p EXCEPT !.sheet_views = AtHead(p.sheet_views, s.sheet_of[v], v),
                                    !.group_views = AtHead(p.group_views, s.group_of[v], v),
                                    !.output_views = AtHead(p.output_views, OutputOf(s, v), v),
                                    !.stale = p.stale \ {v}]
    <3> HIDE DEF A, B, C
    <3>1. DOMAIN p = DOMAIN s
      BY <1>1, <2>2 DEF States
    <3> QED
      BY <1>1, <2>2, <2>3, <2>4, <3>1 DEF MoveToTop, States
  <2>6. MoveToTop(p, v) = [p EXCEPT !.sheet_views = D, !.group_views = E, !.output_views = F,
                                    !.stale = G]
    BY <2>3, <2>5
  <2> HIDE DEF A, B, C, D, E, F, G
  <2>7. MoveToTop(p, v) = Whole
    BY <1>1, <2>2, <2>6 DEF States
  <2> QED
    BY <2>7 DEF p
<1> QED
  BY <1>9, <1>10

(* A view that is pinned and waits: it has another sheet of its output, but *)
(* the lists of all views are left as they were.                           *)
Left(s, t, v, sheet) ==
  /\ t.sheet_views = s.sheet_views /\ t.output_views = s.output_views
  /\ t.group_views = s.group_views /\ t.stale = s.stale \cup {v}
  /\ t.group_of = s.group_of /\ t.hidden = s.hidden
  /\ t.sheet_of = [s.sheet_of EXCEPT ![v] = sheet]

LEMMA LeftPlaces ==
  ASSUME NEW s \in States, Placed(s), NEW v \in Mapped(s), NEW sheet \in SheetId,
         sheet[1] = OutputOf(s, v), NEW t, Left(s, t, v, sheet)
  PROVE  /\ Mapped(t) = Mapped(s) /\ Shown(t) = Shown(s) /\ OutputsOf(t) = OutputsOf(s)
         /\ \A w \in View : OutputOf(t, w) = OutputOf(s, w)
         /\ Placed(t) /\ \A X : GroupsOf(t, X) = GroupsOf(s, X)
<1>1. Mapped(t) = Mapped(s) /\ Shown(t) = Shown(s) /\ \A X : GroupsOf(t, X) = GroupsOf(s, X)
  BY DEF Left, Mapped, Shown, GroupsOf
<1>2. \A w \in View : t.sheet_of[w] = IF w = v THEN sheet ELSE s.sheet_of[w]
  BY DEF Left, States
<1>3. \A w \in View : OutputOf(t, w) = OutputOf(s, w)
  BY <1>2 DEF OutputOf
<1>4. OutputsOf(t) = OutputsOf(s)
  BY <1>3 DEF OutputsOf
<1>5. sheet # NULL /\ v \in View /\ s.group_of[v] # NULL
  BY NamesAssumption DEF SheetId, Mapped
<1>6. Placed(t)
  BY <1>2, <1>5 DEF Left, Placed
<1> QED
  BY <1>1, <1>3, <1>4, <1>6

LEMMA LeftInAll ==
  ASSUME NEW s \in States, Placed(s), NEW v \in Mapped(s), NEW sheet \in SheetId,
         sheet[1] = OutputOf(s, v), NEW t, Left(s, t, v, sheet),
         NEW r, NEW lo, NEW hi, InAll(s, {}, r, lo, hi), NEW q, \A w \in View \ {v} : q[w] = r[w]
  PROVE  InAll(t, {}, q, lo, hi)
<1>1. PICK p, k : /\ Ranks(p, lo, hi) /\ k \in [View -> SheetId \cup {NULL}]
                  /\ Stands(s, {}, p, k, r) /\ AllAt(s, {}, p, k)
  BY DEF InAll
<1>2. /\ Mapped(t) = Mapped(s) /\ OutputsOf(t) = OutputsOf(s)
      /\ \A w \in View : OutputOf(t, w) = OutputOf(s, w)
  BY LeftPlaces
<1>3. AllAt(t, {}, p, k)
  BY <1>1, <1>2 DEF AllAt, Left
<1>4. t.stale = s.stale \cup {v} /\ \A w \in View \ {v} : t.sheet_of[w] = s.sheet_of[w]
  BY DEF Left, States
<1>5. v \in View /\ s.sheet_of[v] \in SheetId
  BY MappedHasPlace
<1>6. StandsAt(t, v, p, k, q)
  <2>1. StandsAt(s, v, p, k, r)
    BY <1>1, <1>5 DEF Stands
  <2>2. k[v] \in SheetId /\ k[v][1] = OutputOf(s, v)
    BY <1>5, <2>1 DEF StandsAt, OutputOf
  <2> QED
    BY <1>2, <1>4, <1>5, <2>2 DEF StandsAt
<1>7. ASSUME NEW w \in View \ {v} PROVE StandsAt(t, w, p, k, q)
  <2>1. StandsAt(s, w, p, k, r)
    BY <1>1 DEF Stands
  <2>2. /\ w \in t.stale <=> w \in s.stale
        /\ t.sheet_of[w] = s.sheet_of[w] /\ q[w] = r[w] /\ OutputOf(t, w) = OutputOf(s, w)
    BY <1>2, <1>4
  <2> QED
    BY <1>2, <2>1, <2>2 DEF StandsAt
<1>8. Stands(t, {}, p, k, q)
  BY <1>6, <1>7 DEF Stands
<1> QED
  BY <1>1, <1>3, <1>8 DEF InAll

LEMMA MoreRoom ==
  ASSUME NEW s, NEW X, NEW r, NEW lo \in Int, NEW hi \in Int, InAll(s, X, r, lo, hi)
  PROVE  InAll(s, X, r, lo - 1, hi)
<1>1. PICK p, k : /\ Ranks(p, lo, hi) /\ k \in [View -> SheetId \cup {NULL}]
                  /\ Stands(s, X, p, k, r) /\ AllAt(s, X, p, k)
  BY DEF InAll
<1>2. Ranks(p, lo - 1, hi)
  BY <1>1 DEF Ranks, Lowest
<1> QED
  BY <1>1, <1>2 DEF InAll

(* It is hidden and stays so.                                               *)
LEMMA LeftHidden ==
  ASSUME NEW s, Good(s), NEW v \in Mapped(s), v \in s.hidden, NEW sheet \in SheetId,
         sheet[1] = OutputOf(s, v)
  PROVE  Good([[s EXCEPT !.sheet_of[v] = sheet] EXCEPT !.stale = @ \cup {v}])
<1> DEFINE z == [[s EXCEPT !.sheet_of[v] = sheet] EXCEPT !.stale = @ \cup {v}]
<1>1. /\ s \in States /\ Placed(s) /\ NotFailed(s) /\ FocusFits(s) /\ InLists(s, {}, {})
      /\ Linked(s, GroupsOf(s, {}))
  BY DEF Good, Core
<1>2. v \in View
  BY DEF Mapped
<1>3. /\ z \in States /\ Left(s, z, v, sheet) /\ SameLinks(s, z) /\ z.focus = s.focus
      /\ z.mode = s.mode /\ z.fault = s.fault /\ z.workspace_views = s.workspace_views
      /\ z.visible_views = s.visible_views /\ z.visible_group_views = s.visible_group_views
  BY <1>1, <1>2 DEF States, Left, SameLinks
<1> HIDE DEF z
<1>4. /\ Mapped(z) = Mapped(s) /\ Shown(z) = Shown(s) /\ OutputsOf(z) = OutputsOf(s)
      /\ Placed(z) /\ GroupsOf(z, {}) = GroupsOf(s, {})
  BY <1>1, <1>3, LeftPlaces
<1>5. PICK r, lo, hi : Ordered(s, {}, {}, r, lo, hi)
  BY <1>1 DEF InLists
<1>6. InAll(z, {}, r, lo, hi)
  <2>1. InAll(s, {}, r, lo, hi) /\ \A w \in View \ {v} : r[w] = r[w]
    BY <1>5 DEF Ordered
  <2> QED
    BY <1>1, <1>3, <2>1, LeftInAll
<1>7. InVisible(z, {}, r)
  BY <1>3, <1>4, <1>5 DEF Ordered, InVisible, Left
<1>8. Ordered(z, {}, {}, r, lo, hi)
  BY <1>5, <1>6, <1>7 DEF Ordered
<1>9. Linked(z, GroupsOf(z, {})) /\ NotFailed(z) /\ FocusFits(z)
  BY <1>1, <1>3, <1>4, LinkedStays, FocusStays DEF SameLinks, NotFailed
<1>10. Good(z)
  BY <1>3, <1>4, <1>8, <1>9 DEF Good, Core, InLists
<1> QED
  BY <1>10 DEF z

(* It is shown: the lists of visible views have it on top.                  *)
LEMMA LeftShown ==
  ASSUME NEW s, Good(s), NEW v \in Shown(s), NEW sheet \in SheetId, sheet[1] = OutputOf(s, v)
  PROVE  LET p == PlaceVisiblyAbove([s EXCEPT !.sheet_of[v] = sheet], v, sheet[1])
         IN  Good([p EXCEPT !.stale = @ \cup {v}]) /\ v \in Mapped([p EXCEPT !.stale = @ \cup {v}])
<1> DEFINE a == [s EXCEPT !.sheet_of[v] = sheet]
           g == s.group_of[v]
           L == GroupsOf(s, {})
           w == LinkAfter(Unlink(a, g), Root, g)
           p == PlaceVisiblyAbove(a, v, sheet[1])
           z == [p EXCEPT !.stale = @ \cup {v}]
<1>1. /\ s \in States /\ Placed(s) /\ NotFailed(s) /\ FocusFits(s) /\ InLists(s, {}, {})
      /\ Linked(s, L)
  BY DEF Good, Core
<1>2. v \in Mapped(s) /\ g \in Group /\ g \in L /\ v \in View /\ v \notin s.hidden
  BY <1>1, GroupIsLinked DEF Shown, Mapped
<1>3. /\ a \in States /\ SameLists(s, a) /\ a.group_of = s.group_of /\ a.hidden = s.hidden
      /\ a.sheet_of = [s.sheet_of EXCEPT ![v] = sheet] /\ a.focus = s.focus /\ a.mode = s.mode
      /\ a.fault = s.fault
  BY <1>1, <1>2 DEF States, SameLists, SameShelves, SameLinks
<1> HIDE DEF a, L
<1>4. Linked(a, L)
  BY <1>1, <1>3, LinkedStays DEF SameLists, SameLinks
<1>5. w \in States /\ w = [a EXCEPT !.next = w.next, !.prev = w.prev] /\ Linked(w, L)
  <2>1. a \in States /\ Linked(a, L) /\ g \in Group /\ g \in L
    BY <1>2, <1>3, <1>4
  <2> HIDE DEF g
  <2> QED
    BY <2>1, LinkedAgain
<1> DEFINE A == <<v>> \o RemoveFirst(s.visible_views, v)
           B == AtHead(s.visible_group_views, g, v)
           C == AtHead(s.workspace_views, OutputOf(s, v), v)
<1> HIDE DEF w
<1>6. /\ w.visible_views = s.visible_views /\ w.visible_group_views = s.visible_group_views
      /\ w.workspace_views = s.workspace_views /\ w.sheet_views = s.sheet_views
      /\ w.output_views = s.output_views /\ w.group_views = s.group_views /\ w.stale = s.stale
      /\ w.sheet_of = a.sheet_of /\ w.group_of = s.group_of /\ w.hidden = s.hidden
      /\ w.focus = s.focus /\ w.mode = s.mode /\ w.fault = s.fault /\ w.cut = s.cut
  BY <1>3, <1>5 DEF States, SameLists, SameShelves, SameLinks
<1>7. p = [w EXCEPT !.visible_views = A, !.visible_group_views = B, !.workspace_views = C]
  <2>1. p = [w EXCEPT !.visible_views = <<v>> \o RemoveFirst(@, v),
                      !.visible_group_views = AtHead(@, g, v),
                      !.workspace_views = AtHead(@, sheet[1], v)]
    BY <1>2, <1>3 DEF PlaceVisiblyAbove, w
  <2> HIDE DEF p
  <2> QED
    BY <1>5, <1>6, <2>1 DEF States
<1> HIDE DEF p
<1>8. z = [w EXCEPT !.visible_views = A, !.visible_group_views = B, !.workspace_views = C,
                    !.stale = s.stale \cup {v}]
  <2>1. p.stale = s.stale
    BY <1>5, <1>6, <1>7 DEF States
  <2> HIDE DEF A, B, C
  <2> QED
    BY <1>5, <1>7, <2>1 DEF States
<1> HIDE DEF z, A, B, C
<1>9. /\ z.visible_views = A /\ z.visible_group_views = B /\ z.workspace_views = C
      /\ z.sheet_views = s.sheet_views /\ z.output_views = s.output_views
      /\ z.group_views = s.group_views /\ z.stale = s.stale \cup {v}
      /\ z.sheet_of = [s.sheet_of EXCEPT ![v] = sheet] /\ z.group_of = s.group_of
      /\ z.hidden = s.hidden /\ z.focus = s.focus /\ z.mode = s.mode /\ z.fault = s.fault
      /\ z.cut = s.cut /\ z.next = w.next /\ z.prev = w.prev
  BY <1>3, <1>5, <1>6, <1>8 DEF States
<1>10. Left(s, z, v, sheet) /\ TopOfVisible(s, z, v)
  BY <1>9 DEF Left, TopOfVisible, A, B, C
<1>11. /\ Mapped(z) = Mapped(s) /\ Shown(z) = Shown(s) /\ OutputsOf(z) = OutputsOf(s)
       /\ OutputOf(z, v) = OutputOf(s, v) /\ Placed(z) /\ GroupsOf(z, {}) = L
  BY <1>1, <1>2, <1>10, LeftPlaces DEF L
<1>12. PICK r, lo, hi : Ordered(s, {}, {}, r, lo, hi)
  BY <1>1 DEF InLists
<1>13. /\ r \in [View -> Int] /\ lo \in Int /\ hi \in Int /\ Lowest(lo, View, r)
       /\ Highest(hi, View, r) /\ InAll(s, {}, r, lo, hi) /\ InVisible(s, {}, r)
  BY <1>12 DEF Ordered
<1> DEFINE q == [r EXCEPT ![v] = lo]
<1>14. VisibleTyped(z) /\ InVisible(z, {}, q)
  <2> DEFINE b == [s EXCEPT !.workspace_views = C, !.visible_group_views = B, !.visible_views = A]
  <2>1. /\ SameViews(s, b) /\ TopOfVisible(s, b, v)
        /\ b.workspace_views = C /\ b.visible_group_views = B /\ b.visible_views = A
    BY <1>1 DEF States, SameViews, TopOfVisible, A, B, C
  <2> HIDE DEF b
  <2>2. {} \subseteq {v}
    OBVIOUS
  <2>3. VisibleTyped(b) /\ InVisible(b, {}, [r EXCEPT ![v] = lo])
    BY <1>1, <1>13, <2>1, <2>2, ToTopOfVisible
  <2>4. Shown(b) = Shown(s) /\ OutputsOf(b) = OutputsOf(s) /\ b.group_of = s.group_of
    BY <2>1, SameViewsStay DEF SameViews
  <2> HIDE DEF q
  <2>5. InVisible(b, {}, q)
    BY <2>3 DEF q
  <2> QED
    BY <1>9, <1>11, <2>1, <2>3, <2>4, <2>5 DEF InVisible, VisibleTyped
<1>15. q \in [View -> Int] /\ Lowest(lo - 1, View, q) /\ Highest(hi, View, q) /\ lo - 1 \in Int
  <2>1. r \in [View -> Int] /\ lo \in Int /\ hi \in Int /\ Lowest(lo, View, r) /\ Highest(hi, View, r)
    BY <1>13
  <2>2. /\ [r EXCEPT ![v] = lo] \in [View -> Int] /\ Lowest(lo - 1, View, [r EXCEPT ![v] = lo])
        /\ Highest(hi, View, [r EXCEPT ![v] = lo])
    BY <1>2, <2>1, RoomAbove
  <2> QED
    BY <2>1, <2>2
<1>16. \A x \in View \ {v} : q[x] = r[x]
  BY <1>13
<1> HIDE DEF q
<1>17. InAll(z, {}, q, lo - 1, hi)
  <2>1. InAll(z, {}, q, lo, hi)
    BY <1>1, <1>2, <1>10, <1>13, <1>16, LeftInAll
  <2> QED
    BY <1>13, <2>1, MoreRoom
<1>18. Ordered(z, {}, {}, q, lo - 1, hi)
  BY <1>13, <1>14, <1>15, <1>17 DEF Ordered
<1>19. z \in States
  <2>1. s.stale \cup {v} \in SUBSET View
    BY <1>1, <1>2 DEF States
  <2>2. /\ A \in Seq(View) /\ B \in [Group -> Seq(View)] /\ C \in [Output -> Seq(View)]
    BY <1>9, <1>14 DEF VisibleTyped
  <2> QED
    BY <1>5, <1>8, <2>1, <2>2 DEF States
<1>20. Linked(z, L)
  BY <1>5, <1>6, <1>9, LinkedStays
<1>21. NotFailed(z) /\ FocusFits(z)
  BY <1>1, <1>9, <1>11, FocusStays DEF NotFailed
<1>22. Good(z) /\ v \in Mapped(z)
  BY <1>2, <1>11, <1>18, <1>19, <1>20, <1>21 DEF Good, Core, InLists
<1> QED
  BY <1>22 DEF z, p, a

LEMMA SettledKeeps ==
  ASSUME NEW s, NEW v, Good(MoveToTop(s, v)), Good([s EXCEPT !.stale = @ \cup {v}]),
         v \in Mapped([s EXCEPT !.stale = @ \cup {v}]), NEW t \in Settled(s, v)
  PROVE  Good(t)
<1> DEFINE left == [s EXCEPT !.stale = @ \cup {v}]
<1>1. t = MoveToTop(s, v) \/ t = left \/ t \in Committed(left, v)
  BY DEF Settled
<1>2. Good(left) /\ v \in Mapped(left)
  OBVIOUS
<1> HIDE DEF left
<1>3. ASSUME t \in Committed(left, v) PROVE Good(t)
  BY <1>2, <1>3, CommittedKeeps
<1> QED
  BY <1>1, <1>2, <1>3

LEMMA PinStep ==
  ASSUME IInv, NEW n \in Sheet, PinToSheet(n)
  PROVE  IInv'
<1> DEFINE v == focus
           sheet == <<OutputOf(S, v), n>>
           moved == [S EXCEPT !.sheet_of[v] = sheet]
           placed == PlaceVisiblyAbove(moved, v, sheet[1])
<1>1. Good(S) /\ Core(S, {}, {}) /\ S \in States /\ outputs' \in SUBSET Output
  BY DEF IInv, PinToSheet, Good, Core
<1>2. v \in Shown(S) /\ v \in View /\ v \in Mapped(S) /\ OutputOf(S, v) \in Output
  BY FocusIsShown DEF PinToSheet, Shown
<1>3. sheet \in SheetId /\ sheet[1] = OutputOf(S, v)
  BY <1>2 DEF SheetId
<1>4. \/ Become(Raise(S, v))
      \/ \E t \in Refocused(Hide(S, v)) : Become(MoveToTop(t, v))
      \/ \E t \in Settled(placed, v) : Become(t)
      \/ \E t \in Refocused(Hide(S, v)) :
           \E u \in Settled([t EXCEPT !.sheet_of[v] = sheet], v) : Become(u)
  BY DEF PinToSheet
<1>5. ASSUME NEW t \in Refocused(Hide(S, v))
      PROVE  Good(t) /\ v \in Mapped(t) /\ v \in t.hidden /\ t.sheet_of = S.sheet_of
  <2>1. Good(Hide(S, v)) /\ Conceals(S, Hide(S, v), v)
    BY <1>1, <1>2, HideKeeps
  <2>2. Good(t) /\ SameViews(Hide(S, v), t)
    BY <1>5, <2>1, RefocusedKeeps
  <2> QED
    BY <1>2, <2>1, <2>2 DEF Conceals, SameViews, Mapped
<1> HIDE DEF v
<1>6. CASE Become(Raise(S, v))
  BY <1>1, <1>2, <1>6, RaiseGood, BecomeKeeps
<1>7. CASE \E t \in Refocused(Hide(S, v)) : Become(MoveToTop(t, v))
  BY <1>1, <1>5, <1>7, MoveToTopGood, BecomeKeeps
<1>8. CASE \E t \in Settled(placed, v) : Become(t)
  <2>1. PICK t \in Settled(placed, v) : Become(t)
    BY <1>8
  <2>2. /\ moved \in States /\ SameLists(S, moved) /\ moved.hidden = S.hidden
        /\ moved.sheet_of = [S.sheet_of EXCEPT ![v] = sheet] /\ moved.group_of = S.group_of
        /\ moved.fault = S.fault
    <3> HIDE DEF sheet
    <3> QED
      BY <1>1, <1>3 DEF States, SameLists, SameShelves, SameLinks
  <2>3. OutputOf(moved, v) = OutputOf(S, v)
    BY <1>1, <1>2, <2>2 DEF OutputOf, States
  <2>4. \A w \in View : moved.sheet_of[w] = IF w = v THEN sheet ELSE S.sheet_of[w]
    BY <1>1, <2>2 DEF States
  <2> HIDE DEF moved, sheet
  <2>5. /\ OthersSame(S, moved, v) /\ Placed(moved) /\ NotFailed(moved) /\ v \in Shown(moved)
    <3>1. sheet # NULL
      BY <1>3, NamesAssumption DEF SheetId
    <3> QED
      BY <1>1, <1>2, <2>2, <2>4, <3>1 DEF OthersSame, Placed, NotFailed, Shown, Mapped, Good, Core
  <2>6. Core(moved, {v}, {v})
    BY <1>1, <1>2, <2>2, <2>5, ShownMoved
  <2>7. MoveToTop(placed, v) = RaiseView(moved, v)
    BY <1>3, <2>3, <2>5, <2>6, RaisedEitherWay
  <2>8. Good(RaiseView(moved, v))
    <3>1. Core(RaiseView(moved, v), {}, {}) /\ (FocusFits(S) => FocusFits(RaiseView(moved, v)))
      BY <1>1, <1>2, <1>3, MoveShown DEF moved
    <3> QED
      BY <1>1, <3>1 DEF Good
  <2> DEFINE left == [placed EXCEPT !.stale = @ \cup {v}]
  <2>9. Good(left) /\ v \in Mapped(left)
    BY <1>1, <1>2, <1>3, LeftShown DEF moved
  <2>10. Good(MoveToTop(placed, v))
    BY <2>7, <2>8
  <2> HIDE DEF placed
  <2>11. Good(t)
    BY <2>1, <2>9, <2>10, SettledKeeps
  <2> QED
    BY <1>1, <2>1, <2>11, BecomeKeeps
<1>9. CASE \E t \in Refocused(Hide(S, v)) :
             \E u \in Settled([t EXCEPT !.sheet_of[v] = sheet], v) : Become(u)
  <2>1. PICK t \in Refocused(Hide(S, v)) :
               \E u \in Settled([t EXCEPT !.sheet_of[v] = sheet], v) : Become(u)
    BY <1>9
  <2>2. Good(t) /\ Core(t, {}, {}) /\ FocusFits(t) /\ v \in Mapped(t) /\ v \in t.hidden
        /\ OutputOf(t, v) = OutputOf(S, v)
    BY <1>5 DEF Good, OutputOf
  <2>3. sheet[1] = OutputOf(t, v)
    BY <1>3, <2>2
  <2> HIDE DEF sheet
  <2> DEFINE a == [t EXCEPT !.sheet_of[v] = sheet]
             left == [a EXCEPT !.stale = @ \cup {v}]
  <2>4. PICK u \in Settled(a, v) : Become(u)
    BY <2>1
  <2>5. /\ Core(MoveToTop(a, v), {}, {})
        /\ (FocusFits(t) => FocusFits(MoveToTop(a, v)))
    BY <1>3, <2>2, MoveMapped
  <2>6. Good(left)
    BY <1>3, <2>2, <2>3, LeftHidden
  <2>7. v \in Mapped(left)
    BY <2>2 DEF Mapped, Good, Core, States
  <2> HIDE DEF a
  <2>8. Good(MoveToTop(a, v))
    BY <2>2, <2>5 DEF Good
  <2>9. Good(u)
    BY <2>4, <2>6, <2>7, <2>8, SettledKeeps
  <2> QED
    BY <1>1, <2>4, <2>9, BecomeKeeps
<1> QED
  BY <1>4, <1>6, <1>7, <1>8, <1>9

LEMMA MigrateStep ==
  ASSUME IInv, NEW o \in Output, Migrate(o)
  PROVE  IInv'
<1> DEFINE v == focus
           sheet == <<o, current[o]>>
           h == HideInLists(S, v)
           t == [h EXCEPT !.sheet_of[v] = sheet]
           m == MoveToTop(t, v)
           z == Show(m, v)
<1>1. Good(S) /\ Core(S, {}, {}) /\ S \in States /\ outputs' \in SUBSET Output
  BY DEF IInv, Migrate, Good, Core
<1>2. v \in Shown(S) /\ v \in View /\ v \in Mapped(S) /\ v = S.focus /\ v # NULL
  BY FocusIsShown, Fields, NamesAssumption DEF Migrate, Shown
<1>3. sheet \in SheetId
  <2>1. S.current[o] \in Sheet
    BY <1>1 DEF States
  <2> QED
    BY <2>1, Fields DEF SheetId
<1>4. Become(z)
  BY DEF Migrate
<1> HIDE DEF v, sheet
<1>5. Core(h, {}, {}) /\ Hides(S, h, v)
  BY <1>1, <1>2, HideInListsKeeps
<1> HIDE DEF h
<1>6. v \in Mapped(h) /\ v \in h.hidden /\ h \in States /\ h.focus = v
  BY <1>2, <1>5 DEF Hides, SameRest, Mapped, Core
<1>7. Core(m, {}, {}) /\ m.group_of = h.group_of /\ m.hidden = h.hidden
  BY <1>3, <1>5, <1>6, MoveMapped
<1>8. m.focus = v
  <2>1. t \in [sheet_of : {t.sheet_of}, group_of : {t.group_of}, hidden : {t.hidden},
               stale : {t.stale}, sheet_views : {t.sheet_views}, output_views : {t.output_views},
               group_views : {t.group_views}, visible_views : {t.visible_views},
               workspace_views : {t.workspace_views},
               visible_group_views : {t.visible_group_views}, next : {t.next},
               prev : {t.prev}, current : {t.current}, focus : {v}, cycling : {t.cycling},
               mode : {t.mode}, typed : {t.typed}, cut : {t.cut}, fault : {t.fault}]
    BY <1>6 DEF States
  <2> HIDE DEF t
  <2> QED
    BY <2>1 DEF MoveToTop
<1> HIDE DEF m
<1>9. Core(z, {}, {}) /\ Shows(m, z, v)
  <2>1. v \in Mapped(m) /\ v \in m.hidden
    BY <1>6, <1>7 DEF Mapped
  <2> QED
    BY <1>7, <2>1, ShowKeeps
<1> HIDE DEF z
<1>10. FocusFits(z)
  <2>1. z.focus = v /\ z.group_of = h.group_of /\ v \notin z.hidden
    BY <1>7, <1>8, <1>9 DEF Shows, SameRest
  <2>2. v \in Shown(z)
    BY <1>6, <2>1 DEF Shown, Mapped
  <2> QED
    BY <1>2, <2>1, <2>2 DEF FocusFits
<1> QED
  BY <1>1, <1>4, <1>9, <1>10, BecomeKeeps DEF Good

(* Keys about the workspace.                                                *)
LEMMA WorkspaceStep ==
  ASSUME IInv, WorkspaceKeys
  PROVE  IInv'
<1>1. /\ Good(S) /\ outputs \in SUBSET Output /\ S \in States /\ Core(S, {}, {})
  BY DEF IInv, Good, Core
<1>2. outputs' \in SUBSET Output
  BY <1>1 DEF WorkspaceKeys, ClearWorkspace, ShowGroup, ShowGroupOfSheet, ShowAll, ShowSheet, DisplaySheet
<1>3. ASSUME NEW o \in Output
      PROVE  <<o, current[o]>> \in SheetId
  <2>1. S.current[o] \in Sheet
    BY <1>1 DEF States
  <2> QED
    BY <2>1, Fields DEF SheetId
<1>4. ASSUME NEW s, Good(s), NEW o \in Output, NEW sheet \in SheetId, NEW chosen
      PROVE  /\ Good(ShowOnWorkspace(s, o, s.output_views[o], chosen))
             /\ Good(ShowOnWorkspace(s, o, s.sheet_views[sheet], chosen))
  <2> DEFINE M == {w \in Mapped(s) : OutputOf(s, w) = o}
             N == ToSet(s.sheet_views[sheet])
  <2>1. Holds(s.output_views[o], M) /\ Holds(s.sheet_views[sheet], N)
    BY <1>4, ListsHold DEF Good
  <2>2. M \subseteq Mapped(s) /\ N \subseteq Mapped(s)
    BY <1>4, ListsHold DEF Good
  <2> HIDE DEF M, N
  <2> QED
    BY <1>4, <2>1, <2>2, ShowOnWorkspaceKeeps
<1>5. CASE ClearWorkspace
  <2>1. PICK o \in Workspaces : BecomeFocused(Clear(S, o)) /\ Normal
    BY <1>5 DEF ClearWorkspace
  <2>2. o \in Output
    BY <1>1, <2>1, FocusIsShown DEF Workspaces, Focused
  <2> QED
    BY <1>1, <1>2, <2>1, <2>2, ClearKeeps, BecomeFocusedKeeps
<1>6. CASE ShowGroup
  <2> DEFINE o == OutputOf(S, focus)
             chosen == OfGroup(group_of[focus])
  <2>1. o \in Output /\ BecomeFocused(ShowOnWorkspace(S, o, output_views[o], chosen))
    BY <1>6, FocusIsShown DEF ShowGroup
  <2>2. output_views[o] = S.output_views[o]
    BY Fields
  <2> HIDE DEF o, chosen
  <2>3. Good(ShowOnWorkspace(S, o, S.output_views[o], chosen))
    BY <1>1, <1>3, <1>4, <2>1
  <2> QED
    BY <1>2, <2>1, <2>2, <2>3, BecomeFocusedKeeps
<1>7. CASE ShowGroupOfSheet
  <2> DEFINE o == OutputOf(S, focus)
             sheet == <<o, current[o]>>
             t == Raise(S, focus)
             chosen == OfGroup(group_of[focus])
  <2>1. o \in Output /\ focus \in Shown(S)
        /\ BecomeFocused(ShowOnWorkspace(t, o, t.sheet_views[sheet], chosen))
    BY <1>7, FocusIsShown DEF ShowGroupOfSheet
  <2>2. Good(t)
    BY <1>1, <2>1, RaiseGood
  <2>3. sheet \in SheetId
    BY <1>3, <2>1
  <2> HIDE DEF o, chosen, t, sheet
  <2>4. Good(ShowOnWorkspace(t, o, t.sheet_views[sheet], chosen))
    BY <1>4, <2>1, <2>2, <2>3
  <2> QED
    BY <1>2, <2>1, <2>4, BecomeFocusedKeeps
<1>8. ASSUME NEW o \in Output, NEW chosen, ShowAll(o, chosen)
      PROVE  IInv'
  <2>1. BecomeFocused(ShowOnWorkspace(S, o, S.output_views[o], chosen))
    BY <1>8, Fields DEF ShowAll
  <2>2. Good(ShowOnWorkspace(S, o, S.output_views[o], chosen))
    BY <1>1, <1>3, <1>4
  <2> QED
    BY <1>2, <2>1, <2>2, BecomeFocusedKeeps
<1>9. ASSUME NEW o \in Output, NEW chosen, ShowSheet(o, chosen)
      PROVE  IInv'
  <2> DEFINE sheet == <<o, current[o]>>
  <2>1. BecomeFocused(ShowOnWorkspace(S, o, S.sheet_views[sheet], chosen))
    BY <1>9, Fields DEF ShowSheet
  <2>2. sheet \in SheetId
    BY <1>3
  <2> HIDE DEF sheet
  <2>3. Good(ShowOnWorkspace(S, o, S.sheet_views[sheet], chosen))
    BY <1>1, <1>4, <2>2
  <2> QED
    BY <1>2, <2>1, <2>3, BecomeFocusedKeeps
<1>10. ASSUME NEW o \in Output, NEW n \in Sheet, NEW chosen, DisplaySheet(o, n, chosen)
       PROVE  IInv'
  BY <1>1, <1>2, <1>10, DisplayKeeps, BecomeFocusedKeeps DEF DisplaySheet
<1> QED
  BY <1>5, <1>6, <1>7, <1>8, <1>9, <1>10 DEF WorkspaceKeys

(* The focus goes to a view that is shown, with the flag of cycling set.    *)
LEMMA CycledTo ==
  ASSUME NEW s, Good(s), NEW v \in Shown(s), NEW b \in BOOLEAN
  PROVE  Good([s EXCEPT !.cycling = b, !.focus = v])
<1> DEFINE c == [s EXCEPT !.cycling = b]
<1>1. Good(c) /\ SameViews(s, c)
  BY CyclingKeeps
<1>2. [s EXCEPT !.cycling = b, !.focus = v] = [c EXCEPT !.focus = v]
  OBVIOUS
<1> HIDE DEF c
<1>3. v \in Shown(c)
  BY <1>1, SameViewsStay
<1>4. Good([c EXCEPT !.focus = v])
  BY <1>1, <1>3, FocusMoves
<1> QED
  BY <1>2, <1>4

LEMMA CycleToGroupKeeps ==
  ASSUME NEW s, Good(s), NEW up \in BOOLEAN
  PROVE  Good(CycleToGroup(s, up))
<1> DEFINE g == CycledGroup(s, up)
           list == s.visible_group_views[g]
<1>1. s \in States /\ NotFailed(s) /\ FocusFits(s)
  BY DEF Good, Core
<1>2. g \in Places \cup {NULL}
  <2>1. Link(s, up) \in [Places -> Places \cup {NULL}]
    BY <1>1 DEF Link, States
  <2>2. s.focus # NULL => s.group_of[s.focus] \in Places
    BY <1>1, GroupIsLinked DEF FocusFits, Good, Core, Places
  <2> QED
    BY <2>1, <2>2 DEF CycledGroup, Places
<1>3. Good(Crash(s, "garbage"))
  <2> DEFINE t == [s EXCEPT !.fault = "garbage"]
  <2>1. /\ t \in States /\ NotFailed(t) /\ SameLists(s, t) /\ SameViews(s, t)
        /\ t.focus = s.focus /\ ~Runs(t)
    BY <1>1 DEF States, NotFailed, SameLists, SameShelves, SameLinks, SameViews, Runs
  <2>2. Crash(s, "garbage") = IF Runs(s) THEN t ELSE s
    BY DEF Crash
  <2> HIDE DEF t
  <2>3. FocusFits(t)
    BY <1>1, <2>1, SameViewsStay DEF FocusFits
  <2>4. Good(t)
    BY <2>1, <2>3, RestKeeps
  <2> QED
    BY <2>2, <2>4
<1>4. ASSUME g \in Group, list # <<>>
      PROVE  Good([s EXCEPT !.focus = list[1]])
  <2> DEFINE M == {w \in Shown(s) : s.group_of[w] = g}
  <2>1. Holds(list, M)
    BY <1>4, ListsHold DEF Good
  <2>2. M \subseteq Shown(s)
    OBVIOUS
  <2>3. list \in Seq(View) /\ list # <<>>
    BY <1>4, <2>1 DEF Holds
  <2> HIDE DEF M, list
  <2>4. list[1] \in ToSet(list)
    <3>1. 1 \in 1 .. Len(list)
      BY <2>3
    <3> QED
      BY <2>3, <3>1, InList
  <2>5. list[1] \in Shown(s)
    BY <2>1, <2>2, <2>4 DEF Holds
  <2> QED
    BY <2>5, FocusMoves
<1>5. g # Root /\ g # NULL => g \in Group
  BY <1>2 DEF Places
<1>6. \/ CycleToGroup(s, up) \in {s, Crash(s, "garbage")}
      \/ g \in Group /\ list # <<>> /\ CycleToGroup(s, up) = [s EXCEPT !.focus = list[1]]
  <2>1. CycleToGroup(s, up) =
          IF s.next[Root] = Root THEN s
          ELSE IF g = Root \/ g = NULL THEN Crash(s, "garbage")
          ELSE IF s.focus # NULL /\ s.group_of[s.focus] = g THEN s
          ELSE IF list = <<>> THEN Crash(s, "garbage")
          ELSE [s EXCEPT !.focus = list[1]]
    BY DEF CycleToGroup
  <2> HIDE DEF g, list
  <2> QED
    BY <1>5, <2>1
<1> QED
  BY <1>3, <1>4, <1>6

LEMMA CycleStep ==
  ASSUME IInv, Cycle
  PROVE  IInv'
<1>1. Good(S) /\ outputs' \in SUBSET Output
  BY DEF IInv, Cycle, CycleGroupView, MoveOrResize, ReleaseModifiers, CycleView, CycleGroup
<1>2. ASSUME NEW b \in BOOLEAN
      PROVE  /\ Good([S EXCEPT !.cycling = b])
             /\ SameViews(S, [S EXCEPT !.cycling = b]) /\ Shown([S EXCEPT !.cycling = b]) = Shown(S)
  BY <1>1, CyclingKeeps, SameViewsStay
<1>3. CASE CycleGroupView
  <2> DEFINE list == visible_group_views[group_of[focus]]
  <2>1. PICK v \in {list[1], Last(list)} \cup {Neighbour(list, focus, up) : up \in BOOLEAN} :
          Become([S EXCEPT !.cycling = TRUE, !.focus = v])
    BY <1>3 DEF CycleGroupView
  <2>2. focus \in Shown(S)
    BY <1>3, FocusIsShown DEF CycleGroupView
  <2>3. list = S.visible_group_views[S.group_of[focus]]
    BY Fields
  <2> HIDE DEF list
  <2>4. list \in Seq(View) /\ focus \in ToSet(list) /\ ToSet(list) \subseteq Shown(S)
    BY <1>1, <2>2, <2>3, GroupOf
  <2>5. v \in Shown(S)
    BY <2>1, <2>4, Ends, NeighbourInList
  <2>6. Good([S EXCEPT !.cycling = TRUE, !.focus = v])
    BY <1>1, <2>5, CycledTo
  <2> QED
    BY <1>1, <2>1, <2>6, BecomeKeeps
<1>4. CASE MoveOrResize
  BY <1>1, <1>2, <1>4, BecomeKeeps DEF MoveOrResize
<1>5. CASE ReleaseModifiers
  <2>1. CASE cycling /\ focus # NULL
    <3> DEFINE t == Raise(S, focus)
    <3>1. BecomeFocused([t EXCEPT !.cycling = FALSE]) /\ Focused
      BY <1>5, <2>1 DEF ReleaseModifiers, Focused
    <3>2. Good(t)
      BY <1>1, <3>1, FocusIsShown, RaiseGood
    <3> HIDE DEF t
    <3>3. Good([t EXCEPT !.cycling = FALSE])
      BY <3>2, CyclingKeeps
    <3> QED
      BY <1>1, <3>1, <3>3, BecomeFocusedKeeps
  <2>2. CASE ~(cycling /\ focus # NULL)
    <3>1. Become([S EXCEPT !.cycling = FALSE])
      BY <1>5, <2>2 DEF ReleaseModifiers
    <3> QED
      BY <1>1, <1>2, <3>1, BecomeKeeps
  <2> QED
    BY <2>1, <2>2
<1>6. ASSUME NEW up \in BOOLEAN, CycleView(up)
      PROVE  IInv'
  <2> DEFINE v == IF visible_views = <<>> THEN NULL
                  ELSE IF focus # NULL THEN Neighbour(visible_views, focus, up)
                  ELSE IF up THEN Last(visible_views) ELSE visible_views[1]
             w == IF v = NULL THEN focus ELSE v
  <2>1. Become([S EXCEPT !.cycling = TRUE, !.focus = w]) /\ Normal
    BY <1>6 DEF CycleView
  <2>2. Holds(visible_views, Shown(S))
    BY <1>1, Fields, ListsHold DEF Good
  <2>3. visible_views \in Seq(View) /\ ToSet(visible_views) = Shown(S)
    BY <2>2 DEF Holds
  <2>4. focus # NULL => focus \in Shown(S)
    BY <2>1, FocusIsShown DEF Focused
  <2>5. visible_views # <<>> =>
          visible_views[1] \in ToSet(visible_views) /\ Last(visible_views) \in ToSet(visible_views)
    <3>1. visible_views # <<>> => 1 \in 1 .. Len(visible_views)
      BY <2>3
    <3>2. visible_views # <<>> => visible_views[1] \in ToSet(visible_views)
      BY <2>3, <3>1, InList
    <3> QED
      BY <2>3, <3>2, Ends
  <2>6. v = NULL \/ v \in Shown(S)
    <3>1. focus \in Shown(S) => Neighbour(visible_views, focus, up) \in Shown(S)
      BY <2>3, NeighbourInList
    <3> QED
      BY <2>3, <2>4, <2>5, <3>1
  <2> HIDE DEF v
  <2>7. CASE w \in Shown(S)
    <3> HIDE DEF w
    <3>1. Good([S EXCEPT !.cycling = TRUE, !.focus = w])
      BY <1>1, <2>7, CycledTo
    <3> QED
      BY <1>1, <2>1, <3>1, BecomeKeeps
  <2>8. CASE w \notin Shown(S)
    <3>1. w = focus
      BY <2>6, <2>8
    <3>2. w = S.focus
      BY <3>1, Fields
    <3> HIDE DEF w
    <3>3. [S EXCEPT !.cycling = TRUE, !.focus = w] = [S EXCEPT !.cycling = TRUE]
      <4>1. S \in States
        BY <1>1 DEF Good, Core
      <4> QED
        BY <3>2, <4>1 DEF States
    <3> QED
      BY <1>1, <1>2, <2>1, <3>3, BecomeKeeps
  <2> QED
    BY <2>7, <2>8
<1>7. ASSUME NEW up \in BOOLEAN, CycleGroup(up)
      PROVE  IInv'
  <2> DEFINE c == [S EXCEPT !.cycling = TRUE]
  <2>1. Become(CycleToGroup(c, up))
    BY <1>7 DEF CycleGroup
  <2>2. Good(c)
    BY <1>2
  <2> HIDE DEF c
  <2> QED
    BY <1>1, <2>1, <2>2, CycleToGroupKeeps, BecomeKeeps
<1> QED
  BY <1>3, <1>4, <1>5, <1>6, <1>7 DEF Cycle

(* The dialogue that assigns a group.                                       *)
LEMMA AssignStep ==
  ASSUME IInv, AssignGroup
  PROVE  IInv'
<1>1. Good(S) /\ outputs' \in SUBSET Output
  BY DEF IInv, AssignGroup, EnterGroupAssign, CancelGroup, ConfirmGroup, TypeName
<1>2. S \in States /\ NotFailed(S) /\ FocusFits(S)
  BY <1>1 DEF Good, Core
<1>3. CASE EnterGroupAssign
  <2> DEFINE g == group_of[focus]
             t == [S EXCEPT !.mode = "group", !.typed = g]
  <2>1. Become(t) /\ focus \in Shown(S) /\ g \in Group /\ S.focus # NULL
    BY <1>3, FocusIsShown, Fields DEF EnterGroupAssign, Focused
  <2> HIDE DEF g
  <2>2. t \in States /\ SameLists(S, t) /\ SameViews(S, t) /\ t.focus = S.focus
        /\ t.fault = S.fault
    BY <1>2, <2>1 DEF States, SameLists, SameShelves, SameLinks, SameViews
  <2> HIDE DEF t
  <2>3. NotFailed(t) /\ FocusFits(t)
    BY <1>2, <2>1, <2>2, SameViewsStay DEF NotFailed, FocusFits
  <2> QED
    BY <1>1, <2>1, <2>2, <2>3, RestKeeps, BecomeKeeps
<1>4. CASE CancelGroup
  BY <1>1, <1>4, EnterNormalKeeps, BecomeFocusedKeeps DEF CancelGroup
<1>5. ASSUME NEW g \in Group, ConfirmGroup(g)
      PROVE  IInv'
  <2> DEFINE t == SetGroup(S, focus, g)
  <2>1. BecomeFocused(EnterNormal(t)) /\ focus \in Shown(S)
    BY <1>5, FocusIsShown DEF ConfirmGroup
  <2>2. Good(t)
    BY <1>1, <2>1, SetGroupKeeps
  <2> HIDE DEF t
  <2>3. Good(EnterNormal(t))
    BY <2>2, EnterNormalKeeps
  <2> QED
    BY <1>1, <2>1, <2>3, BecomeFocusedKeeps
<1>6. ASSUME NEW g \in Group \cup {NULL}, TypeName(g)
      PROVE  IInv'
  <2> DEFINE found == IF g # NULL /\ group_views[g] # <<>> THEN g ELSE NULL
             t == [S EXCEPT !.typed = found]
             c == [S EXCEPT !.fault = "freed"]
             z == IF typed = Freed THEN Crash(S, "freed") ELSE t
  <2>1. Become(z) /\ found \in Group \cup {NULL}
    BY <1>6 DEF TypeName
  <2> HIDE DEF found
  <2>2. z \in {S, c, t}
    BY DEF Crash
  <2>3. t \in States /\ SameLists(S, t) /\ SameViews(S, t) /\ t.focus = S.focus
        /\ t.fault = S.fault /\ t.mode = S.mode
    BY <1>2, <2>1 DEF States, SameLists, SameShelves, SameLinks, SameViews
  <2>4. c \in States /\ SameLists(S, c) /\ SameViews(S, c) /\ c.focus = S.focus
        /\ c.fault = "freed"
    BY <1>2 DEF States, SameLists, SameShelves, SameLinks, SameViews
  <2> HIDE DEF t, c, z
  <2>5. NotFailed(t) /\ FocusFits(t) /\ NotFailed(c) /\ FocusFits(c)
    BY <1>2, <2>3, <2>4, SameViewsStay DEF NotFailed, FocusFits, Runs
  <2>6. Good(t) /\ Good(c)
    BY <1>1, <2>3, <2>4, <2>5, RestKeeps
  <2>7. Good(z)
    BY <1>1, <2>2, <2>6
  <2> QED
    BY <1>1, <2>1, <2>7, BecomeKeeps
<1> QED
  BY <1>3, <1>4, <1>5, <1>6 DEF AssignGroup

(* A new output: the links of the root are initialized.                     *)
LEMMA ChainCut ==
  ASSUME NEW n, NEW p, NEW L, Chain(n, p, L)
  PROVE  Chain([n EXCEPT ![Root] = Root], [p EXCEPT ![Root] = Root], L)
<1> DEFINE f == [n EXCEPT ![Root] = Root]
           b == [p EXCEPT ![Root] = Root]
<1>1. Root \in Places /\ Root # NULL /\ Root \notin Group /\ Group \subseteq Places
  BY NamesAssumption DEF Places
<1>2. n \in [Places -> Places \cup {NULL}] /\ p \in [Places -> Places \cup {NULL}]
  BY DEF Chain
<1>3. /\ f \in [Places -> Places \cup {NULL}] /\ b \in [Places -> Places \cup {NULL}]
      /\ \A x \in Places : /\ f[x] = IF x = Root THEN Root ELSE n[x]
                           /\ b[x] = IF x = Root THEN Root ELSE p[x]
  BY <1>1, <1>2
<1> HIDE DEF f, b
<1>4. \A g \in Group : (f[g] # NULL <=> g \in L) /\ (b[g] # NULL <=> g \in L)
  BY <1>1, <1>3 DEF Chain
<1>5. \A x \in Places, g \in Group : (f[x] = g => b[g] = x) /\ (b[x] = g => f[g] = x)
  BY <1>1, <1>3 DEF Chain
<1>6. f[Root] # NULL /\ b[Root] # NULL
  BY <1>1, <1>3
<1>7. Chain(f, b, L)
  BY <1>3, <1>4, <1>5, <1>6 DEF Chain
<1> QED
  BY <1>7 DEF f, b

LEMMA HotplugStep ==
  ASSUME IInv, Hotplug
  PROVE  IInv'
<1>1. Good(S) /\ outputs \in SUBSET Output /\ S \in States /\ NotFailed(S) /\ FocusFits(S)
      /\ Placed(S) /\ InLists(S, {}, {}) /\ Linked(S, GroupsOf(S, {}))
  BY DEF IInv, Good, Core
<1>2. ASSUME NEW o \in Output, PlugOutput(o)
      PROVE  IInv'
  <2> DEFINE t == [S EXCEPT !.current[o] = 1, !.next[Root] = Root, !.prev[Root] = Root,
                            !.cut = TRUE]
             N == [S.next EXCEPT ![Root] = Root]
             P == [S.prev EXCEPT ![Root] = Root]
             C == [S.current EXCEPT ![o] = 1]
  <2>1. Become(t) /\ outputs' \in SUBSET Output
    BY <1>1, <1>2 DEF PlugOutput
  <2>2. t = [S EXCEPT !.current = C, !.next = N, !.prev = P, !.cut = TRUE]
    BY <1>1 DEF States
  <2>3. Chain(N, P, GroupsOf(S, {}))
    BY <1>1, ChainCut DEF Linked
  <2>4. C \in [Output -> Sheet]
    BY <1>1, SheetsAreUsed DEF States
  <2>5. N \in [Places -> Places \cup {NULL}] /\ P \in [Places -> Places \cup {NULL}]
    BY <2>3 DEF Chain
  <2> HIDE DEF N, P, C, t
  <2>6. /\ t \in States /\ SameShelves(S, t) /\ SameViews(S, t) /\ t.focus = S.focus
        /\ t.fault = S.fault /\ t.mode = S.mode /\ t.next = N /\ t.prev = P /\ t.cut = TRUE
    BY <1>1, <2>2, <2>4, <2>5 DEF States, SameShelves, SameViews
  <2>7. Placed(t) /\ GroupsOf(t, {}) = GroupsOf(S, {}) /\ NotFailed(t) /\ FocusFits(t)
    BY <1>1, <2>6, SameViewsStay DEF NotFailed, FocusFits, Runs
  <2>8. InLists(t, {}, {})
    BY <1>1, <2>6, InListsStay
  <2>9. Linked(t, GroupsOf(t, {}))
    BY <2>3, <2>6, <2>7 DEF Linked
  <2>10. Good(t)
    BY <2>6, <2>7, <2>8, <2>9 DEF Good, Core
  <2> QED
    BY <2>1, <2>10, BecomeKeeps
<1>3. ASSUME NEW o \in Output, NEW into \in Output, UnplugOutput(o, into)
      PROVE  IInv'
  <2> DEFINE m == Merge(S, o, into)
  <2>1. Become([EnterNormal(m) EXCEPT !.focus = NULL]) /\ outputs' \in SUBSET Output
    BY <1>1, <1>3 DEF UnplugOutput
  <2>2. Good(m)
    BY <1>1, MergeKeeps
  <2> HIDE DEF m
  <2>3. Good([EnterNormal(m) EXCEPT !.focus = NULL])
    BY <2>2, EnterNormalKeeps
  <2> QED
    BY <2>1, <2>3, BecomeKeeps
<1> QED
  BY <1>2, <1>3 DEF Hotplug

LEMMA InitKeeps == Init => IInv
<1> SUFFICES ASSUME Init PROVE IInv
  OBVIOUS
<1>1. S \in States
  <2>1. next \in [Places -> Places \cup {NULL}]
    BY DEF Init, Places
  <2>2. current \in [Output -> Sheet]
    BY SheetsAreUsed DEF Init
  <2>3. /\ sheet_of \in [View -> SheetId \cup {NULL}] /\ group_of \in [View -> Group \cup {NULL}]
        /\ hidden \in SUBSET View /\ stale \in SUBSET View /\ prev = next
    BY DEF Init
  <2>4. /\ sheet_views \in [SheetId -> Seq(View)] /\ output_views \in [Output -> Seq(View)]
        /\ group_views \in [Group -> Seq(View)] /\ visible_views \in Seq(View)
        /\ workspace_views \in [Output -> Seq(View)] /\ visible_group_views \in [Group -> Seq(View)]
    <3>1. <<>> \in Seq(View)
      OBVIOUS
    <3> QED
      BY <3>1 DEF Init, SheetId
  <2>5. /\ focus \in View \cup {NULL} /\ cycling \in BOOLEAN /\ mode \in {"normal", "group"}
        /\ typed \in Group \cup {NULL, Freed} /\ cut \in BOOLEAN
        /\ fault \in {"none", "assert", "null", "freed", "garbage"}
    BY DEF Init
  <2> QED
    BY <2>1, <2>2, <2>3, <2>4, <2>5 DEF S, States
<1>2. Mapped(S) = {} /\ Shown(S) = {} /\ Placed(S) /\ NotFailed(S) /\ FocusFits(S)
      /\ GroupsOf(S, {}) = {}
  BY DEF Init, S, Mapped, Shown, Placed, NotFailed, FocusFits, GroupsOf
<1>3. InLists(S, {}, {})
  <2> DEFINE r == [v \in View |-> 0]
  <2>1. r \in [View -> Int] /\ Lowest(-1, View, r) /\ Highest(1, View, r)
    BY DEF Lowest, Highest
  <2> HIDE DEF r
  <2>2. ASSUME NEW I, NEW lists, lists = [i \in I |-> <<>>], NEW key
        PROVE  Shelf(lists, key, {}, {}, r)
    <3>1. \A i \in I : lists[i] = <<>> /\ DOMAIN lists = I
      BY <2>2
    <3>2. Rising(<<>>, r) /\ \A w \in View : w \notin ToSet(<<>>)
      BY DEF Rising, ToSet
    <3> QED
      BY <2>2, <3>1, <3>2 DEF Shelf
  <2>3. Line(<<>>, {}, {}, r)
    BY DEF Line, Rising, ToSet
  <2>4. /\ S.sheet_views = [i \in SheetId |-> <<>>] /\ S.output_views = [i \in Output |-> <<>>]
        /\ S.group_views = [i \in Group |-> <<>>] /\ S.workspace_views = [i \in Output |-> <<>>]
        /\ S.visible_group_views = [i \in Group |-> <<>>] /\ S.visible_views = <<>>
    BY Fields DEF Init, SheetId
  <2>5. InAll(S, {}, r, -1, 1)
    <3>1. Shelf(S.sheet_views, S.sheet_of, Mapped(S), {}, r)
      BY <1>2, <2>2, <2>4
    <3>2. Shelf(S.output_views, OutputsOf(S), Mapped(S), {}, r)
      BY <1>2, <2>2, <2>4
    <3>3. Shelf(S.group_views, S.group_of, Mapped(S), {}, r)
      BY <1>2, <2>2, <2>4
    <3>4. AllAt(S, {}, r, S.sheet_of)
      BY <3>1, <3>2, <3>3 DEF AllAt
    <3>5. S.stale = {} /\ S.sheet_of \in [View -> SheetId \cup {NULL}]
      BY Fields DEF Init
    <3>6. Stands(S, {}, r, S.sheet_of, r)
      BY <1>2, <3>5 DEF Stands, StandsAt
    <3>7. Ranks(r, -1, 1)
      BY <2>1 DEF Ranks
    <3> QED
      BY <3>4, <3>5, <3>6, <3>7 DEF InAll
  <2>6. InVisible(S, {}, r)
    <3>1. Shelf(S.workspace_views, OutputsOf(S), Shown(S), {}, r)
      BY <1>2, <2>2, <2>4
    <3>2. Shelf(S.visible_group_views, S.group_of, Shown(S), {}, r)
      BY <1>2, <2>2, <2>4
    <3>3. Line(S.visible_views, Shown(S), {}, r)
      BY <1>2, <2>3, <2>4
    <3> QED
      BY <3>1, <3>2, <3>3 DEF InVisible
  <2>7. Ordered(S, {}, {}, r, -1, 1)
    BY <2>1, <2>5, <2>6 DEF Ordered
  <2> QED
    BY <2>7 DEF InLists
<1>4. Linked(S, {})
  <2>1. Chain(next, prev, {})
    BY NamesAssumption DEF Init, Chain, Places
  <2>2. \A g \in Group : next[g] = NULL
    BY <2>1 DEF Chain
  <2> QED
    BY <2>1, <2>2, Fields, RingOfNone DEF Linked
<1>5. Good(S)
  BY <1>1, <1>2, <1>3, <1>4 DEF Good, Core
<1> QED
  BY <1>5 DEF IInv, Init

LEMMA ClientStep ==
  ASSUME IInv, Client
  PROVE  IInv'
BY MapStep, UnmapStep, CommitStep, MinimizeStep DEF Client

LEMMA ViewStep ==
  ASSUME IInv, ViewKeys
  PROVE  IInv'
BY RaiseStep, HideStep, PinStep, MigrateStep DEF ViewKeys

LEMMA NextKeeps == IInv /\ [Next]_vars => IInv'
<1> SUFFICES ASSUME IInv, [Next]_vars PROVE IInv'
  OBVIOUS
<1>1. CASE Next
  BY <1>1, ClientStep, ViewStep, WorkspaceStep, CycleStep, AssignStep, HotplugStep DEF Next
<1>2. CASE UNCHANGED vars
  <2>1. S' = S /\ outputs' = outputs
    BY <1>2 DEF vars, S
  <2>2. Good(S')
    BY <2>1 DEF IInv
  <2> QED
    BY <2>1, <2>2 DEF IInv
<1> QED
  BY <1>1, <1>2

(* The lists of views and the links of the groups are sound in each state  *)
(* of the server: there is one order of all views that every list of them  *)
(* is in, and each list has the views that belong in it, but for tiled     *)
(* views that were pinned and wait, which the lists of all views have where *)
(* they were (view.c:1628); and the links of the groups that have visible  *)
(* views lead to each other and to the root.                               *)
THEOREM ListsStaySound == Spec => []IInv
<1>1. Init => IInv
  BY InitKeeps
<1>2. IInv /\ [Next]_vars => IInv'
  BY NextKeeps
<1> QED
  BY <1>1, <1>2, PTL DEF Spec

-----------------------------------------------------------------------------
(* One stack                                                               *)

AllLists == Range(sheet_views) \cup Range(output_views) \cup Range(group_views)
VisibleLists == Range(workspace_views) \cup Range(visible_group_views) \cup {visible_views}

(* The lists of all views are in the order of p, the visible lists in that  *)
(* of r, and these are the same but for the views that wait.               *)
LEMMA ListsRise ==
  ASSUME Good(S)
  PROVE  \E r \in [View -> Int], p \in [View -> Int] :
           /\ \A l \in AllLists : l \in Seq(View) /\ Rising(l, p)
           /\ \A l \in VisibleLists : l \in Seq(View) /\ Rising(l, r)
           /\ \A v \in Mapped(S) \ stale : p[v] = r[v]
<1>1. PICK r, lo, hi : Ordered(S, {}, {}, r, lo, hi)
  BY DEF Good, Core, InLists
<1>2. r \in [View -> Int] /\ InVisible(S, {}, r) /\ S \in States
  BY <1>1 DEF Ordered, Good, Core
<1>3. PICK p, k : p \in [View -> Int] /\ AllAt(S, {}, p, k) /\ Stands(S, {}, p, k, r)
  BY <1>1 DEF Ordered, InAll, Ranks
<1>4. AllTyped(S) /\ VisibleTyped(S)
  BY <1>2, TypedLists
<1>5. ASSUME NEW I, NEW lists \in [I -> Seq(View)], NEW key, NEW M, NEW q,
             Shelf(lists, key, M, {}, q), NEW l \in Range(lists)
      PROVE  l \in Seq(View) /\ Rising(l, q)
  BY <1>5 DEF Range, Shelf
<1>6. ASSUME NEW l \in AllLists PROVE l \in Seq(View) /\ Rising(l, p)
  BY <1>3, <1>4, <1>5, Fields DEF AllLists, AllTyped, AllAt
<1>7. ASSUME NEW l \in VisibleLists PROVE l \in Seq(View) /\ Rising(l, r)
  <2>1. visible_views \in Seq(View) /\ Rising(visible_views, r)
    BY <1>2, <1>4, Fields DEF VisibleTyped, InVisible, Line
  <2> QED
    BY <1>2, <1>4, <1>5, <2>1, Fields DEF VisibleLists, VisibleTyped, InVisible
<1>8. ASSUME NEW v \in Mapped(S) \ stale PROVE p[v] = r[v]
  <2>1. v \in View
    BY DEF Mapped
  <2> QED
    BY <1>3, <2>1, Fields DEF Stands, StandsAt
<1> QED
  BY <1>2, <1>3, <1>6, <1>7, <1>8

OnTop(lists) ==
  UNION {{p \in Range(l) \X Range(l) : p[1] \in Range(Above(l, p[2]))} : l \in lists}

(* The pairs of OneStack: of the lists of all views, those that do not wait. *)
Settles == {p \in OnTop(AllLists) : {p[1], p[2]} \cap stale = {}}

LEMMA RanksOfPairs ==
  ASSUME NEW lists, NEW r \in [View -> Int], \A l \in lists : l \in Seq(View) /\ Rising(l, r),
         NEW p \in OnTop(lists)
  PROVE  /\ p[1] \in View /\ p[2] \in View /\ r[p[1]] < r[p[2]]
         /\ \E l \in lists : p[1] \in ToSet(l) /\ p[2] \in ToSet(l)
<1>1. PICK l \in lists : p \in Range(l) \X Range(l) /\ p[1] \in Range(Above(l, p[2]))
  BY DEF OnTop
<1>2. l \in Seq(View) /\ Rising(l, r)
  BY <1>1
<1>3. p[2] \in ToSet(l) /\ p[1] \in ToSet(l) /\ p[1] \in ToSet(Above(l, p[2]))
  BY <1>1 DEF Range, ToSet
<1>4. p[1] \in View /\ p[2] \in View
  BY <1>2, <1>3, MembersAreViews
<1> QED
  BY <1>1, <1>2, <1>3, <1>4, AboveRanksFirst

(* Pairs that follow the ranks are not the other way round anywhere.        *)
Follows(pairs, r) == \A p \in pairs : p[1] \in View /\ p[2] \in View /\ r[p[1]] < r[p[2]]

LEMMA FollowOneWay ==
  ASSUME NEW pairs, NEW r \in [View -> Int], Follows(pairs, r), NEW p \in pairs
  PROVE  <<p[2], p[1]>> \notin pairs
<1>1. SUFFICES ASSUME <<p[2], p[1]>> \in pairs PROVE FALSE
  OBVIOUS
<1>2. p[1] \in View /\ p[2] \in View /\ r[p[1]] < r[p[2]]
  BY DEF Follows
<1> DEFINE q == <<p[2], p[1]>>
<1>3. q[1] = p[2] /\ q[2] = p[1] /\ q \in pairs
  BY <1>1
<1> HIDE DEF q
<1>4. r[q[1]] < r[q[2]]
  BY <1>3 DEF Follows
<1>5. r[p[1]] \in Int /\ r[p[2]] \in Int
  BY <1>2
<1> QED
  BY <1>2, <1>3, <1>4, <1>5

LEMMA ListsHaveMapped ==
  ASSUME Good(S), NEW l \in AllLists, NEW v \in ToSet(l)
  PROVE  v \in Mapped(S)
<1>1. \/ \E i \in SheetId : l = S.sheet_views[i]
      \/ \E i \in Output : l = S.output_views[i]
      \/ \E i \in Group : l = S.group_views[i]
  <2>1. AllTyped(S)
    BY TypedLists DEF Good, Core
  <2> QED
    BY <2>1, Fields DEF AllLists, AllTyped, Range
<1>2. CASE \E i \in SheetId : l = S.sheet_views[i]
  <2>1. PICK i \in SheetId : l = S.sheet_views[i]
    BY <1>2
  <2>2. ToSet(S.sheet_views[i]) \subseteq Mapped(S)
    BY ListsHold DEF Good
  <2> QED
    BY <2>1, <2>2
<1>3. CASE \E i \in Output : l = S.output_views[i]
  <2>1. PICK i \in Output : l = S.output_views[i]
    BY <1>3
  <2>2. Holds(S.output_views[i], {w \in Mapped(S) : OutputOf(S, w) = i})
    BY ListsHold DEF Good
  <2> QED
    BY <2>1, <2>2 DEF Holds
<1>4. CASE \E i \in Group : l = S.group_views[i]
  <2>1. PICK i \in Group : l = S.group_views[i]
    BY <1>4
  <2>2. Holds(S.group_views[i], {w \in Mapped(S) : S.group_of[w] = i})
    BY ListsHold DEF Good
  <2> QED
    BY <2>1, <2>2 DEF Holds
<1> QED
  BY <1>1, <1>2, <1>3, <1>4

LEMMA NoTwoDisagree ==
  ASSUME Good(S)
  PROVE  /\ \A p \in OnTop(AllLists) : <<p[2], p[1]>> \notin OnTop(AllLists)
         /\ \A p \in OnTop(VisibleLists) \cup Settles :
              <<p[2], p[1]>> \notin OnTop(VisibleLists) \cup Settles
<1>1. PICK r \in [View -> Int], q \in [View -> Int] :
           /\ \A l \in AllLists : l \in Seq(View) /\ Rising(l, q)
           /\ \A l \in VisibleLists : l \in Seq(View) /\ Rising(l, r)
           /\ \A v \in Mapped(S) \ stale : q[v] = r[v]
  BY ListsRise
<1>2. Follows(OnTop(AllLists), q)
  BY <1>1, RanksOfPairs DEF Follows
<1>3. ASSUME NEW p \in OnTop(VisibleLists)
      PROVE  p[1] \in View /\ p[2] \in View /\ r[p[1]] < r[p[2]]
  BY <1>1, RanksOfPairs
<1>4. ASSUME NEW p \in Settles
      PROVE  p[1] \in View /\ p[2] \in View /\ r[p[1]] < r[p[2]]
  <2>1. p \in OnTop(AllLists) /\ p[1] \notin stale /\ p[2] \notin stale
    BY DEF Settles
  <2>2. /\ p[1] \in View /\ p[2] \in View /\ q[p[1]] < q[p[2]]
        /\ \E l \in AllLists : p[1] \in ToSet(l) /\ p[2] \in ToSet(l)
    BY <1>1, <2>1, RanksOfPairs
  <2>3. p[1] \in Mapped(S) /\ p[2] \in Mapped(S)
    BY <2>2, ListsHaveMapped
  <2>4. q[p[1]] = r[p[1]] /\ q[p[2]] = r[p[2]]
    BY <1>1, <2>1, <2>3
  <2> QED
    BY <2>2, <2>4
<1>5. Follows(OnTop(VisibleLists) \cup Settles, r)
  BY <1>3, <1>4 DEF Follows
<1> DEFINE all == OnTop(AllLists)
           above == OnTop(VisibleLists) \cup Settles
<1>6. Follows(all, q) /\ Follows(above, r)
  BY <1>2, <1>5
<1> HIDE DEF all, above
<1>7. /\ \A p \in all : <<p[2], p[1]>> \notin all
      /\ \A p \in above : <<p[2], p[1]>> \notin above
  BY <1>6, FollowOneWay
<1> QED
  BY <1>7 DEF all, above

(* The lists of the sheets have each view, if it waits one of the lists of  *)
(* its output.                                                             *)
LEMMA SheetsHold ==
  ASSUME Good(S)
  PROVE  /\ \A sheet \in SheetId :
              ToSet(S.sheet_views[sheet]) \ stale =
                {v \in Mapped(S) \ stale : S.sheet_of[v] = sheet}
         /\ \A v \in stale : \E n \in Sheet :
              {sheet \in SheetId : v \in ToSet(S.sheet_views[sheet])} = {<<OutputOf(S, v), n>>}
<1>1. PICK r, lo, hi : Ordered(S, {}, {}, r, lo, hi)
  BY DEF Good, Core, InLists
<1>2. PICK p, k : AllAt(S, {}, p, k) /\ Stands(S, {}, p, k, r)
  BY <1>1 DEF Ordered, InAll
<1>3. S.sheet_views \in [SheetId -> Seq(View)] /\ stale \subseteq View
  BY Fields DEF Good, Core, States
<1>4. ASSUME NEW sheet \in SheetId
      PROVE  /\ \A w \in View : w \in ToSet(S.sheet_views[sheet]) <=> w \in Mapped(S) /\ k[w] = sheet
             /\ ToSet(S.sheet_views[sheet]) \subseteq View
  <2>1. \A w \in View : w \in ToSet(S.sheet_views[sheet]) <=> w \in Mapped(S) /\ k[w] = sheet
    BY <1>2, <1>3 DEF AllAt, Shelf
  <2>2. S.sheet_views[sheet] \in Seq(View)
    BY <1>3
  <2> QED
    BY <2>1, <2>2, MembersAreViews
<1>5. \A w \in View : StandsAt(S, w, p, k, r)
  BY <1>2 DEF Stands
<1>6. Mapped(S) \subseteq View
  BY DEF Mapped
<1>7. ASSUME NEW sheet \in SheetId
      PROVE  ToSet(S.sheet_views[sheet]) \ stale =
               {v \in Mapped(S) \ stale : S.sheet_of[v] = sheet}
  <2>1. \A w \in Mapped(S) \ stale : k[w] = S.sheet_of[w]
    BY <1>5, <1>6, Fields DEF StandsAt
  <2> QED
    BY <1>4, <1>6, <2>1
<1>8. ASSUME NEW v \in stale
      PROVE  \E n \in Sheet :
               {sheet \in SheetId : v \in ToSet(S.sheet_views[sheet])} = {<<OutputOf(S, v), n>>}
  <2>1. v \in View /\ v \in Mapped(S) /\ k[v] \in SheetId /\ k[v][1] = OutputOf(S, v)
    BY <1>3, <1>5, Fields DEF StandsAt
  <2>2. PICK o \in Output, n \in Sheet : k[v] = <<o, n>>
    BY <2>1 DEF SheetId
  <2>3. o = OutputOf(S, v)
    BY <2>1, <2>2
  <2>4. \A sheet \in SheetId : v \in ToSet(S.sheet_views[sheet]) <=> k[v] = sheet
    BY <1>4, <2>1
  <2>5. {sheet \in SheetId : v \in ToSet(S.sheet_views[sheet])} = {k[v]}
    BY <2>1, <2>4
  <2> QED
    BY <2>2, <2>3, <2>5
<1> QED
  BY <1>7, <1>8

LEMMA RangeOfHeld ==
  ASSUME NEW list, NEW M, Holds(list, M)
  PROVE  Range(list) = M
BY DEF Holds, Range, ToSet

(* Each list has the views that belong in it, and no two lists disagree on *)
(* which of two views is above the other, whatever raised, lowered, showed, *)
(* hid, moved and assigned the views (view.c); a tiled view that was pinned *)
(* and waits for its client is in the lists of all views where it was      *)
(* before.  No operation fails an assertion or follows a NULL link.        *)
THEOREM ListsStayOneStack == Spec => []OneStack
<1>1. IInv => OneStack
  <2> SUFFICES ASSUME IInv PROVE OneStack
    OBVIOUS
  <2> DEFINE shown == Mapped(S) \ hidden
  <2>1. Good(S) /\ Core(S, {}, {}) /\ NotFailed(S)
    BY DEF IInv, Good, Core
  <2>2. fault \notin {"assert", "null"}
    BY <2>1, Fields DEF NotFailed
  <2>3. shown = Shown(S)
    BY Fields DEF Shown
  <2>4. Range(visible_views) = shown
    BY <2>1, <2>3, ListsHold, RangeOfHeld, Fields
  <2>5. ASSUME NEW o \in Output
        PROVE  /\ Range(output_views[o]) = {v \in Mapped(S) : OutputOf(S, v) = o}
               /\ Range(workspace_views[o]) = Range(output_views[o]) \cap shown
               /\ \A n \in Sheet :
                    Range(sheet_views[<<o, n>>]) \ stale =
                      {v \in Mapped(S) \ stale : sheet_of[v] = <<o, n>>}
    <3>1. /\ Holds(output_views[o], {w \in Mapped(S) : OutputOf(S, w) = o})
          /\ Holds(workspace_views[o], {w \in Shown(S) : OutputOf(S, w) = o})
      BY <2>1, ListsHold, Fields
    <3>2. /\ Range(output_views[o]) = {w \in Mapped(S) : OutputOf(S, w) = o}
          /\ Range(workspace_views[o]) = {w \in Shown(S) : OutputOf(S, w) = o}
      BY <3>1, RangeOfHeld
    <3>3. ASSUME NEW n \in Sheet
          PROVE  Range(sheet_views[<<o, n>>]) \ stale =
                   {v \in Mapped(S) \ stale : sheet_of[v] = <<o, n>>}
      <4>1. <<o, n>> \in SheetId
        BY DEF SheetId
      <4>2. ToSet(S.sheet_views[<<o, n>>]) \ stale =
              {v \in Mapped(S) \ stale : S.sheet_of[v] = <<o, n>>}
        BY <2>1, <4>1, SheetsHold
      <4>3. Range(sheet_views[<<o, n>>]) = ToSet(S.sheet_views[<<o, n>>])
        BY <2>1, <4>1, ListsHold, RangeOfHeld, Fields
      <4> QED
        BY <4>2, <4>3, Fields
    <3>4. {w \in Shown(S) : OutputOf(S, w) = o} = {w \in Mapped(S) : OutputOf(S, w) = o} \cap shown
      BY <2>3 DEF Shown
    <3> QED
      BY <3>2, <3>3, <3>4
  <2>6. ASSUME NEW g \in Group
        PROVE  /\ Range(group_views[g]) = OfGroup(g)
               /\ Range(visible_group_views[g]) = OfGroup(g) \cap shown
    <3>1. /\ Holds(group_views[g], {w \in Mapped(S) : S.group_of[w] = g})
          /\ Holds(visible_group_views[g], {w \in Shown(S) : S.group_of[w] = g})
      BY <2>1, ListsHold, Fields
    <3>2. {w \in Mapped(S) : S.group_of[w] = g} = OfGroup(g)
      BY Fields, NamesAssumption DEF Mapped, OfGroup
    <3>3. {w \in Shown(S) : S.group_of[w] = g} = OfGroup(g) \cap shown
      BY <2>3, <3>2 DEF Shown
    <3> QED
      BY <3>1, <3>2, <3>3, RangeOfHeld
  <2>7. /\ \A p \in OnTop(AllLists) : <<p[2], p[1]>> \notin OnTop(AllLists)
        /\ \A p \in OnTop(VisibleLists) \cup Settles :
             <<p[2], p[1]>> \notin OnTop(VisibleLists) \cup Settles
    BY <2>1, NoTwoDisagree
  <2>8. ASSUME NEW v \in stale
        PROVE  \E n \in Sheet : {sheet \in SheetId : v \in Range(sheet_views[sheet])} =
                                {<<OutputOf(S, v), n>>}
    <3>1. \A sheet \in SheetId : Range(sheet_views[sheet]) = ToSet(S.sheet_views[sheet])
      BY <2>1, ListsHold, RangeOfHeld, Fields
    <3>2. PICK n \in Sheet : {sheet \in SheetId : v \in ToSet(S.sheet_views[sheet])} =
                                {<<OutputOf(S, v), n>>}
      BY <2>1, SheetsHold
    <3> QED
      BY <3>1, <3>2
  <2> QED
    BY <2>2, <2>4, <2>5, <2>6, <2>7, <2>8
       DEF OneStack, OnTop, Settles, AllLists, VisibleLists, SheetId
<1> QED
  BY <1>1, ListsStaySound, PTL

-----------------------------------------------------------------------------
(* Walking along the links of the groups                                   *)

LEMMA ChainBackwards ==
  ASSUME NEW n, NEW p, NEW L, Chain(n, p, L)
  PROVE  Chain(p, n, L)
BY DEF Chain

LEMMA RoundBackwards ==
  ASSUME NEW n, NEW p, NEW L, NEW k, NEW c, Round(n, p, L, k, c)
  PROVE  \E d : Round(p, n, L, k, d)
<1> DEFINE m == k + 1
           d == [i \in 0 .. m |-> c[m - i]]
<1>1. /\ k \in Nat /\ c \in [0 .. k + 1 -> Places] /\ c[0] = Root /\ c[k + 1] = Root
      /\ \A i \in 0 .. k : n[c[i]] = c[i + 1] /\ p[c[i + 1]] = c[i]
      /\ \A i, j \in 0 .. k : c[i] = c[j] => i = j
      /\ \A g \in Group : g \in L <=> \E i \in 1 .. k : c[i] = g
  BY DEF Round
<1>2. m \in Nat /\ m = k + 1 /\ c \in [0 .. m -> Places] /\ c[m] = Root
  BY <1>1
<1> HIDE DEF m
<1>3. \A i \in 0 .. m : m - i \in 0 .. m /\ d[i] = c[m - i]
  BY <1>2
<1>4. d \in [0 .. m -> Places]
  BY <1>2, <1>3
<1> HIDE DEF d
<1>5. d[0] = Root /\ d[m] = Root
  <2>1. 0 \in 0 .. m /\ m \in 0 .. m /\ m - 0 = m /\ m - m = 0
    BY <1>2
  <2> QED
    BY <1>1, <1>2, <1>3, <2>1
<1>6. ASSUME NEW i \in 0 .. k
      PROVE  p[d[i]] = d[i + 1] /\ n[d[i + 1]] = d[i]
  <2> DEFINE j == k - i
  <2>1. j \in 0 .. k /\ m - i = j + 1 /\ m - (i + 1) = j /\ i \in 0 .. m /\ i + 1 \in 0 .. m
    BY <1>1, <1>2
  <2> HIDE DEF j
  <2>2. d[i] = c[j + 1] /\ d[i + 1] = c[j]
    BY <1>3, <2>1
  <2> QED
    BY <1>1, <2>1, <2>2
<1>7. ASSUME NEW i \in 0 .. k, NEW j \in 0 .. k, d[i] = d[j]
      PROVE  i = j
  <2>1. i \in 0 .. m /\ j \in 0 .. m /\ c[m - i] = c[m - j]
    BY <1>1, <1>2, <1>3, <1>7
  <2>2. CASE i = 0 /\ j # 0
    <3>1. m - j \in 0 .. k /\ m - j # 0 /\ m - i = m /\ 0 \in 0 .. k
      BY <1>1, <1>2, <2>2
    <3> QED
      BY <1>1, <1>2, <2>1, <3>1
  <2>3. CASE i # 0 /\ j = 0
    <3>1. m - i \in 0 .. k /\ m - i # 0 /\ m - j = m /\ 0 \in 0 .. k
      BY <1>1, <1>2, <2>3
    <3> QED
      BY <1>1, <1>2, <2>1, <3>1
  <2>4. CASE i # 0 /\ j # 0
    <3>1. m - i \in 0 .. k /\ m - j \in 0 .. k
      BY <1>1, <1>2, <2>4
    <3>2. m - i = m - j
      BY <1>1, <2>1, <3>1
    <3> QED
      BY <1>2, <3>2
  <2> QED
    BY <2>2, <2>3, <2>4
<1>8. ASSUME NEW g \in Group
      PROVE  g \in L <=> \E i \in 1 .. k : d[i] = g
  <2>1. \A i \in 1 .. k : m - i \in 1 .. k /\ m - (m - i) = i /\ i \in 0 .. m
    BY <1>1, <1>2
  <2>2. (\E i \in 1 .. k : c[i] = g) <=> (\E i \in 1 .. k : d[i] = g)
    BY <1>3, <2>1
  <2> QED
    BY <1>1, <2>2
<1>9. Round(p, n, L, k, d)
  BY <1>1, <1>2, <1>4, <1>5, <1>6, <1>7, <1>8 DEF Round
<1> QED
  BY <1>9

(* The groups of the ring are not more than there are groups.               *)
LEMMA RoundIsShort ==
  ASSUME NEW n, NEW p, NEW L, NEW k, NEW c, Round(n, p, L, k, c)
  PROVE  k <= Cardinality(Group) /\ Cardinality(Group) \in Nat
<1>1. /\ k \in Nat /\ c \in [0 .. k + 1 -> Places] /\ c[0] = Root
      /\ \A i, j \in 0 .. k : c[i] = c[j] => i = j
  BY DEF Round
<1> DEFINE f == [i \in 1 .. k |-> c[i]]
<1>2. \A i \in 1 .. k : c[i] \in Group
  <2>1. \A i \in 1 .. k : i \in 0 .. k /\ i \in 0 .. k + 1 /\ i # 0 /\ 0 \in 0 .. k
    BY <1>1
  <2> QED
    BY <1>1, <2>1 DEF Places
<1>3. f \in [1 .. k -> Group] /\ \A i, j \in 1 .. k : f[i] = f[j] => i = j
  BY <1>1, <1>2
<1> HIDE DEF f
<1>4. f \in Injection(1 .. k, Group)
  BY <1>3 DEF Injection, IsInjective
<1>5. IsFiniteSet(Group)
  BY NamesAssumption
<1>6. Cardinality(1 .. k) <= Cardinality(Group)
  BY <1>4, <1>5, FS_Injection
<1>7. Cardinality(1 .. k) = k
  BY <1>1, FS_Interval
<1> QED
  BY <1>5, <1>6, <1>7, FS_CardinalityType

IsWalk(walk, link, N) ==
  walk = [i \in 0 .. N |-> IF i = 0 THEN Root
                           ELSE IF walk[i - 1] = NULL THEN NULL ELSE link[walk[i - 1]]]

LEMMA WalkExists ==
  ASSUME NEW link \in [Places -> Places \cup {NULL}], NEW N \in Nat
  PROVE  IsWalk(CHOOSE walk : IsWalk(walk, link, N), link, N)
<1> DEFINE V == Places \cup {NULL}
           step == [x \in V |-> IF x = NULL THEN NULL ELSE link[x]]
<1>1. step \in [V -> V] /\ Root \in V
  BY DEF Places
<1>2. PICK f : AreSteps(f, N, V, Root, step)
  <2> HIDE DEF V, step
  <2> QED
    BY <1>1, StepsExist
<1>3. \A i \in 1 .. N : i - 1 \in 0 .. N
  OBVIOUS
<1>4. \A i \in 0 .. N : f[i] = IF i = 0 THEN Root
                               ELSE IF f[i - 1] = NULL THEN NULL ELSE link[f[i - 1]]
  <2>1. \A i \in 0 .. N : i # 0 => i \in 1 .. N
    OBVIOUS
  <2> QED
    BY <1>2, <1>3, <2>1 DEF AreSteps
<1>5. IsWalk(f, link, N)
  BY <1>2, <1>4 DEF IsWalk, AreSteps
<1> QED
  BY <1>5

LEMMA WalkReaches ==
  ASSUME NEW n, NEW p, NEW L, L \subseteq Group, Chain(n, p, L), NEW k, NEW c,
         Round(n, p, L, k, c), NEW N \in Nat, k <= N, NEW walk, IsWalk(walk, n, N)
  PROVE  Range(walk) = {Root} \cup L
<1>1. /\ k \in Nat /\ c \in [0 .. k + 1 -> Places] /\ c[0] = Root /\ c[k + 1] = Root
      /\ \A i \in 0 .. k : n[c[i]] = c[i + 1]
      /\ \A g \in Group : g \in L <=> \E i \in 1 .. k : c[i] = g
  BY DEF Round
<1>2. /\ DOMAIN walk = 0 .. N /\ walk[0] = Root
      /\ \A i \in 0 .. N : i # 0 =>
           walk[i] = IF walk[i - 1] = NULL THEN NULL ELSE n[walk[i - 1]]
  BY DEF IsWalk
<1>3. NULL \notin Places /\ Root \in Places /\ L \subseteq Places
  BY NamesAssumption DEF Places
<1>4. \A x \in {Root} \cup L : n[x] \in {Root} \cup L
  <2>1. ASSUME NEW x \in {Root} \cup L PROVE n[x] \in {Root} \cup L
    <3>1. x \in Places /\ n[x] \in Places /\ x # NULL
      BY <1>3, <2>1 DEF Chain
    <3>2. n[x] \in Group => p[n[x]] = x
      BY <3>1 DEF Chain
    <3> QED
      BY <3>1, <3>2 DEF Chain, Places
  <2> QED
    BY <2>1
<1>5. \A i \in 0 .. N : walk[i] \in {Root} \cup L
  <2> DEFINE B == {i \in 0 .. N : walk[i] \notin {Root} \cup L}
  <2>1. SUFFICES ASSUME B # {} PROVE FALSE
    OBVIOUS
  <2>2. PICK i \in B : \A j \in B : i <= j
    <3>1. B \subseteq Nat
      OBVIOUS
    <3> HIDE DEF B
    <3> QED
      BY <2>1, <3>1, LeastNumber
  <2>3. i \in 0 .. N /\ i # 0 /\ walk[i] \notin {Root} \cup L
    BY <1>2, <2>2
  <2> DEFINE e == i - 1
  <2>4. e \in 0 .. N /\ e < i
    BY <2>3
  <2>5. walk[e] \in {Root} \cup L
    BY <2>2, <2>3, <2>4
  <2>6. walk[i] = n[walk[e]]
    BY <1>2, <1>3, <2>3, <2>5
  <2> QED
    BY <1>4, <2>3, <2>5, <2>6
<1>6. \A i \in 0 .. k : walk[i] = c[i]
  <2> DEFINE B == {i \in 0 .. k : walk[i] # c[i]}
  <2>1. SUFFICES ASSUME B # {} PROVE FALSE
    OBVIOUS
  <2>2. PICK i \in B : \A j \in B : i <= j
    <3>1. B \subseteq Nat
      BY <1>1
    <3> HIDE DEF B
    <3> QED
      BY <2>1, <3>1, LeastNumber
  <2>3. i \in 0 .. k /\ i \in 0 .. N /\ i # 0 /\ walk[i] # c[i]
    BY <1>1, <1>2, <2>2
  <2> DEFINE e == i - 1
  <2>4. e \in 0 .. k /\ e < i /\ e + 1 = i /\ e \in 0 .. k + 1
    BY <1>1, <2>3
  <2>5. walk[e] = c[e]
    BY <1>1, <2>2, <2>3, <2>4
  <2>6. c[e] \in Places /\ c[e] # NULL
    BY <1>1, <1>3, <2>4
  <2>7. walk[i] = n[c[e]]
    BY <1>2, <2>3, <2>5, <2>6
  <2>8. n[c[e]] = c[e + 1]
    BY <1>1, <2>4
  <2> QED
    BY <2>3, <2>4, <2>7, <2>8
<1>7. \A g \in L : \E i \in 0 .. N : walk[i] = g
  <2>1. \A i \in 1 .. k : i \in 0 .. k /\ i \in 0 .. N
    BY <1>1
  <2> QED
    BY <1>1, <1>6, <2>1
<1> QED
  BY <1>2, <1>5, <1>7 DEF Range

LEMMA LinkedHaveViews ==
  ASSUME Good(S), NEW g \in Group
  PROVE  g \in GroupsOf(S, {}) <=> visible_group_views[g] # <<>>
<1> DEFINE M == {w \in Shown(S) : S.group_of[w] = g}
<1>1. Holds(visible_group_views[g], M)
  BY ListsHold, Fields DEF Good
<1>2. g \in GroupsOf(S, {}) <=> M # {}
  BY DEF GroupsOf
<1> HIDE DEF M
<1>3. visible_group_views[g] \in Seq(View) /\ ToSet(visible_group_views[g]) = M
  BY <1>1 DEF Holds
<1> DEFINE list == visible_group_views[g]
<1>4. list # <<>> => 1 \in 1 .. Len(list)
  BY <1>3
<1>5. list = <<>> => \A i \in 1 .. Len(list) : FALSE
  OBVIOUS
<1> HIDE DEF list
<1>6. list # <<>> <=> \E x : x \in ToSet(list)
  BY <1>3, <1>4, <1>5, InList DEF list
<1> QED
  BY <1>2, <1>3, <1>6 DEF list

(* Cycling reaches each group that has visible views, in both directions   *)
(* (server.c), until an output is plugged and the list is initialized      *)
(* again (workspace.c); no link ever leads to a group that has no visible  *)
(* view.                                                                   *)
THEOREM LinksStaySound == Spec => []GroupsStayLinked
<1>1. IInv => GroupsStayLinked
  <2> SUFFICES ASSUME IInv PROVE GroupsStayLinked
    OBVIOUS
  <2> DEFINE L == GroupsOf(S, {})
             N == Cardinality(Group) + 1
  <2>1. Good(S) /\ Linked(S, L) /\ S \in States /\ Placed(S)
    BY DEF IInv, Good, Core
  <2>2. L \subseteq Group
    BY <2>1, MappedHasPlace DEF GroupsOf, Shown
  <2>3. \A g \in Group : g \in L <=> visible_group_views[g] # <<>>
    BY <2>1, LinkedHaveViews
  <2>4. Chain(next, prev, L) /\ (~cut => Ring(next, prev, L))
    BY <2>1, Fields DEF Linked
  <2> HIDE DEF L
  <2>5. ASSUME NEW link, NEW back, Chain(link, back, L), NEW k, NEW c, Round(link, back, L, k, c)
        PROVE  Range(CHOOSE walk : IsWalk(walk, link, N)) = {Root} \cup L
    <3>1. N \in Nat /\ k <= N
      <4>1. k <= Cardinality(Group) /\ Cardinality(Group) \in Nat
        BY <2>5, RoundIsShort
      <4>2. k \in Nat
        BY <2>5 DEF Round
      <4> QED
        BY <4>1, <4>2
    <3> HIDE DEF N
    <3>2. IsWalk(CHOOSE walk : IsWalk(walk, link, N), link, N)
      BY <2>5, <3>1, WalkExists DEF Chain
    <3> QED
      BY <2>2, <2>5, <3>1, <3>2, WalkReaches
  <2>6. ASSUME ~cut PROVE EachGroupIsReached
    <3>1. PICK k, c : Round(next, prev, L, k, c)
      BY <2>4, <2>6 DEF Ring
    <3>2. PICK d : Round(prev, next, L, k, d)
      BY <3>1, RoundBackwards
    <3>3. Chain(prev, next, L)
      BY <2>4, ChainBackwards
    <3>4. /\ Range(CHOOSE walk : IsWalk(walk, next, N)) = {Root} \cup L
          /\ Range(CHOOSE walk : IsWalk(walk, prev, N)) = {Root} \cup L
      <4> HIDE DEF N
      <4> QED
        BY <2>4, <2>5, <3>1, <3>2, <3>3
    <3>5. {Root} \cup L = {Root} \cup {g \in Group : visible_group_views[g] # <<>>}
      BY <2>2, <2>3
    <3>6. ASSUME NEW up \in BOOLEAN
          PROVE  Link(S, up) = IF up THEN prev ELSE next
      BY Fields DEF Link
    <3>7. ASSUME NEW up \in BOOLEAN
          PROVE  Range(CHOOSE walk : IsWalk(walk, Link(S, up), N)) =
                   {Root} \cup {g \in Group : visible_group_views[g] # <<>>}
      <4> HIDE DEF N
      <4>1. CASE up
        BY <3>4, <3>5, <3>6, <4>1
      <4>2. CASE ~up
        BY <3>4, <3>5, <3>6, <4>2
      <4> QED
        BY <4>1, <4>2
    <3> QED
      BY <3>7 DEF EachGroupIsReached, IsWalk
  <2>7. ASSUME NEW x \in Group \cup {Root}, next[x] # NULL,
               NEW y \in {next[x], prev[x]} \ {Root}
        PROVE  visible_group_views[y] # <<>>
    <3>1. x \in Places /\ x # NULL
      BY NamesAssumption DEF Places
    <3>2. prev[x] # NULL
      BY <2>4, <2>7 DEF Chain
    <3>3. y \in Group
      BY <2>4, <2>7, <3>1, <3>2 DEF Chain, Places
    <3>4. y \in L
      BY <2>4, <2>7, <3>1, <3>3 DEF Chain
    <3> QED
      BY <2>3, <3>3, <3>4
  <2> QED
    BY <2>6, <2>7 DEF GroupsStayLinked
<1> QED
  BY <1>1, ListsStaySound, PTL

(* GroupsKeepTheirOrder: raising the group of the view that has the focus   *)
(* puts that view and then the rest of the group, in its order, above all   *)
(* others in theirs (hikari_group_raise), and lowering it puts them below   *)
(* (hikari_group_lower), however many views there are.                      *)
THEOREM GroupsAlwaysKeepOrder == Spec => []GroupsKeepTheirOrder
<1>1. IInv => GroupsKeepTheirOrder
  <2> SUFFICES ASSUME IInv, Focused PROVE GroupsKeepTheirOrder
    BY DEF GroupsKeepTheirOrder
  <2> DEFINE group  == visible_group_views[group_of[focus]]
             inner  == <<focus>> \o RemoveFirst(group, focus)
             others == FoldLeft(RemoveFirst, visible_views, group)
  <2>1. Good(S) /\ Runs(S) /\ focus \in Shown(S)
    BY Fields DEF IInv, Good, FocusFits, Focused, Normal, Running, Runs
  <2>2. /\ GroupRaise(S, focus).visible_views = GroupOnTop(S, focus)
        /\ GroupLower(S, focus).visible_views = GroupAtBottom(S, focus)
    BY <2>1, GroupRaiseKeeps, GroupLowerKeeps
  <2>3. GroupOnTop(S, focus) = inner \o others /\ GroupAtBottom(S, focus) = others \o inner
    BY Fields DEF GroupOnTop, GroupAtBottom, Others, Without
  <2>4. /\ GroupRaise(S, focus).visible_views = inner \o others
        /\ GroupLower(S, focus).visible_views = others \o inner
    BY <2>2, <2>3
  <2> QED
    BY <2>4 DEF GroupsKeepTheirOrder
<1> QED
  BY <1>1, ListsStaySound, PTL

=============================================================================
