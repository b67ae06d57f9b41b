----------------------------- MODULE TilingProofs -----------------------------
(***************************************************************************)
(* Proofs about Tiling: what views, operations and layouts have to do with  *)
(* one another, for any views and sheets, as long as the horizontal         *)
(* maximization is not asked for while an operation is pending.             *)
(*                                                                         *)
(* A handler maps the record of the state step by step, so the invariant is *)
(* about such records.  Raising views changes the lists of the views only,  *)
(* and is dealt with first; operations change the layouts.                  *)
(***************************************************************************)
EXTENDS Tiling, ListFacts

Operation == {"none", "resize", "reset", "unmaximize", "tile", "full", "vertical", "horizontal"}
Maximized == {"none", "full", "vertical", "horizontal"}

(* What may go wrong; the failures of assertions that do not are left out.  *)
Ends == {"none", "walk_end", "walk_detached", "scan_hidden", "main_view", "exchange_sheets",
         "foreign_layout", "no_first", "tile_lost"}

States ==
    [current_sheet : SheetNr, view_sheet : [View -> SheetNr \cup {NULL}],
     sheet_views : [SheetNr -> Seq(View)], visible_views : Seq(View),
     operation : [View -> Operation], op_tile : [View -> SheetNr \cup {NULL}],
     tile : [View -> SheetNr \cup {NULL, Detached}],
     layout : [SheetNr -> {NULL} \cup Seq(View \X {"tile", "pending"})],
     maximized : [View -> Maximized], aborted : Ends]

On(t, s) == ToSet(t.sheet_views[s])
Visible(t) == ToSet(t.visible_views)
IsMapped(t, v) == \E s \in SheetNr : v \in On(t, s)

(* Each list of a sheet has a view once, and a view that is in a list knows  *)
(* of a sheet that it will be moved to.                                      *)
Shelved(t) ==
    /\ \A s \in SheetNr : IsInjective(t.sheet_views[s])
    /\ \A v \in View : IsMapped(t, v) => t.view_sheet[v] # NULL

(* What a view has of tiles is what its operation says, and each is of a    *)
(* view that is mapped.                                                     *)
Follows(t) ==
    \A v \in View :
        /\ t.tile[v] = Detached => t.operation[v] = "reset"
        /\ t.op_tile[v] # NULL <=> t.operation[v] = "tile"
        /\ t.operation[v] = "reset" => t.tile[v] \notin SheetNr
        /\ t.operation[v] \in {"vertical", "horizontal"} => t.maximized[v] # "vertical"
        /\ t.tile[v] \in SheetNr \/ t.op_tile[v] # NULL => IsMapped(t, v)

TilesOf(t, s) == IF t.layout[s] = NULL THEN <<>> ELSE t.layout[s]
IsLinked(t, s, v, how) == <<v, how>> \in ToSet(TilesOf(t, s))

Linked(t) ==
    \A s \in SheetNr :
        /\ IsInjective(TilesOf(t, s))
        /\ \A v \in View : /\ IsLinked(t, s, v, "tile") <=> t.tile[v] = s
                           /\ IsLinked(t, s, v, "pending") <=> t.op_tile[v] = s

(* No view of off is in a layout.                                           *)
Normal(t, off) == \A v \in off \cap View : t.tile[v] \notin SheetNr /\ t.op_tile[v] = NULL

Sound(t, off) ==
    t \in States /\ Shelved(t) /\ Follows(t) /\ Linked(t) /\ Normal(t, off)

(* The views that the user keeps out of layouts.                            *)
Off == IF Waits THEN floating \cup invisible ELSE {}

(* The user does not ask for the horizontal maximization while the client   *)
(* of the view owes an answer: toggle_horizontal_maximize is the only key   *)
(* of the kind that does not look, and what was pending would be lost.      *)
Patient == "horizontal" \notin user.hasty

(* The inductive invariant.                                                 *)
IInv == Sound(Now, Off)

-----------------------------------------------------------------------------
(* Raising                                                                 *)

SameTiles(s, t) ==
    /\ t.current_sheet = s.current_sheet /\ t.view_sheet = s.view_sheet
    /\ t.operation = s.operation /\ t.op_tile = s.op_tile /\ t.tile = s.tile
    /\ t.layout = s.layout /\ t.maximized = s.maximized /\ t.aborted = s.aborted

(* The views have moved in their lists.                                     *)
Moves(s, t) ==
    /\ t \in States /\ Shelved(t) /\ SameTiles(s, t)
    /\ \A v \in View : IsMapped(s, v) => IsMapped(t, v)

(* Views were raised: what was visible is, and what came to a sheet is.     *)
Raises(s, t) ==
    /\ Moves(s, t) /\ Visible(s) \subseteq Visible(t)
    /\ \A n \in SheetNr : On(t, n) \subseteq On(s, n) \cup Visible(t)

LEMMA NothingIsRaised ==
  ASSUME NEW t \in States, Shelved(t)
  PROVE  Raises(t, t)
BY DEF Raises, Moves, SameTiles

LEMMA RaisedTwice ==
  ASSUME NEW s, NEW t, NEW u, Raises(s, t), Raises(t, u)
  PROVE  Raises(s, u)
<1>1. SameTiles(s, u)
  BY DEF Raises, Moves, SameTiles
<1> QED
  BY <1>1 DEF Raises, Moves

LEMMA MovesSound ==
  ASSUME NEW s, NEW t, NEW off, Sound(s, off), Moves(s, t)
  PROVE  Sound(t, off)
<1>1. Follows(t)
  BY DEF Sound, Moves, SameTiles, Follows
<1>2. Linked(t)
  BY DEF Sound, Moves, SameTiles, Linked, IsLinked, TilesOf
<1>3. Normal(t, off)
  BY DEF Sound, Moves, SameTiles, Normal
<1> QED
  BY <1>1, <1>2, <1>3 DEF Sound, Moves

LEMMA SheetsMove ==
  ASSUME NEW t \in States, Shelved(t), NEW v \in View
  PROVE  /\ Moves(t, MoveToTop(t, v))
         /\ MoveToTop(t, v).visible_views = t.visible_views
         /\ \A n \in SheetNr : On(MoveToTop(t, v), n) \subseteq On(t, n) \cup {v}
<1> DEFINE u == MoveToTop(t, v)
           at == t.view_sheet[v]
<1>1. /\ u.sheet_views = [n \in SheetNr |->
           (IF n = at THEN <<v>> ELSE <<>>) \o RemoveFirst(t.sheet_views[n], v)]
      /\ u = [t EXCEPT !.sheet_views = u.sheet_views]
  BY DEF MoveToTop, States
<1>2. ASSUME NEW n \in SheetNr
      PROVE  /\ u.sheet_views[n] \in Seq(View) /\ IsInjective(u.sheet_views[n])
             /\ \A w \in View : w \in On(u, n) <=> IF w = v THEN n = at ELSE w \in On(t, n)
             /\ On(u, n) \subseteq View
  <2> DEFINE list == t.sheet_views[n]
             rest == RemoveFirst(list, v)
  <2>1. list \in Seq(View) /\ IsInjective(list)
    BY DEF States, Shelved
  <2>2. /\ rest \in Seq(View) /\ IsInjective(rest) /\ ToSet(rest) = ToSet(list) \ {v}
    <3> HIDE DEF list
    <3> QED
      BY <2>1, RemoveFirstIsList
  <2>3. u.sheet_views[n] = (IF n = at THEN <<v>> ELSE <<>>) \o rest
    BY <1>1
  <2> HIDE DEF list, rest
  <2>4. /\ <<v>> \o rest \in Seq(View) /\ IsInjective(<<v>> \o rest)
        /\ ToSet(<<v>> \o rest) = ToSet(list) \cup {v}
    BY <2>2, Prepended
  <2>5. ToSet(list) \subseteq View
    BY <2>1, InList
  <2>6. <<>> \o rest = rest
    BY <2>2
  <2> HIDE DEF u
  <2>7. CASE n = at
    BY <2>3, <2>4, <2>5, <2>7 DEF On, list
  <2>8. CASE n # at
    BY <2>2, <2>3, <2>5, <2>6, <2>8 DEF On, list
  <2> QED
    BY <2>7, <2>8
<1> HIDE DEF u
<1>3. u.sheet_views \in [SheetNr -> Seq(View)]
  BY <1>1, <1>2
<1>4. u \in States /\ SameTiles(t, u) /\ u.visible_views = t.visible_views
  BY <1>1, <1>3 DEF States, SameTiles
<1>5. at \in SheetNr \cup {NULL}
  BY DEF States
<1>6. \A w \in View : IsMapped(t, w) => IsMapped(u, w)
  BY <1>2, <1>5 DEF Shelved, IsMapped
<1>7. \A w \in View : IsMapped(u, w) => IsMapped(t, w) \/ (w = v /\ at # NULL)
  BY <1>2, NullAssumption DEF IsMapped
<1>8. Shelved(u)
  BY <1>2, <1>4, <1>7 DEF Shelved, SameTiles
<1>9. \A n \in SheetNr : On(u, n) \subseteq On(t, n) \cup {v}
  BY <1>2
<1> QED
  BY <1>4, <1>6, <1>8, <1>9 DEF Moves, u

LEMMA RaiseViewRaises ==
  ASSUME NEW t \in States, Shelved(t), NEW v \in View
  PROVE  Raises(t, RaiseView(t, v)) /\ v \in Visible(RaiseView(t, v))
<1> DEFINE m == MoveToTop(t, v)
           u == RaiseView(t, v)
           rest == RemoveFirst(m.visible_views, v)
<1>1. /\ Moves(t, m) /\ m.visible_views = t.visible_views
      /\ \A n \in SheetNr : On(m, n) \subseteq On(t, n) \cup {v}
  BY SheetsMove
<1> HIDE DEF m
<1>2. m \in States /\ m.visible_views \in Seq(View)
  BY <1>1 DEF Moves, States
<1>3. rest \in Seq(View) /\ ToSet(m.visible_views) \ {v} \subseteq ToSet(rest)
  BY <1>2, RemoveFirstIsList
<1>4. u = [m EXCEPT !.visible_views = <<v>> \o rest]
  BY DEF RaiseView, m
<1> HIDE DEF rest, u
<1>5. /\ <<v>> \o rest \in Seq(View) /\ ToSet(<<v>> \o rest) = ToSet(rest) \cup {v}
  BY <1>3, Prepended
<1>6. u \in States /\ SameTiles(m, u) /\ u.sheet_views = m.sheet_views /\
          u.visible_views = <<v>> \o rest
  BY <1>2, <1>4, <1>5 DEF States, SameTiles
<1>7. Visible(t) \subseteq Visible(u) /\ v \in Visible(u)
  BY <1>1, <1>3, <1>5, <1>6 DEF Visible
<1>8. \A n : On(u, n) = On(m, n)
  BY <1>6 DEF On
<1>9. SameTiles(t, u)
  BY <1>1, <1>6 DEF Moves, SameTiles
<1>10. Shelved(u) /\ \A w \in View : IsMapped(t, w) => IsMapped(u, w)
  BY <1>1, <1>6, <1>8 DEF Moves, Shelved, IsMapped, SameTiles
<1> QED
  BY <1>1, <1>6, <1>7, <1>8, <1>9, <1>10 DEF Raises, Moves, u

LEMMA RaiseRaises ==
  ASSUME NEW t \in States, Shelved(t), NEW v \in View, v \in Visible(t)
  PROVE  Raises(t, Raise(t, v))
<1>1. ~IsHidden(t, v)
  <2>1. t.visible_views \in Seq(View)
    BY DEF States
  <2> QED
    BY <2>1, InList DEF IsHidden, Visible, Contains
<1> QED
  BY <1>1, RaiseViewRaises, NothingIsRaised DEF Raise

(* What a view is hidden means.                                             *)
LEMMA HiddenIsNotVisible ==
  ASSUME NEW t \in States, NEW v
  PROVE  IsHidden(t, v) <=> v \notin Visible(t)
<1>1. t.visible_views \in Seq(View)
  BY DEF States
<1> QED
  BY <1>1, InList DEF IsHidden, Visible, Contains

-----------------------------------------------------------------------------
(* Raising one view after another                                          *)

LEMMA ShowViewsRaises ==
  ASSUME NEW t \in States, Shelved(t), NEW n \in SheetNr, NEW shown
  PROVE  /\ Raises(t, ShowViews(t, n, shown))
         /\ \A v \in shown \cap On(ShowViews(t, n, shown),
            n) : v \in Visible(ShowViews(t, n, shown))
<1> DEFINE list == t.sheet_views[n]
<1> DEFINE S == DOMAIN list
           W == {w \in States : Raises(t, w)}
           C == [u \in SUBSET S |-> Min(u)]
           V == [u \in SUBSET S |-> {w \in W : \A i \in u : list[i] \in shown =>
               list[i] \in Visible(w)}]
           After(w, i) == IF list[i] \in shown /\ IsHidden(w, list[i])
                          THEN RaiseView(w, list[i]) ELSE w
           step == [p \in S \X W |-> After(p[2], p[1])]
           iter == CHOOSE iter : iter = [u \in SUBSET S |->
                     IF u = {} THEN t ELSE After(iter[u \ {Min(u)}], Min(u))]
<1>1. ShowViews(t, n, shown) = iter[S]
  BY DEF ShowViews, FoldRight, MapThenFoldSet, list
<1>2. list \in Seq(View)
  BY DEF States
<1> HIDE DEF list
<1>3. S = 1 .. Len(list) /\ Len(list) \in Nat /\ IsFiniteSet(S)
  BY <1>2, PlacesAreFinite
<1>4. \A u \in SUBSET S : u # {} => C[u] \in u /\ C[u] = Min(u)
  <2> HIDE DEF S
  <2> QED
    BY <1>3, FirstPlace
<1>5. \A i \in S : list[i] \in View
  BY <1>2, <1>3, InList
<1> HIDE DEF S
<1>6. t \in W
  BY NothingIsRaised
<1>7. ASSUME NEW i \in S, NEW w \in W
      PROVE  /\ After(w, i) \in W /\ Visible(w) \subseteq Visible(After(w, i))
             /\ list[i] \in shown => list[i] \in Visible(After(w, i))
  <2>1. w \in States /\ Shelved(w) /\ Raises(t, w) /\ list[i] \in View
    BY <1>5 DEF Raises, Moves
  <2>2. CASE list[i] \in shown /\ IsHidden(w, list[i])
    <3>1. Raises(w, RaiseView(w, list[i])) /\ list[i] \in Visible(RaiseView(w, list[i]))
      BY <2>1, RaiseViewRaises
    <3>2. Raises(t, RaiseView(w, list[i]))
      BY <2>1, <3>1, RaisedTwice
    <3> QED
      BY <2>2, <3>1, <3>2 DEF Raises, Moves
  <2>3. CASE ~(list[i] \in shown /\ IsHidden(w, list[i]))
    BY <2>1, <2>3, HiddenIsNotVisible
  <2> QED
    BY <2>2, <2>3
<1>8. step \in [S \X W -> W]
  <2> HIDE DEF After, W
  <2> QED
    BY <1>7
<1>9. PICK g : IsRecursion(g, S, W, t, C, step)
  <2> HIDE DEF step, W, C
  <2> QED
    BY <1>3, <1>4, <1>6, <1>8, RecursionExists
<1>10. iter = [u \in SUBSET S |->
                 IF u = {} THEN t ELSE After(iter[u \ {Min(u)}], Min(u))]
  <2> DEFINE Is(f) == f = [u \in SUBSET S |->
                IF u = {} THEN t ELSE After(f[u \ {Min(u)}], Min(u))]
  <2>1. g \in [SUBSET S -> W]
    BY <1>9 DEF IsRecursion
  <2>2. ASSUME NEW u \in SUBSET S
        PROVE  g[u] = IF u = {} THEN t ELSE After(g[u \ {Min(u)}], Min(u))
    <3>1. g[u] = IF u = {} THEN t ELSE step[<<C[u], g[u \ {C[u]}]>>]
      BY <1>9 DEF IsRecursion
    <3>2. ASSUME u # {}
          PROVE  step[<<C[u], g[u \ {C[u]}]>>] = After(g[u \ {Min(u)}], Min(u))
      <4>1. C[u] \in S /\ C[u] = Min(u) /\ g[u \ {C[u]}] \in W
        BY <1>4, <2>1, <3>2
      <4> HIDE DEF After, W, C
      <4> QED
        BY <4>1
    <3> QED
      BY <3>1, <3>2
  <2>3. Is(g)
    <3> HIDE DEF After, W
    <3> QED
      BY <2>1, <2>2
  <2> HIDE DEF Is
  <2>4. Is(CHOOSE f : Is(f))
    BY <2>3
  <2> QED
    BY <2>4 DEF Is
<1> HIDE DEF iter
<1>11. iter[{}] \in V[{}]
  <2>1. iter[{}] = t
    BY <1>10
  <2> QED
    BY <1>6, <2>1
<1>12. ASSUME NEW u \in SUBSET S, u # {}, iter[u \ {C[u]}] \in V[u \ {C[u]}]
       PROVE  iter[u] \in V[u]
  <2> DEFINE i == Min(u)
             rest == u \ {i}
  <2>1. i \in S /\ i \in u /\ C[u] = i /\ rest \in SUBSET S /\ u = rest \cup {i}
    BY <1>4, <1>12
  <2>2. iter[u] = After(iter[rest], i)
    BY <1>10, <1>12
  <2>3. iter[rest] \in V[rest]
    BY <1>12, <2>1
  <2> HIDE DEF W, After, C, rest, i
  <2>4. rest \cup {i} \in SUBSET S
    BY <2>1
  <2>5. /\ iter[rest] \in W
        /\ \A k \in rest : list[k] \in shown => list[k] \in Visible(iter[rest])
    BY <2>1, <2>3
  <2>6. After(iter[rest], i) \in V[rest \cup {i}]
    BY <1>7, <2>1, <2>4, <2>5
  <2> HIDE DEF V
  <2> QED
    BY <2>1, <2>2, <2>6
<1>13. iter[S] \in V[S]
  <2> HIDE DEF V, C
  <2> QED
    BY <1>3, <1>4, <1>11, <1>12, RecursionStays
<1> DEFINE r == ShowViews(t, n, shown)
<1>14. Raises(t, r) /\ \A i \in S : list[i] \in shown => list[i] \in Visible(r)
  BY <1>1, <1>13
<1> HIDE DEF r
<1>15. \A v \in On(t, n) : v \in shown => v \in Visible(r)
  <2>1. On(t, n) = ToSet(list)
    BY DEF On, list
  <2> QED
    BY <1>2, <1>3, <1>14, <2>1, InList
<1> QED
  BY <1>14, <1>15 DEF Raises, r

LEMMA RaiseFloatingRaises ==
  ASSUME NEW t \in States, Shelved(t), NEW n \in SheetNr
  PROVE  Raises(t, RaiseFloating(t, n))
<1> DEFINE list == t.sheet_views[n]
<1> DEFINE S == DOMAIN list
           W == {w \in States : Raises(t, w)}
           C == [u \in SUBSET S |-> Min(u)]
           V == [u \in SUBSET S |-> W]
           After(w, i) == IF list[i] \in floating /\ ~IsHidden(w, list[i])
                          THEN Raise(w, list[i]) ELSE w
           step == [p \in S \X W |-> After(p[2], p[1])]
           iter == CHOOSE iter : iter = [u \in SUBSET S |->
                     IF u = {} THEN t ELSE After(iter[u \ {Min(u)}], Min(u))]
<1>1. RaiseFloating(t, n) = iter[S]
  BY DEF RaiseFloating, FoldRight, MapThenFoldSet, list
<1>2. list \in Seq(View)
  BY DEF States
<1> HIDE DEF list
<1>3. S = 1 .. Len(list) /\ Len(list) \in Nat /\ IsFiniteSet(S)
  BY <1>2, PlacesAreFinite
<1>4. \A u \in SUBSET S : u # {} => C[u] \in u /\ C[u] = Min(u)
  <2> HIDE DEF S
  <2> QED
    BY <1>3, FirstPlace
<1>5. \A i \in S : list[i] \in View
  BY <1>2, <1>3, InList
<1> HIDE DEF S
<1>6. t \in W
  BY NothingIsRaised
<1>7. ASSUME NEW i \in S, NEW w \in W PROVE After(w, i) \in W
  <2>1. w \in States /\ Shelved(w) /\ Raises(t, w) /\ list[i] \in View
    BY <1>5 DEF Raises, Moves
  <2>2. ~IsHidden(w, list[i]) => Raises(t, Raise(w, list[i]))
    BY <2>1, HiddenIsNotVisible, RaiseRaises, RaisedTwice
  <2> QED
    BY <2>1, <2>2 DEF Raises, Moves
<1>8. step \in [S \X W -> W]
  <2> HIDE DEF After, W
  <2> QED
    BY <1>7
<1>9. PICK g : IsRecursion(g, S, W, t, C, step)
  <2> HIDE DEF step, W, C
  <2> QED
    BY <1>3, <1>4, <1>6, <1>8, RecursionExists
<1>10. iter = [u \in SUBSET S |->
                 IF u = {} THEN t ELSE After(iter[u \ {Min(u)}], Min(u))]
  <2> DEFINE Is(f) == f = [u \in SUBSET S |->
                IF u = {} THEN t ELSE After(f[u \ {Min(u)}], Min(u))]
  <2>1. g \in [SUBSET S -> W]
    BY <1>9 DEF IsRecursion
  <2>2. ASSUME NEW u \in SUBSET S
        PROVE  g[u] = IF u = {} THEN t ELSE After(g[u \ {Min(u)}], Min(u))
    <3>1. g[u] = IF u = {} THEN t ELSE step[<<C[u], g[u \ {C[u]}]>>]
      BY <1>9 DEF IsRecursion
    <3>2. ASSUME u # {}
          PROVE  step[<<C[u], g[u \ {C[u]}]>>] = After(g[u \ {Min(u)}], Min(u))
      <4>1. C[u] \in S /\ C[u] = Min(u) /\ g[u \ {C[u]}] \in W
        BY <1>4, <2>1, <3>2
      <4> HIDE DEF After, W, C
      <4> QED
        BY <4>1
    <3> QED
      BY <3>1, <3>2
  <2>3. Is(g)
    <3> HIDE DEF After, W
    <3> QED
      BY <2>1, <2>2
  <2> HIDE DEF Is
  <2>4. Is(CHOOSE f : Is(f))
    BY <2>3
  <2> QED
    BY <2>4 DEF Is
<1> HIDE DEF iter
<1>11. iter[{}] \in V[{}]
  <2>1. iter[{}] = t
    BY <1>10
  <2> QED
    BY <1>6, <2>1
<1>12. ASSUME NEW u \in SUBSET S, u # {}, iter[u \ {C[u]}] \in V[u \ {C[u]}]
       PROVE  iter[u] \in V[u]
  <2> DEFINE i == Min(u)
             rest == u \ {i}
  <2>1. i \in S /\ i \in u /\ C[u] = i /\ rest \in SUBSET S /\ u = rest \cup {i}
    BY <1>4, <1>12
  <2>2. iter[u] = After(iter[rest], i)
    BY <1>10, <1>12
  <2>3. iter[rest] \in V[rest]
    BY <1>12, <2>1
  <2> HIDE DEF W, After
  <2> QED
    BY <1>7, <2>1, <2>2, <2>3
<1>13. iter[S] \in V[S]
  <2> HIDE DEF V, C
  <2> QED
    BY <1>3, <1>4, <1>11, <1>12, RecursionStays
<1> QED
  BY <1>1, <1>13

LEMMA RestackTilesRaises ==
  ASSUME NEW t \in States, Shelved(t), NEW n \in SheetNr, t.layout[n] # NULL
  PROVE  Raises(t, RestackTiles(t, n))
<1> DEFINE list == t.layout[n]
<1> DEFINE S == DOMAIN list
           W == {w \in States : Raises(t, w)}
           C == [u \in SUBSET S |-> Min(u)]
           V == [u \in SUBSET S |-> W]
           After(w, i) == RaiseTile(w, list[i][1])
           step == [p \in S \X W |-> After(p[2], p[1])]
           iter == CHOOSE iter : iter = [u \in SUBSET S |->
                     IF u = {} THEN t ELSE After(iter[u \ {Min(u)}], Min(u))]
<1>1. RestackTiles(t, n) = iter[S]
  BY DEF RestackTiles, FoldRight, MapThenFoldSet, list
<1>2. list \in Seq(View \X {"tile", "pending"})
  BY DEF States
<1> HIDE DEF list
<1>3. S = 1 .. Len(list) /\ Len(list) \in Nat /\ IsFiniteSet(S)
  BY <1>2, PlacesAreFinite
<1>4. \A u \in SUBSET S : u # {} => C[u] \in u /\ C[u] = Min(u)
  <2> HIDE DEF S
  <2> QED
    BY <1>3, FirstPlace
<1>5. \A i \in S : list[i] \in View \X {"tile", "pending"}
  BY <1>2, <1>3, InList
<1> HIDE DEF S
<1>6. t \in W
  BY NothingIsRaised
<1>7. ASSUME NEW i \in S, NEW w \in W PROVE After(w, i) \in W
  <2> DEFINE v == list[i][1]
  <2>1. w \in States /\ Shelved(w) /\ Raises(t, w) /\ v \in View
    BY <1>5 DEF Raises, Moves
  <2> HIDE DEF v
  <2>2. Raises(t, RaiseTile(w, v))
    BY <2>1, HiddenIsNotVisible, RaiseViewRaises, RaiseRaises, RaisedTwice DEF RaiseTile
  <2> QED
    BY <2>1, <2>2 DEF Raises, Moves, v
<1>8. step \in [S \X W -> W]
  <2> HIDE DEF After, W
  <2> QED
    BY <1>7
<1>9. PICK g : IsRecursion(g, S, W, t, C, step)
  <2> HIDE DEF step, W, C
  <2> QED
    BY <1>3, <1>4, <1>6, <1>8, RecursionExists
<1>10. iter = [u \in SUBSET S |->
                 IF u = {} THEN t ELSE After(iter[u \ {Min(u)}], Min(u))]
  <2> DEFINE Is(f) == f = [u \in SUBSET S |->
                IF u = {} THEN t ELSE After(f[u \ {Min(u)}], Min(u))]
  <2>1. g \in [SUBSET S -> W]
    BY <1>9 DEF IsRecursion
  <2>2. ASSUME NEW u \in SUBSET S
        PROVE  g[u] = IF u = {} THEN t ELSE After(g[u \ {Min(u)}], Min(u))
    <3>1. g[u] = IF u = {} THEN t ELSE step[<<C[u], g[u \ {C[u]}]>>]
      BY <1>9 DEF IsRecursion
    <3>2. ASSUME u # {}
          PROVE  step[<<C[u], g[u \ {C[u]}]>>] = After(g[u \ {Min(u)}], Min(u))
      <4>1. C[u] \in S /\ C[u] = Min(u) /\ g[u \ {C[u]}] \in W
        BY <1>4, <2>1, <3>2
      <4> HIDE DEF After, W, C
      <4> QED
        BY <4>1
    <3> QED
      BY <3>1, <3>2
  <2>3. Is(g)
    <3> HIDE DEF After, W
    <3> QED
      BY <2>1, <2>2
  <2> HIDE DEF Is
  <2>4. Is(CHOOSE f : Is(f))
    BY <2>3
  <2> QED
    BY <2>4 DEF Is
<1> HIDE DEF iter
<1>11. iter[{}] \in V[{}]
  <2>1. iter[{}] = t
    BY <1>10
  <2> QED
    BY <1>6, <2>1
<1>12. ASSUME NEW u \in SUBSET S, u # {}, iter[u \ {C[u]}] \in V[u \ {C[u]}]
       PROVE  iter[u] \in V[u]
  <2> DEFINE i == Min(u)
             rest == u \ {i}
  <2>1. i \in S /\ i \in u /\ C[u] = i /\ rest \in SUBSET S /\ u = rest \cup {i}
    BY <1>4, <1>12
  <2>2. iter[u] = After(iter[rest], i)
    BY <1>10, <1>12
  <2>3. iter[rest] \in V[rest]
    BY <1>12, <2>1
  <2> HIDE DEF W, After
  <2> QED
    BY <1>7, <2>1, <2>2, <2>3
<1>13. iter[S] \in V[S]
  <2> HIDE DEF V, C
  <2> QED
    BY <1>3, <1>4, <1>11, <1>12, RecursionStays
<1> QED
  BY <1>1, <1>13

LEMMA RaisePrependableRaises ==
  ASSUME NEW t \in States, Shelved(t), NEW n \in SheetNr,
         \A v \in On(t, n) \ invisible : v \in Visible(t)
  PROVE  Raises(t, RaisePrependable(t, n))
<1> DEFINE list == t.sheet_views[n]
<1> DEFINE S == DOMAIN list
           W == {w \in States : Raises(t, w)}
           C == [u \in SUBSET S |-> Min(u)]
           V == [u \in SUBSET S |-> W]
           After(w, i) == IF w.tile[list[i]] = NULL /\ IsTileable(w, list[i])
                          THEN Raise(w, list[i]) ELSE w
           step == [p \in S \X W |-> After(p[2], p[1])]
           iter == CHOOSE iter : iter = [u \in SUBSET S |->
                     IF u = {} THEN t ELSE After(iter[u \ {Min(u)}], Min(u))]
<1>1. RaisePrependable(t, n) = iter[S]
  BY DEF RaisePrependable, FoldRight, MapThenFoldSet, list
<1>2. list \in Seq(View)
  BY DEF States
<1> HIDE DEF list
<1>3. S = 1 .. Len(list) /\ Len(list) \in Nat /\ IsFiniteSet(S)
  BY <1>2, PlacesAreFinite
<1>4. \A u \in SUBSET S : u # {} => C[u] \in u /\ C[u] = Min(u)
  <2> HIDE DEF S
  <2> QED
    BY <1>3, FirstPlace
<1>5. \A i \in S : list[i] \in View
  BY <1>2, <1>3, InList
<1> HIDE DEF S
<1>6. t \in W
  BY NothingIsRaised
<1>7. ASSUME NEW i \in S, NEW w \in W PROVE After(w, i) \in W
  <2>1. w \in States /\ Shelved(w) /\ Raises(t, w) /\ list[i] \in View
    BY <1>5 DEF Raises, Moves
  <2>2. list[i] \in On(t, n)
    BY <1>2, <1>3, InList DEF On, list
  <2>3. IsTileable(w, list[i]) => Raises(t, Raise(w, list[i]))
    <3>1. IsTileable(w, list[i]) => list[i] \in Visible(w)
      BY <2>1, <2>2 DEF IsTileable, Raises
    <3> QED
      BY <2>1, <3>1, RaiseRaises, RaisedTwice
  <2> QED
    BY <2>1, <2>3 DEF Raises, Moves
<1>8. step \in [S \X W -> W]
  <2> HIDE DEF After, W
  <2> QED
    BY <1>7
<1>9. PICK g : IsRecursion(g, S, W, t, C, step)
  <2> HIDE DEF step, W, C
  <2> QED
    BY <1>3, <1>4, <1>6, <1>8, RecursionExists
<1>10. iter = [u \in SUBSET S |->
                 IF u = {} THEN t ELSE After(iter[u \ {Min(u)}], Min(u))]
  <2> DEFINE Is(f) == f = [u \in SUBSET S |->
                IF u = {} THEN t ELSE After(f[u \ {Min(u)}], Min(u))]
  <2>1. g \in [SUBSET S -> W]
    BY <1>9 DEF IsRecursion
  <2>2. ASSUME NEW u \in SUBSET S
        PROVE  g[u] = IF u = {} THEN t ELSE After(g[u \ {Min(u)}], Min(u))
    <3>1. g[u] = IF u = {} THEN t ELSE step[<<C[u], g[u \ {C[u]}]>>]
      BY <1>9 DEF IsRecursion
    <3>2. ASSUME u # {}
          PROVE  step[<<C[u], g[u \ {C[u]}]>>] = After(g[u \ {Min(u)}], Min(u))
      <4>1. C[u] \in S /\ C[u] = Min(u) /\ g[u \ {C[u]}] \in W
        BY <1>4, <2>1, <3>2
      <4> HIDE DEF After, W, C
      <4> QED
        BY <4>1
    <3> QED
      BY <3>1, <3>2
  <2>3. Is(g)
    <3> HIDE DEF After, W
    <3> QED
      BY <2>1, <2>2
  <2> HIDE DEF Is
  <2>4. Is(CHOOSE f : Is(f))
    BY <2>3
  <2> QED
    BY <2>4 DEF Is
<1> HIDE DEF iter
<1>11. iter[{}] \in V[{}]
  <2>1. iter[{}] = t
    BY <1>10
  <2> QED
    BY <1>6, <2>1
<1>12. ASSUME NEW u \in SUBSET S, u # {}, iter[u \ {C[u]}] \in V[u \ {C[u]}]
       PROVE  iter[u] \in V[u]
  <2> DEFINE i == Min(u)
             rest == u \ {i}
  <2>1. i \in S /\ i \in u /\ C[u] = i /\ rest \in SUBSET S /\ u = rest \cup {i}
    BY <1>4, <1>12
  <2>2. iter[u] = After(iter[rest], i)
    BY <1>10, <1>12
  <2>3. iter[rest] \in V[rest]
    BY <1>12, <2>1
  <2> HIDE DEF W, After
  <2> QED
    BY <1>7, <2>1, <2>2, <2>3
<1>13. iter[S] \in V[S]
  <2> HIDE DEF V, C
  <2> QED
    BY <1>3, <1>4, <1>11, <1>12, RecursionStays
<1> QED
  BY <1>1, <1>13

(* All views of a sheet that are to be shown are, when it is displayed.     *)
LEMMA DisplayedSound ==
  ASSUME NEW t, NEW off, Sound(t, off), NEW s \in SheetNr
  PROVE  /\ Sound(Displayed(t, s), off)
         /\ Displayed(t, s).current_sheet = s /\ Displayed(t, s).layout = t.layout
         /\ Displayed(t, s).aborted = t.aborted
         /\ \A v \in On(Displayed(t, s), s) \ invisible : v \in Visible(Displayed(t, s))
<1> DEFINE there == [t EXCEPT !.current_sheet = s]
           clear == Cleared(there)
           shown == View \ invisible
           bottom == ShowViews(clear, 0, shown)
           both == ShowViews(bottom, s, shown)
<1>1. t \in States /\ Shelved(t) /\ Follows(t) /\ Linked(t) /\ Normal(t, off)
  BY DEF Sound
<1>2. /\ clear \in States
      /\ clear.current_sheet = s /\ clear.view_sheet = t.view_sheet
      /\ clear.operation = t.operation /\ clear.op_tile = t.op_tile /\ clear.tile = t.tile
      /\ clear.layout = t.layout /\ clear.maximized = t.maximized /\ clear.aborted = t.aborted
      /\ clear.sheet_views = t.sheet_views
  <2> DEFINE Same(x) ==
        /\ x.current_sheet = s /\ x.view_sheet = t.view_sheet
        /\ x.operation = t.operation /\ x.op_tile = t.op_tile /\ x.tile = t.tile
        /\ x.layout = t.layout /\ x.maximized = t.maximized /\ x.aborted = t.aborted
        /\ x.sheet_views = t.sheet_views
  <2>1. there \in States /\ Same(there)
    BY <1>1 DEF States
  <2> HIDE DEF there
  <2>2. clear = [there EXCEPT !.visible_views = <<>>]
    BY DEF Cleared
  <2>3. clear \in States
    <3>1. <<>> \in Seq(View)
      OBVIOUS
    <3> QED
      BY <2>1, <2>2, <3>1 DEF States
  <2>4. Same(clear)
    BY <2>1, <2>2 DEF States
  <2> HIDE DEF clear
  <2> QED
    BY <2>3, <2>4
<1>3. 0 \in SheetNr
  BY SheetAssumption
<1>4. Displayed(t, s) = IF s = 0 THEN bottom ELSE both
  BY DEF Displayed
<1> HIDE DEF clear
<1>5. Sound(clear, off)
  <2>1. Shelved(clear)
    BY <1>1, <1>2 DEF Shelved, IsMapped, On
  <2>2. Follows(clear)
    BY <1>1, <1>2 DEF Follows, IsMapped, On
  <2>3. Linked(clear)
    BY <1>1, <1>2 DEF Linked, IsLinked, TilesOf
  <2>4. Normal(clear, off)
    BY <1>1, <1>2 DEF Normal
  <2> QED
    BY <1>2, <2>1, <2>2, <2>3, <2>4 DEF Sound
<1>6. Raises(clear, bottom) /\ \A v \in shown \cap On(bottom, 0) : v \in Visible(bottom)
  BY <1>3, <1>5, ShowViewsRaises DEF Sound
<1> HIDE DEF bottom
<1>7. bottom \in States /\ Shelved(bottom)
  BY <1>6 DEF Raises, Moves
<1>8. Raises(bottom, both) /\ \A v \in shown \cap On(both, s) : v \in Visible(both)
  BY <1>7, ShowViewsRaises
<1> HIDE DEF both
<1>9. Raises(clear, both)
  BY <1>6, <1>8, RaisedTwice
<1> DEFINE r == IF s = 0 THEN bottom ELSE both
<1>10. Raises(clear, r) /\ \A v \in shown \cap On(r, s) : v \in Visible(r)
  BY <1>6, <1>8, <1>9
<1>11. Sound(r, off)
  BY <1>5, <1>10, MovesSound DEF Raises
<1>12. On(r, s) \subseteq View
  <2>1. r.sheet_views[s] \in Seq(View)
    BY <1>11 DEF Sound, States
  <2> QED
    BY <2>1, InList DEF On
<1> HIDE DEF r
<1> QED
  BY <1>2, <1>4, <1>10, <1>11, <1>12 DEF r, Raises, Moves, SameTiles

LEMMA AbortedSound ==
  ASSUME NEW t, NEW off, Sound(t, off), NEW failure \in Ends
  PROVE  Sound([t EXCEPT !.aborted = failure], off)
<1> DEFINE u == [t EXCEPT !.aborted = failure]
<1>1. /\ u \in States
      /\ u.current_sheet = t.current_sheet /\ u.view_sheet = t.view_sheet
      /\ u.operation = t.operation /\ u.op_tile = t.op_tile /\ u.tile = t.tile
      /\ u.layout = t.layout /\ u.maximized = t.maximized
      /\ u.sheet_views = t.sheet_views
  BY DEF Sound, States
<1> HIDE DEF u
<1>2. Shelved(u)
  BY <1>1 DEF Sound, Shelved, IsMapped, On
<1>3. Follows(u)
  BY <1>1 DEF Sound, Follows, IsMapped, On
<1>4. Linked(u)
  BY <1>1 DEF Sound, Linked, IsLinked, TilesOf
<1>5. Normal(u, off)
  BY <1>1 DEF Sound, Normal
<1> QED
  BY <1>1, <1>2, <1>3, <1>4, <1>5 DEF Sound, u

LEMMA FailSound ==
  ASSUME NEW t, NEW off, Sound(t, off), NEW failure \in Ends
  PROVE  Sound(Fail(t, failure), off)
BY AbortedSound DEF Fail

-----------------------------------------------------------------------------
(* Operations                                                              *)

(* What a view's operation leaves alone: everything of the other views, and *)
(* that there are layouts.                                                  *)
Changes(s, t, v) ==
    /\ t.current_sheet = s.current_sheet /\ t.view_sheet = s.view_sheet
    /\ t.aborted = s.aborted
    /\ \A w \in View \ {v} : t.operation[w] = s.operation[w]
    /\ \A n \in SheetNr : s.layout[n] # NULL => t.layout[n] # NULL
    /\ \A w \in View : IsMapped(s, w) => IsMapped(t, w)

LEMMA ApplyMoves ==
  ASSUME NEW t \in States, Shelved(t), NEW v \in View
  PROVE  Moves(t, Apply(t, v))
BY SheetsMove, RaiseViewRaises DEF Apply, Raises

(* An operation without a tile is done: at most, the view has lost the tile *)
(* that it had out of any layout.                                           *)
LEMMA DoneSound ==
  ASSUME NEW t, NEW off, Sound(t, off), NEW v \in View, t.operation[v] # "tile",
         NEW m \in Maximized, NEW r \in {t.tile[v], NULL}, r # Detached,
         r # t.tile[v] => t.tile[v] \notin SheetNr,
         NEW u, Moves([t EXCEPT !.tile[v] = r, !.maximized[v] = m], u)
  PROVE  /\ Sound([u EXCEPT !.operation[v] = "none"], off)
         /\ Changes(t, [u EXCEPT !.operation[v] = "none"], v)
<1> DEFINE x == [t EXCEPT !.tile[v] = r, !.maximized[v] = m]
           done == [u EXCEPT !.operation[v] = "none"]
<1> t \in States
  BY DEF Sound
<1>1. /\ x.current_sheet = t.current_sheet /\ x.view_sheet = t.view_sheet
      /\ x.operation = t.operation /\ x.op_tile = t.op_tile
      /\ x.tile = [t.tile EXCEPT ![v] = r] /\ x.layout = t.layout
      /\ x.maximized = [t.maximized EXCEPT ![v] = m] /\ x.aborted = t.aborted
      /\ x.sheet_views = t.sheet_views
  BY DEF States
<1>2. /\ u \in States /\ Shelved(u)
      /\ \A w \in View : IsMapped(t, w) => IsMapped(u, w)
  BY <1>1 DEF Moves, IsMapped, On
<1>3. /\ u.current_sheet = t.current_sheet /\ u.view_sheet = t.view_sheet
      /\ u.operation = t.operation /\ u.op_tile = t.op_tile
      /\ u.tile = [t.tile EXCEPT ![v] = r] /\ u.layout = t.layout
      /\ u.maximized = [t.maximized EXCEPT ![v] = m] /\ u.aborted = t.aborted
  BY <1>1 DEF Moves, SameTiles
<1> HIDE DEF x
<1>4. /\ done \in States
      /\ done.current_sheet = t.current_sheet /\ done.view_sheet = t.view_sheet
      /\ done.operation = [t.operation EXCEPT ![v] = "none"] /\ done.op_tile = t.op_tile
      /\ done.tile = [t.tile EXCEPT ![v] = r] /\ done.layout = t.layout
      /\ done.maximized = [t.maximized EXCEPT ![v] = m] /\ done.aborted = t.aborted
      /\ done.sheet_views = u.sheet_views
  BY <1>2, <1>3 DEF States, Operation
<1> HIDE DEF done
<1>5. /\ t.operation \in [View -> Operation] /\ t.tile \in [View -> SheetNr \cup {NULL, Detached}]
      /\ t.maximized \in [View -> Maximized]
  BY DEF States
<1>6. \A w \in View : IsMapped(t, w) => IsMapped(done, w)
  BY <1>2, <1>4 DEF IsMapped, On
<1>7. Shelved(done)
  BY <1>2, <1>3, <1>4 DEF Shelved, IsMapped, On
<1>8. Follows(done)
  BY <1>4, <1>5, <1>6, NullAssumption DEF Sound, Follows
<1>9. Linked(done)
  BY <1>4, <1>5, NullAssumption DEF Sound, Linked, IsLinked, TilesOf
<1>10. Normal(done, off)
  BY <1>4, <1>5, NullAssumption DEF Sound, Normal
<1>11. Sound(done, off)
  BY <1>4, <1>7, <1>8, <1>9, <1>10 DEF Sound
<1>12. Changes(t, done, v)
  BY <1>4, <1>5, <1>6 DEF Changes
<1> QED
  BY <1>11, <1>12 DEF done

LEMMA CommitTileSound ==
  ASSUME NEW t, NEW off, Sound(t, off), NEW v \in View, t.operation[v] = "tile"
  PROVE  /\ Sound([CommitTile(t, v) EXCEPT !.operation[v] = "none"], off)
         /\ Changes(t, [CommitTile(t, v) EXCEPT !.operation[v] = "none"], v)
<1> DEFINE Done(s) == ReplaceAll(RemoveFirst(t.layout[s], <<v, "tile">>), <<v, "pending">>, <<v,
    "tile">>)
           new == [s \in SheetNr |-> IF t.layout[s] = NULL THEN NULL ELSE Done(s)]
           u == [CommitTile(t, v) EXCEPT !.operation[v] = "none"]
           Tile == View \X {"tile", "pending"}
<1> t \in States
  BY DEF Sound
<1>1. t.tile[v] # Detached /\ t.op_tile[v] # NULL /\ IsMapped(t, v) /\ v \notin off
  BY NullAssumption DEF Sound, Follows, Normal
<1>2. ASSUME NEW s \in SheetNr, t.layout[s] # NULL
      PROVE  /\ Done(s) \in Seq(Tile) /\ IsInjective(Done(s))
             /\ \A e : e \in ToSet(Done(s)) <=>
                   \/ e \in ToSet(t.layout[s]) /\ e # <<v, "tile">> /\ e # <<v, "pending">>
                   \/ e = <<v, "tile">> /\ <<v, "pending">> \in ToSet(t.layout[s])
  <2> DEFINE list == t.layout[s]
             rest == RemoveFirst(list, <<v, "tile">>)
  <2>1. list \in Seq(Tile)
    BY <1>2 DEF States
  <2>2. IsInjective(list)
    BY <1>2 DEF Sound, Linked, TilesOf
  <2> HIDE DEF list
  <2>3. rest \in Seq(Tile) /\ IsInjective(rest) /\ ToSet(rest) = ToSet(list) \ {<<v, "tile">>}
    <3> HIDE DEF Tile
    <3> QED
      BY <2>1, <2>2, RemoveFirstIsList
  <2>4. Done(s) = ReplaceAll(rest, <<v, "pending">>, <<v, "tile">>)
    BY DEF list
  <2> HIDE DEF rest
  <2>5. <<v, "pending">> \in Tile /\ <<v, "tile">> \in Tile /\ <<v, "pending">> # <<v, "tile">>
    OBVIOUS
  <2> DEFINE all == ReplaceAll(rest, <<v, "pending">>, <<v, "tile">>)
  <2>6. /\ all \in Seq(Tile)
        /\ \A e : e \in ToSet(all) <=>
                    \/ e \in ToSet(rest) /\ e # <<v, "pending">>
                    \/ e = <<v, "tile">> /\ <<v, "pending">> \in ToSet(rest)
        /\ IsInjective(all)
    <3>1. <<v, "tile">> \notin ToSet(rest)
      BY <2>3
    <3> HIDE DEF Tile
    <3>2. Replaced(Tile, rest, <<v, "pending">>, <<v, "tile">>)
      BY <2>3, <2>5, ReplacedAll
    <3> QED
      BY <2>3, <3>1, <3>2 DEF Replaced
  <2> HIDE DEF all, Done, Tile
  <2>7. Done(s) = all
    BY <2>4 DEF all
  <2> QED
    BY <2>3, <2>5, <2>6, <2>7 DEF list
<1> HIDE DEF Done
<1>3. new \in [SheetNr -> {NULL} \cup Seq(Tile)]
  BY <1>2
<1>4. CommitTile(t, v) = [t EXCEPT !.layout = new, !.tile[v] = t.op_tile[v],
                                   !.op_tile[v] = NULL, !.maximized[v] = "none"]
  BY <1>1 DEF CommitTile, Done
<1>5. \A s \in SheetNr : new[s] = IF t.layout[s] = NULL THEN NULL ELSE Done(s)
  OBVIOUS
<1> HIDE DEF new
<1>6. /\ t.operation \in [View -> Operation] /\ t.tile \in [View -> SheetNr \cup {NULL, Detached}]
      /\ t.op_tile \in [View -> SheetNr \cup {NULL}] /\ t.maximized \in [View -> Maximized]
      /\ t.op_tile[v] \in SheetNr
  BY <1>1 DEF States
<1>7. /\ u \in States
      /\ u.current_sheet = t.current_sheet /\ u.view_sheet = t.view_sheet
      /\ u.sheet_views = t.sheet_views /\ u.aborted = t.aborted /\ u.layout = new
      /\ u.operation = [t.operation EXCEPT ![v] = "none"]
      /\ u.tile = [t.tile EXCEPT ![v] = t.op_tile[v]]
      /\ u.op_tile = [t.op_tile EXCEPT ![v] = NULL]
      /\ u.maximized = [t.maximized EXCEPT ![v] = "none"]
  <2> DEFINE w == CommitTile(t, v)
             op == t.op_tile[v]
  <2>1. op \in SheetNr
    BY <1>6
  <2> HIDE DEF op
  <2>2. w = [t EXCEPT !.layout = new, !.tile[v] = op, !.op_tile[v] = NULL, !.maximized[v] = "none"]
    BY <1>4 DEF op
  <2>3. "none" \in Maximized /\ "none" \in Operation
    BY DEF Maximized, Operation
  <2> HIDE DEF w
  <2>4. /\ w.current_sheet = t.current_sheet /\ w.view_sheet = t.view_sheet
        /\ w.sheet_views = t.sheet_views /\ w.aborted = t.aborted /\ w.layout = new
        /\ w.operation = t.operation
        /\ w.tile = [t.tile EXCEPT ![v] = op]
        /\ w.op_tile = [t.op_tile EXCEPT ![v] = NULL]
        /\ w.maximized = [t.maximized EXCEPT ![v] = "none"]
    BY <2>2 DEF States
  <2>5. w \in States
    BY <1>3, <1>6, <2>1, <2>2, <2>3 DEF States
  <2>6. u = [w EXCEPT !.operation[v] = "none"]
    BY DEF w
  <2> HIDE DEF u
  <2>7. u \in States
    BY <2>3, <2>5, <2>6 DEF States
  <2>8. /\ u.current_sheet = w.current_sheet /\ u.view_sheet = w.view_sheet
        /\ u.sheet_views = w.sheet_views /\ u.aborted = w.aborted /\ u.layout = w.layout
        /\ u.operation = [w.operation EXCEPT ![v] = "none"]
        /\ u.tile = w.tile /\ u.op_tile = w.op_tile /\ u.maximized = w.maximized
    BY <2>5, <2>6 DEF States
  <2> QED
    BY <2>4, <2>7, <2>8 DEF op
<1> HIDE DEF u
<1>8. \A w : IsMapped(u, w) <=> IsMapped(t, w)
  BY <1>7 DEF IsMapped, On
<1>9. Shelved(u)
  BY <1>7, <1>8 DEF Sound, Shelved
<1>10. Follows(u)
  BY <1>1, <1>6, <1>7, <1>8, NullAssumption DEF Sound, Follows
<1>11. Linked(u)
  <2> SUFFICES ASSUME NEW s \in SheetNr
               PROVE  /\ IsInjective(TilesOf(u, s))
                      /\ \A w \in View : /\ IsLinked(u, s, w, "tile") <=> u.tile[w] = s
                                         /\ IsLinked(u, s, w, "pending") <=> u.op_tile[w] = s
    BY DEF Linked
  <2>1. /\ \A w \in View : /\ IsLinked(t, s, w, "tile") <=> t.tile[w] = s
                           /\ IsLinked(t, s, w, "pending") <=> t.op_tile[w] = s
        /\ IsInjective(TilesOf(t, s)) /\ s # NULL
    BY NullAssumption DEF Sound, Linked
  <2>2. CASE t.layout[s] = NULL
    <3>1. TilesOf(u, s) = TilesOf(t, s)
      BY <1>5, <1>7, <2>2 DEF TilesOf
    <3>2. \A w \in View : ~IsLinked(t, s, w, "tile") /\ ~IsLinked(t, s, w, "pending")
      BY <2>2 DEF IsLinked, TilesOf, ToSet
    <3>3. \A w \in View : u.tile[w] # s /\ u.op_tile[w] # s
      BY <1>6, <1>7, <2>1, <3>2
    <3> QED
      BY <2>1, <3>1, <3>2, <3>3 DEF IsLinked
  <2>3. CASE t.layout[s] # NULL
    <3>1. TilesOf(t, s) = t.layout[s] /\ Done(s) # NULL
      BY <1>2, <2>3, NullAssumption DEF TilesOf
    <3>2. TilesOf(u, s) = Done(s)
      BY <1>5, <1>7, <2>3, <3>1 DEF TilesOf
    <3>3. ASSUME NEW w \in View, NEW how \in {"tile", "pending"}
          PROVE  IsLinked(u, s, w, how) <=>
                   IF w # v THEN IsLinked(t, s, w, how)
                   ELSE how = "tile" /\ IsLinked(t, s, v, "pending")
      BY <1>2, <2>3, <3>1, <3>2 DEF IsLinked
    <3>4. IsInjective(TilesOf(u, s))
      BY <1>2, <2>3, <3>2
    <3> QED
      BY <1>6, <1>7, <2>1, <3>3, <3>4
  <2> QED
    BY <2>2, <2>3
<1>12. Normal(u, off)
  BY <1>1, <1>6, <1>7 DEF Sound, Normal
<1>13. Changes(t, u, v)
  <2>1. \A s \in SheetNr : t.layout[s] # NULL => u.layout[s] # NULL
    BY <1>2, <1>5, <1>7, NullAssumption
  <2> QED
    BY <1>6, <1>7, <1>8, <2>1 DEF Changes
<1> QED
  BY <1>7, <1>9, <1>10, <1>11, <1>12, <1>13 DEF Sound, u

LEMMA CommitOperationSound ==
  ASSUME NEW t, NEW off, Sound(t, off), NEW v \in View
  PROVE  Sound(CommitOperation(t, v), off) /\ Changes(t, CommitOperation(t, v), v)
<1> DEFINE X(r, m) == [t EXCEPT !.tile[v] = r, !.maximized[v] = m]
           o == t.operation[v]
<1> t \in States /\ Shelved(t)
  BY DEF Sound
<1>1. o \in Operation /\ t.tile[v] \in SheetNr \cup {NULL, Detached} /\ t.maximized[v] \in Maximized
  BY DEF States
<1>2. ASSUME NEW r \in SheetNr \cup {NULL, Detached}, NEW m \in Maximized
      PROVE  Moves(X(r, m), Apply(X(r, m), v))
  <2>1. X(r, m) \in States /\ X(r, m).sheet_views = t.sheet_views /\
            X(r, m).view_sheet = t.view_sheet
    BY DEF States
  <2>2. Shelved(X(r, m))
    BY <2>1 DEF Shelved, IsMapped, On
  <2> HIDE DEF X
  <2> QED
    BY <2>1, <2>2, ApplyMoves
<1>3. /\ X(t.tile[v], t.maximized[v]) = t
      /\ \A m : [t EXCEPT !.maximized[v] = m] = X(t.tile[v], m)
  BY DEF States
<1>4. ASSUME NEW r \in {t.tile[v], NULL}, NEW m \in Maximized, o # "tile", r # Detached,
             r # t.tile[v] => t.tile[v] \notin SheetNr
      PROVE  LET u == [Apply(X(r, m), v) EXCEPT !.operation[v] = "none"]
             IN  Sound(u, off) /\ Changes(t, u, v)
  <2> DEFINE a == Apply(X(r, m), v)
  <2>1. Moves(X(r, m), a)
    BY <1>1, <1>2
  <2> HIDE DEF a
  <2>2. Sound([a EXCEPT !.operation[v] = "none"], off) /\
            Changes(t, [a EXCEPT !.operation[v] = "none"], v)
    BY <1>4, <2>1, DoneSound
  <2> QED
    BY <2>2 DEF a
<1>5. CASE o = "tile"
  <2>1. CommitOperation(t, v) = [CommitTile(t, v) EXCEPT !.operation[v] = "none"]
    BY <1>5 DEF CommitOperation
  <2> QED
    BY <1>5, <2>1, CommitTileSound
<1>6. o # "reset" => t.tile[v] # Detached
  BY DEF Sound, Follows
<1> HIDE DEF X
<1>7. CASE o = "resize"
  <2>1. CommitOperation(t, v) = [Apply(X(t.tile[v], t.maximized[v]),
        v) EXCEPT !.operation[v] = "none"]
    BY <1>3, <1>7 DEF CommitOperation
  <2> QED
    BY <1>1, <1>4, <1>6, <1>7, <2>1
<1>8. CASE o = "reset"
  <2>1. t.tile[v] \notin SheetNr
    BY <1>8 DEF Sound, Follows
  <2>2. CommitOperation(t, v) = [Apply(X(NULL, "none"), v) EXCEPT !.operation[v] = "none"]
    <3>1. CommitReset(t, v) = Apply(X(NULL, "none"), v)
      BY <2>1 DEF CommitReset, X
    <3>2. CommitOperation(t, v) = [CommitReset(t, v) EXCEPT !.operation[v] = "none"]
      BY <1>8 DEF CommitOperation
    <3> QED
      BY <3>1, <3>2
  <2>3. "none" \in Maximized /\ NULL # Detached
    BY NullAssumption DEF Maximized
  <2> QED
    BY <1>4, <1>8, <2>1, <2>2, <2>3
<1>9. CASE o \notin {"tile", "resize", "reset"}
  <2> DEFINE how == IF o = "unmaximize" THEN "none" ELSE o
  <2>1. CommitOperation(t, v) = [CommitMaximize(t, v, how) EXCEPT !.operation[v] = "none"]
    BY <1>9 DEF CommitOperation
  <2>2. PICK m \in Maximized : CommitMaximize(t, v, how) = Apply(X(t.tile[v], m), v)
    <3>1. how \in {"none", "full", "vertical", "horizontal"}
      BY <1>1, <1>9 DEF Operation
    <3>2. how \in {"vertical", "horizontal"} => t.maximized[v] # "vertical"
      BY DEF Sound, Follows
    <3> HIDE DEF how
    <3>3. CASE how \in {"full", "none"}
      <4>1. CommitMaximize(t, v, how) = Apply([t EXCEPT !.maximized[v] = how], v)
        BY <3>3 DEF CommitMaximize
      <4> QED
        BY <1>3, <3>1, <4>1 DEF Maximized
    <3>4. CASE how \notin {"full", "none"} /\ t.maximized[v] = "horizontal"
      BY <1>3, <3>4 DEF CommitMaximize, Maximized
    <3>5. CASE how \notin {"full", "none"} /\ t.maximized[v] # "horizontal"
      BY <1>3, <3>1, <3>2, <3>5 DEF CommitMaximize, Maximized
    <3> QED
      BY <3>3, <3>4, <3>5
  <2> HIDE DEF how
  <2> QED
    BY <1>1, <1>4, <1>6, <1>9, <2>1, <2>2
<1> QED
  BY <1>5, <1>7, <1>8, <1>9

-----------------------------------------------------------------------------
(* Tiles are freed                                                         *)

TypedTiles == [SheetNr -> {NULL} \cup Seq(View \X {"tile", "pending"})]

LosesTile(t, s, v, how, x) ==
  /\ x.layout \in TypedTiles
  /\ \A n \in SheetNr : IsInjective(TilesOf(x, n))
  /\ \A n \in SheetNr, w \in View, h \in {"tile", "pending"} :
       IsLinked(x, n, w, h) <=> IsLinked(t, n, w, h) /\ <<n, w, h>> # <<s, v, how>>

LEMMA TileAway ==
  ASSUME NEW t \in States, Linked(t), NEW s \in SheetNr, NEW v \in View,
         NEW how \in {"tile", "pending"}, IsLinked(t, s, v, how), NEW x,
         x.layout = [t.layout EXCEPT ![s] = Unlinked(@, <<v, how>>)]
  PROVE  LosesTile(t, s, v, how, x)
<1> DEFINE list == t.layout[s]
           rest == RemoveFirst(list, <<v, how>>)
           new == Unlinked(list, <<v, how>>)
           Tile == View \X {"tile", "pending"}
<1>1. t.layout \in TypedTiles /\ list # NULL
  <2>1. list = NULL => ~IsLinked(t, s, v, how)
    BY DEF IsLinked, TilesOf, ToSet
  <2> QED
    BY <2>1 DEF States, TypedTiles
<1>2. list \in Seq(Tile) /\ TilesOf(t, s) = list /\ IsInjective(list)
  BY <1>1 DEF TypedTiles, TilesOf, Linked
<1>3. x.layout = [t.layout EXCEPT ![s] = new]
  OBVIOUS
<1> HIDE DEF list
<1>4. rest \in Seq(Tile) /\ IsInjective(rest) /\ ToSet(rest) = ToSet(list) \ {<<v, how>>}
  <2> HIDE DEF Tile
  <2> QED
    BY <1>2, RemoveFirstIsList
<1>5. new = IF rest = <<>> THEN NULL ELSE rest
  BY DEF Unlinked
<1> HIDE DEF new, rest
<1>6. new \in {NULL} \cup Seq(Tile)
  BY <1>4, <1>5
<1>7. x.layout \in TypedTiles
  BY <1>1, <1>3, <1>6 DEF TypedTiles
<1>8. x.layout[s] = new /\ \A n \in SheetNr \ {s} : x.layout[n] = t.layout[n]
  BY <1>1, <1>3 DEF TypedTiles
<1>9. rest # NULL
  BY <1>4, NullAssumption
<1>10. TilesOf(x, s) = rest
  BY <1>5, <1>8, <1>9 DEF TilesOf
<1>11. \A n \in SheetNr \ {s} : TilesOf(x, n) = TilesOf(t, n)
  BY <1>8 DEF TilesOf
<1>12. \A n \in SheetNr : IsInjective(TilesOf(x, n))
  BY <1>4, <1>10, <1>11 DEF Linked
<1>13. ASSUME NEW n \in SheetNr, NEW w \in View, NEW h \in {"tile", "pending"}
       PROVE  IsLinked(x, n, w, h) <=> IsLinked(t, n, w, h) /\ <<n, w, h>> # <<s, v, how>>
  BY <1>2, <1>4, <1>10, <1>11 DEF IsLinked
<1> QED
  BY <1>7, <1>12, <1>13 DEF LosesTile

(* Nothing but tiles has changed, and they are linked.                      *)
Kept(t, x) ==
  /\ x \in States /\ Linked(x)
  /\ x.current_sheet = t.current_sheet /\ x.view_sheet = t.view_sheet
  /\ x.sheet_views = t.sheet_views /\ x.visible_views = t.visible_views
  /\ x.operation = t.operation /\ x.maximized = t.maximized /\ x.aborted = t.aborted

(* The view has no tile in any layout.                                      *)
Freed(t, v, x) ==
  /\ Kept(t, x)
  /\ x.op_tile = [t.op_tile EXCEPT ![v] = NULL]
  /\ x.tile = [t.tile EXCEPT ![v] = IF t.tile[v] \in SheetNr THEN Detached ELSE t.tile[v]]

LEMMA TilesAreFreed ==
  ASSUME NEW t, NEW off, Sound(t, off), NEW v \in View
  PROVE  Freed(t, v, DetachTile(CancelTile(t, v), v))
<1> DEFINE x == CancelTile(t, v)
           y == DetachTile(x, v)
<1>1. t \in States /\ Linked(t) /\ Follows(t)
  BY DEF Sound
<1>2. /\ t.op_tile \in [View -> SheetNr \cup {NULL}] /\ t.layout \in TypedTiles
      /\ t.tile \in [View -> SheetNr \cup {NULL, Detached}]
  BY <1>1 DEF States, TypedTiles
<1>3. Kept(t, x) /\ x.tile = t.tile /\ x.op_tile = [t.op_tile EXCEPT ![v] = NULL]
  <2>1. CASE t.operation[v] # "tile"
    <3>1. x = t /\ t.op_tile[v] = NULL
      BY <1>1, <2>1 DEF CancelTile, Follows
    <3> QED
      BY <1>1, <1>2, <3>1 DEF Kept
  <2>2. CASE t.operation[v] = "tile"
    <3> DEFINE s == t.op_tile[v]
    <3>1. s \in SheetNr /\ IsLinked(t, s, v, "pending")
      BY <1>1, <1>2, <2>2 DEF Follows, Linked
    <3>2. x = [t EXCEPT !.layout[s] = Unlinked(@, <<v, "pending">>), !.op_tile[v] = NULL]
      BY <2>2 DEF CancelTile
    <3> HIDE DEF x
    <3>3. /\ x.layout = [t.layout EXCEPT ![s] = Unlinked(@, <<v, "pending">>)]
          /\ x.op_tile = [t.op_tile EXCEPT ![v] = NULL] /\ x.tile = t.tile
          /\ x.current_sheet = t.current_sheet /\ x.view_sheet = t.view_sheet
          /\ x.sheet_views = t.sheet_views /\ x.visible_views = t.visible_views
          /\ x.operation = t.operation /\ x.maximized = t.maximized /\ x.aborted = t.aborted
      BY <1>1, <3>2 DEF States
    <3>4. /\ x.layout \in TypedTiles
          /\ \A n \in SheetNr : IsInjective(TilesOf(x, n))
          /\ \A n \in SheetNr, w \in View, h \in {"tile", "pending"} :
               IsLinked(x, n, w, h) <=> IsLinked(t, n, w, h) /\ <<n, w, h>> # <<s, v, "pending">>
      <4>1. "pending" \in {"tile", "pending"}
        OBVIOUS
      <4> HIDE DEF s
      <4>2. LosesTile(t, s, v, "pending", x)
        BY <1>1, <3>1, <3>3, <4>1, TileAway
      <4> QED
        BY <4>2 DEF LosesTile
    <3>5. x.op_tile \in [View -> SheetNr \cup {NULL}]
      BY <1>2, <3>3
    <3>6. x = [t EXCEPT !.layout = x.layout, !.op_tile = x.op_tile]
      BY <1>1, <3>2, <3>3 DEF States
    <3>7. x \in States
      BY <1>1, <3>4, <3>5, <3>6 DEF States, TypedTiles
    <3>8. Linked(x)
      <4> SUFFICES ASSUME NEW n \in SheetNr, NEW w \in View
                   PROVE  /\ IsLinked(x, n, w, "tile") <=> x.tile[w] = n
                          /\ IsLinked(x, n, w, "pending") <=> x.op_tile[w] = n
        BY <3>4 DEF Linked
      <4>1. /\ IsLinked(t, n, w, "tile") <=> t.tile[w] = n
            /\ IsLinked(t, n, w, "pending") <=> t.op_tile[w] = n
            /\ n # NULL
        BY <1>1, NullAssumption DEF Linked
      <4>2. IsLinked(x, n, w, "tile") <=> IsLinked(t, n, w, "tile")
        BY <3>4
      <4>3. IsLinked(x, n, w, "pending") <=> IsLinked(t, n, w, "pending") /\ ~(n = s /\ w = v)
        BY <3>4
      <4> QED
        BY <1>2, <3>3, <4>1, <4>2, <4>3
    <3> QED
      BY <3>3, <3>7, <3>8 DEF Kept
  <2> QED
    BY <2>1, <2>2
<1> HIDE DEF x
<1>4. /\ Kept(x, y) /\ y.op_tile = x.op_tile
      /\ y.tile = [x.tile EXCEPT ![v] = IF x.tile[v] \in SheetNr THEN Detached ELSE x.tile[v]]
  <2>0. /\ x \in States /\ Linked(x) /\ x.tile \in [View -> SheetNr \cup {NULL, Detached}]
        /\ x.op_tile \in [View -> SheetNr \cup {NULL}]
    BY <1>3, <1>2 DEF Kept, States
  <2>1. CASE x.tile[v] \notin SheetNr
    <3>1. y = x
      BY <2>1 DEF DetachTile
    <3> QED
      BY <2>0, <2>1, <3>1 DEF Kept
  <2>2. CASE x.tile[v] \in SheetNr
    <3> DEFINE s == x.tile[v]
    <3>1. s \in SheetNr /\ IsLinked(x, s, v, "tile")
      BY <2>0, <2>2 DEF Linked
    <3>2. y = [x EXCEPT !.layout[s] = Unlinked(@, <<v, "tile">>), !.tile[v] = Detached]
      BY <2>2 DEF DetachTile
    <3> HIDE DEF y
    <3>3. /\ y.layout = [x.layout EXCEPT ![s] = Unlinked(@, <<v, "tile">>)]
          /\ y.tile = [x.tile EXCEPT ![v] = Detached] /\ y.op_tile = x.op_tile
          /\ y.current_sheet = x.current_sheet /\ y.view_sheet = x.view_sheet
          /\ y.sheet_views = x.sheet_views /\ y.visible_views = x.visible_views
          /\ y.operation = x.operation /\ y.maximized = x.maximized /\ y.aborted = x.aborted
      BY <2>0, <3>2 DEF States
    <3>4. /\ y.layout \in TypedTiles
          /\ \A n \in SheetNr : IsInjective(TilesOf(y, n))
          /\ \A n \in SheetNr, w \in View, h \in {"tile", "pending"} :
               IsLinked(y, n, w, h) <=> IsLinked(x, n, w, h) /\ <<n, w, h>> # <<s, v, "tile">>
      <4>1. "tile" \in {"tile", "pending"}
        OBVIOUS
      <4> HIDE DEF s
      <4>2. LosesTile(x, s, v, "tile", y)
        BY <2>0, <3>1, <3>3, <4>1, TileAway
      <4> QED
        BY <4>2 DEF LosesTile
    <3>5. y.tile \in [View -> SheetNr \cup {NULL, Detached}]
      BY <2>0, <3>3
    <3>6. y = [x EXCEPT !.layout = y.layout, !.tile = y.tile]
      BY <2>0, <3>2, <3>3 DEF States
    <3>7. y \in States
      BY <2>0, <3>4, <3>5, <3>6 DEF States, TypedTiles
    <3>8. Linked(y)
      <4> SUFFICES ASSUME NEW n \in SheetNr, NEW w \in View
                   PROVE  /\ IsLinked(y, n, w, "tile") <=> y.tile[w] = n
                          /\ IsLinked(y, n, w, "pending") <=> y.op_tile[w] = n
        BY <3>4 DEF Linked
      <4>1. /\ IsLinked(x, n, w, "tile") <=> x.tile[w] = n
            /\ IsLinked(x, n, w, "pending") <=> x.op_tile[w] = n
            /\ n # Detached
        BY <2>0, NullAssumption DEF Linked
      <4>2. IsLinked(y, n, w, "pending") <=> IsLinked(x, n, w, "pending")
        BY <3>4
      <4>3. IsLinked(y, n, w, "tile") <=> IsLinked(x, n, w, "tile") /\ ~(n = s /\ w = v)
        BY <3>4
      <4> QED
        BY <2>0, <3>3, <4>1, <4>2, <4>3
    <3> QED
      BY <2>2, <3>3, <3>7, <3>8 DEF Kept
  <2> QED
    BY <2>1, <2>2
<1> HIDE DEF y
<1>5. Kept(t, y)
  BY <1>3, <1>4 DEF Kept
<1>6. Freed(t, v, y)
  BY <1>3, <1>4, <1>5 DEF Freed
<1> QED
  BY <1>6 DEF x, y

-----------------------------------------------------------------------------
(* Operations are queued                                                   *)

LEMMA QueueResetSound ==
  ASSUME NEW t, NEW off, Sound(t, off), NEW v \in View, NEW same
  PROVE  Sound(QueueReset(t, v, same), off \cup {v})
<1> DEFINE d == DetachTile(CancelTile(t, v), v)
           q == [d EXCEPT !.operation[v] = "reset"]
<1>1. Freed(t, v, d)
  BY TilesAreFreed
<1> HIDE DEF d
<1>2. /\ t \in States /\ Shelved(t) /\ Follows(t) /\ Normal(t, off)
      /\ t.operation \in [View -> Operation]
      /\ t.op_tile \in [View -> SheetNr \cup {NULL}]
      /\ t.tile \in [View -> SheetNr \cup {NULL, Detached}]
  BY DEF Sound, States
<1>3. d \in States /\ Linked(d)
  BY <1>1 DEF Freed, Kept
<1>4. /\ q.operation = [t.operation EXCEPT ![v] = "reset"]
      /\ q.op_tile = [t.op_tile EXCEPT ![v] = NULL]
      /\ q.tile = [t.tile EXCEPT ![v] = IF t.tile[v] \in SheetNr THEN Detached ELSE t.tile[v]]
      /\ q.layout = d.layout /\ q.tile = d.tile /\ q.op_tile = d.op_tile
      /\ q.view_sheet = t.view_sheet /\ q.sheet_views = t.sheet_views
      /\ q.maximized = t.maximized
  BY <1>1, <1>3 DEF Freed, Kept, States
<1>5. q \in States
  <2>1. "reset" \in Operation
    BY DEF Operation
  <2> QED
    BY <1>3, <2>1 DEF States
<1>6. QueueReset(t, v, same) = q \/ QueueReset(t, v, same) = CommitOperation(q, v)
  BY DEF QueueReset, d
<1> HIDE DEF q
<1>7. \A w \in View : IsMapped(q, w) <=> IsMapped(t, w)
  BY <1>4 DEF IsMapped, On
<1>8. Shelved(q)
  BY <1>2, <1>4, <1>7 DEF Shelved
<1>9. Follows(q)
  BY <1>2, <1>4, <1>7, NullAssumption DEF Follows
<1>10. Linked(q)
  <2>1. \A n \in SheetNr : TilesOf(q, n) = TilesOf(d, n)
    BY <1>4 DEF TilesOf
  <2>2. \A n \in SheetNr : \A w, how : IsLinked(q, n, w, how) <=> IsLinked(d, n, w, how)
    BY <2>1 DEF IsLinked
  <2>3. q.tile = d.tile /\ q.op_tile = d.op_tile
    BY <1>4
  <2>4. \A n \in SheetNr : IsInjective(TilesOf(q, n))
    BY <1>3, <2>1 DEF Linked
  <2>5. ASSUME NEW n \in SheetNr, NEW w \in View
        PROVE  /\ IsLinked(q, n, w, "tile") <=> q.tile[w] = n
               /\ IsLinked(q, n, w, "pending") <=> q.op_tile[w] = n
    <3>1. /\ IsLinked(d, n, w, "tile") <=> d.tile[w] = n
          /\ IsLinked(d, n, w, "pending") <=> d.op_tile[w] = n
      BY <1>3 DEF Linked
    <3> QED
      BY <2>2, <2>3, <3>1
  <2> QED
    BY <2>4, <2>5 DEF Linked
<1>11. Normal(q, off \cup {v})
  BY <1>2, <1>4, NullAssumption DEF Normal
<1>12. Sound(q, off \cup {v})
  BY <1>5, <1>8, <1>9, <1>10, <1>11 DEF Sound
<1> QED
  BY <1>6, <1>12, CommitOperationSound

LEMMA QueuedSound ==
  ASSUME NEW t, NEW off, Sound(t, off), NEW v \in View, v \notin off,
         t.operation[v] = "none", IsMapped(t, v), t.layout[t.current_sheet] # NULL,
         NEW i \in 1 .. (Len(t.layout[t.current_sheet]) + 1)
  PROVE  /\ Sound(Queued(t, v, i), off) /\ Changes(t, Queued(t, v, i), v)
         /\ Queued(t, v, i).tile = t.tile
<1> DEFINE s == t.current_sheet
           list == t.layout[s]
           new == InsertAt(list, i, <<v, "pending">>)
           q == Queued(t, v, i)
           Tile == View \X {"tile", "pending"}
<1>1. /\ t \in States /\ Shelved(t) /\ Follows(t) /\ Linked(t) /\ Normal(t, off)
      /\ t.operation \in [View -> Operation] /\ t.layout \in TypedTiles
      /\ t.op_tile \in [View -> SheetNr \cup {NULL}]
      /\ t.tile \in [View -> SheetNr \cup {NULL, Detached}] /\ s \in SheetNr
  BY DEF Sound, States, TypedTiles
<1>2. list \in Seq(Tile) /\ TilesOf(t, s) = list /\ IsInjective(list)
  BY <1>1 DEF TypedTiles, TilesOf, Linked
<1>3. t.op_tile[v] = NULL /\ <<v, "pending">> \notin ToSet(list)
  <2>1. t.op_tile[v] = NULL /\ s # NULL
    BY <1>1, NullAssumption DEF Follows
  <2>2. ~IsLinked(t, s, v, "pending")
    BY <1>1, <2>1 DEF Linked
  <2> HIDE DEF list
  <2> QED
    BY <1>2, <2>1, <2>2 DEF IsLinked
<1>4. q = [t EXCEPT !.layout[s] = new, !.op_tile[v] = s, !.operation[v] = "tile"]
  BY DEF Queued
<1> HIDE DEF q
<1>5. /\ q.layout = [t.layout EXCEPT ![s] = new] /\ q.op_tile = [t.op_tile EXCEPT ![v] = s]
      /\ q.operation = [t.operation EXCEPT ![v] = "tile"] /\ q.tile = t.tile
      /\ q.current_sheet = t.current_sheet /\ q.view_sheet = t.view_sheet
      /\ q.sheet_views = t.sheet_views /\ q.maximized = t.maximized /\ q.aborted = t.aborted
  BY <1>1, <1>4 DEF States
<1>6. new \in Seq(Tile) /\ IsInjective(new) /\ ToSet(new) = ToSet(list) \cup {<<v, "pending">>}
  <2>1. <<v, "pending">> \in Tile
    OBVIOUS
  <2>2. i \in 1 .. (Len(list) + 1)
    OBVIOUS
  <2> DEFINE e == <<v, "pending">>
  <2>3. e \in Tile /\ e \notin ToSet(list)
    BY <1>3
  <2> HIDE DEF Tile, list, e
  <2>4. /\ InsertAt(list, i, e) \in Seq(Tile)
        /\ ToSet(InsertAt(list, i, e)) = ToSet(list) \cup {e}
        /\ IsInjective(list) /\ e \notin ToSet(list) => IsInjective(InsertAt(list, i, e))
    BY <1>2, <2>2, <2>3, InsertedAt
  <2> QED
    BY <1>2, <2>3, <2>4 DEF e
<1> HIDE DEF new, list
<1>7. q \in States
  <2>1. "tile" \in Operation
    BY DEF Operation
  <2>2. q.layout \in TypedTiles /\ q.op_tile \in [View -> SheetNr \cup {NULL}]
        /\ q.operation \in [View -> Operation]
    BY <1>1, <1>5, <1>6, <2>1 DEF TypedTiles
  <2>3. q = [t EXCEPT !.layout = q.layout, !.op_tile = q.op_tile, !.operation = q.operation]
    BY <1>1, <1>4, <1>5 DEF States
  <2> QED
    BY <1>1, <2>2, <2>3 DEF States, TypedTiles
<1>8. new # NULL /\ s # NULL
  BY <1>1, <1>6, NullAssumption
<1>9. \A w \in View : IsMapped(q, w) <=> IsMapped(t, w)
  BY <1>5 DEF IsMapped, On
<1>10. Shelved(q)
  BY <1>1, <1>5, <1>9 DEF Shelved
<1>11. Follows(q)
  BY <1>1, <1>5, <1>8, <1>9 DEF Follows
<1>12. Linked(q)
  <2>1. TilesOf(q, s) = new
    BY <1>1, <1>5, <1>8 DEF TilesOf, TypedTiles
  <2>2. \A n \in SheetNr \ {s} : TilesOf(q, n) = TilesOf(t, n)
    BY <1>1, <1>5 DEF TilesOf, TypedTiles
  <2> SUFFICES ASSUME NEW n \in SheetNr
               PROVE  /\ IsInjective(TilesOf(q, n))
                      /\ \A w \in View : /\ IsLinked(q, n, w, "tile") <=> q.tile[w] = n
                                         /\ IsLinked(q, n, w, "pending") <=> q.op_tile[w] = n
    BY DEF Linked
  <2>3. \A w \in View : /\ IsLinked(t, n, w, "tile") <=> t.tile[w] = n
                        /\ IsLinked(t, n, w, "pending") <=> t.op_tile[w] = n
    BY <1>1 DEF Linked
  <2>4. CASE n # s
    BY <1>1, <1>3, <1>5, <2>2, <2>3, <2>4, NullAssumption DEF Linked, IsLinked
  <2>5. CASE n = s
    <3>1. ASSUME NEW w \in View, NEW how \in {"tile", "pending"}
          PROVE  IsLinked(q, s, w, how) <=> IsLinked(t, s, w, how) \/ (w = v /\ how = "pending")
      BY <1>2, <1>6, <2>1 DEF IsLinked
    <3> QED
      BY <1>1, <1>5, <1>6, <2>1, <2>3, <2>5, <3>1
  <2> QED
    BY <2>4, <2>5
<1>13. Normal(q, off)
  BY <1>1, <1>5 DEF Normal
<1>14. Sound(q, off)
  BY <1>7, <1>10, <1>11, <1>12, <1>13 DEF Sound
<1>15. Changes(t, q, v)
  <2>1. \A n \in SheetNr : t.layout[n] # NULL => q.layout[n] # NULL
    BY <1>1, <1>5, <1>8 DEF TypedTiles
  <2> QED
    BY <1>1, <1>5, <1>9, <2>1 DEF Changes
<1> QED
  BY <1>5, <1>14, <1>15 DEF q

LEMMA ChangedTwice ==
  ASSUME NEW s, NEW t, NEW u, NEW v, Changes(s, t, v), Changes(t, u, v)
  PROVE  Changes(s, u, v)
BY DEF Changes

LEMMA TiledSound ==
  ASSUME NEW t, NEW off, Sound(t, off), NEW v \in View, v \notin off, NEW same,
         t.operation[v] = "none", IsMapped(t, v), t.layout[t.current_sheet] # NULL
  PROVE  Sound(Tiled(t, v, same), off) /\ Changes(t, Tiled(t, v, same), v)
<1> DEFINE list == t.layout[t.current_sheet]
           i == Len(list) + 1
           q == Queued(t, v, i)
<1>1. list \in Seq(View \X {"tile", "pending"})
  BY DEF Sound, States
<1>2. i \in 1 .. (Len(list) + 1)
  <2>1. Len(list) \in Nat
    BY <1>1
  <2> HIDE DEF list
  <2> QED
    BY <2>1
<1>3. Tiled(t, v, same) = q \/ Tiled(t, v, same) = CommitOperation(q, v)
  BY DEF Tiled, QueueTile, Queued
<1> HIDE DEF i
<1>4. Sound(q, off) /\ Changes(t, q, v)
  BY <1>2, QueuedSound
<1> HIDE DEF q
<1>5. Sound(CommitOperation(q, v), off) /\ Changes(q, CommitOperation(q, v), v)
  BY <1>4, CommitOperationSound
<1> QED
  BY <1>3, <1>4, <1>5, ChangedTwice

-----------------------------------------------------------------------------
(* Layouts                                                                 *)

(* The views that are taken get a tile one after another.  What remains to  *)
(* be done at each place of the list is possible when it comes to it.       *)
LEMMA TilingSound ==
  ASSUME NEW t, NEW off, Sound(t, off), t.layout[t.current_sheet] # NULL,
         NEW list \in Seq(View), IsInjective(list), NEW same, NEW taken,
         \A v \in ToSet(list) \cap taken :
           v \notin off /\ IsMapped(t, v) /\ t.operation[v] = "none"
  PROVE  Sound(TileEach(t, taken, list, same), off)
<1> DEFINE S == DOMAIN list
           W == {w \in States : /\ Sound(w, off) /\ w.current_sheet = t.current_sheet
                                /\ w.layout[w.current_sheet] # NULL
                                /\ \A v \in View : IsMapped(t, v) => IsMapped(w, v)}
           C == [u \in SUBSET S |-> Max(u)]
           Ready(w, i) == list[i] \in taken => w.operation[list[i]] = "none"
           V == [u \in SUBSET S |-> {w \in W : \A i \in S \ u : Ready(w, i)}]
           After(w, i) == IF list[i] \in taken THEN Tiled(w, list[i], same) ELSE w
           step == [p \in S \X W |-> IF Ready(p[2], p[1]) THEN After(p[2], p[1]) ELSE t]
           iter == CHOOSE iter : iter = [u \in SUBSET S |->
                     IF u = {} THEN t ELSE After(iter[u \ {Max(u)}], Max(u))]
<1>1. TileEach(t, taken, list, same) = iter[S]
  BY DEF TileEach, FoldLeft, MapThenFoldSet
<1>2. S = 1 .. Len(list) /\ Len(list) \in Nat /\ IsFiniteSet(S)
  BY PlacesAreFinite
<1>3. \A u \in SUBSET S : u # {} => C[u] \in u /\ C[u] = Max(u)
  <2> HIDE DEF S
  <2> QED
    BY <1>2, LastPlace
<1>4. \A i \in S : list[i] \in View /\ list[i] \in ToSet(list)
  BY <1>2, InList
<1>5. \A i, j \in S : list[i] = list[j] => i = j
  BY <1>2, OnceInList
<1> HIDE DEF S
<1>6. t \in W /\ \A i \in S : Ready(t, i)
  BY <1>4 DEF Sound
<1>7. ASSUME NEW i \in S, NEW w \in W, Ready(w, i)
      PROVE  /\ After(w, i) \in W
             /\ \A j \in S : j # i /\ Ready(w, j) => Ready(After(w, i), j)
  <2>1. CASE list[i] \notin taken
    BY <2>1
  <2>2. CASE list[i] \in taken
    <3> DEFINE v == list[i]
               r == Tiled(w, v, same)
    <3>1. v \in View /\ v \notin off /\ IsMapped(w, v) /\ w.operation[v] = "none"
      BY <1>4, <1>7, <2>2
    <3>2. \A j \in S : j # i => list[j] \in View \ {v}
      BY <1>4, <1>5
    <3> HIDE DEF v
    <3>3. Sound(r, off) /\ Changes(w, r, v)
      BY <3>1, TiledSound
    <3>4. After(w, i) = r
      BY <2>2 DEF v
    <3> HIDE DEF r, After
    <3>5. r \in W
      BY <3>3 DEF Changes, Sound, States
    <3>6. \A j \in S : j # i /\ Ready(w, j) => Ready(r, j)
      BY <3>2, <3>3 DEF Changes
    <3> QED
      BY <3>4, <3>5, <3>6
  <2> QED
    BY <2>1, <2>2
<1>8. step \in [S \X W -> W]
  <2> HIDE DEF After, W, Ready
  <2> QED
    BY <1>6, <1>7
<1>9. PICK g : IsRecursion(g, S, W, t, C, step)
  <2> HIDE DEF step, W, C
  <2> QED
    BY <1>2, <1>3, <1>6, <1>8, RecursionExists
<1>10. t \in V[{}]
  BY <1>6
<1>11. ASSUME NEW u \in SUBSET S, u # {}, NEW w \in V[u \ {C[u]}]
       PROVE  w \in W /\ Ready(w, C[u]) /\ After(w, C[u]) \in V[u] /\ C[u] \in S /\ C[u] = Max(u)
  <2> DEFINE i == C[u]
  <2>1. i \in S /\ i \in u /\ i = Max(u) /\ u \ {i} \in SUBSET S
    BY <1>3, <1>11
  <2> HIDE DEF i
  <2>2. w \in W /\ \A j \in S \ (u \ {i}) : Ready(w, j)
    BY <1>11, <2>1 DEF i
  <2>3. Ready(w, i) /\ \A j \in S \ u : Ready(w, j) /\ j # i
    BY <2>1, <2>2
  <2> HIDE DEF W, After, Ready
  <2>4. After(w, i) \in W /\ \A j \in S \ u : Ready(After(w, i), j)
    BY <1>7, <2>1, <2>2, <2>3
  <2>5. After(w, i) \in V[u]
    BY <2>4
  <2> QED
    BY <2>1, <2>2, <2>3, <2>5 DEF i
<1>12. \A u \in SUBSET S : u # {} => g[u] = step[<<C[u], g[u \ {C[u]}]>>]
  BY <1>9 DEF IsRecursion
<1>13. g \in [SUBSET S -> W] /\ g[{}] = t
  BY <1>9 DEF IsRecursion
<1>14. ASSUME NEW u \in SUBSET S, u # {}, g[u \ {C[u]}] \in V[u \ {C[u]}]
       PROVE  g[u] = After(g[u \ {C[u]}], C[u]) /\ g[u] \in V[u]
  <2> DEFINE w == g[u \ {C[u]}]
  <2>1. g[u] = step[<<C[u], w>>]
    BY <1>12, <1>14
  <2>2. w \in V[u \ {C[u]}]
    BY <1>14
  <2> HIDE DEF w, V
  <2>3. w \in W /\ Ready(w, C[u]) /\ After(w, C[u]) \in V[u] /\ C[u] \in S
    BY <1>11, <1>14, <2>2
  <2> HIDE DEF C, W, Ready, After
  <2>4. g[u] = After(w, C[u])
    BY <2>1, <2>3
  <2> QED
    BY <2>3, <2>4 DEF w
<1>15. \A u \in SUBSET S : g[u] \in V[u]
  <2> HIDE DEF V, C, After, step, W
  <2> QED
    BY <1>2, <1>3, <1>10, <1>13, <1>14, RecursionStays
<1>16. iter = [u \in SUBSET S |->
                 IF u = {} THEN t ELSE After(iter[u \ {Max(u)}], Max(u))]
  <2> DEFINE Is(f) == f = [u \in SUBSET S |->
                IF u = {} THEN t ELSE After(f[u \ {Max(u)}], Max(u))]
  <2>1. ASSUME NEW u \in SUBSET S
        PROVE  g[u] = IF u = {} THEN t ELSE After(g[u \ {Max(u)}], Max(u))
    <3>1. ASSUME u # {} PROVE g[u] = After(g[u \ {C[u]}], C[u]) /\ C[u] = Max(u)
      <4>1. u \ {C[u]} \in SUBSET S
        OBVIOUS
      <4> HIDE DEF V, C, After, step, W
      <4> QED
        BY <1>3, <1>14, <1>15, <3>1, <4>1
    <3> HIDE DEF V, C, After, step, W
    <3> QED
      BY <1>13, <3>1
  <2>2. Is(g)
    <3> HIDE DEF After, W
    <3> QED
      BY <1>13, <2>1
  <2> HIDE DEF Is
  <2>3. Is(CHOOSE f : Is(f))
    BY <2>2
  <2> QED
    BY <2>3 DEF Is
<1> HIDE DEF iter
<1>17. iter[{}] \in V[{}]
  <2>1. iter[{}] = t
    BY <1>16
  <2> QED
    BY <1>10, <2>1
<1>18. ASSUME NEW u \in SUBSET S, u # {}, iter[u \ {C[u]}] \in V[u \ {C[u]}]
       PROVE  iter[u] \in V[u]
  <2> DEFINE w == iter[u \ {C[u]}]
  <2>1. C[u] = Max(u)
    BY <1>3, <1>18
  <2>2. iter[u] = After(w, C[u])
    <3> HIDE DEF After, C
    <3> QED
      BY <1>16, <1>18, <2>1
  <2>3. w \in V[u \ {C[u]}]
    BY <1>18
  <2> HIDE DEF w, V, After, C
  <2> QED
    BY <1>11, <1>18, <2>2, <2>3
<1>19. iter[S] \in V[S]
  <2> HIDE DEF V, C
  <2> QED
    BY <1>2, <1>3, <1>17, <1>18, RecursionStays
<1>20. Sound(iter[S], off)
  BY <1>19
<1> QED
  BY <1>1, <1>20

LEMMA SoundForLess ==
  ASSUME NEW t, NEW off, Sound(t, off), NEW less, less \subseteq off
  PROVE  Sound(t, less)
BY DEF Sound, Normal

(* The views of a sheet are reset one after another.                        *)
LEMMA ResettingSound ==
  ASSUME NEW t, NEW off, Sound(t, off), NEW n \in SheetNr, NEW same
  PROVE  Sound(ResetEach(t, n, same), off)
<1> DEFINE list == t.sheet_views[n]
<1> DEFINE S == DOMAIN list
           W == {w \in States : Sound(w, off)}
           C == [u \in SUBSET S |-> Max(u)]
           V == [u \in SUBSET S |-> W]
           After(w, i) == ResetNext(w, list[i], n, same)
           step == [p \in S \X W |-> After(p[2], p[1])]
           iter == CHOOSE iter : iter = [u \in SUBSET S |->
                     IF u = {} THEN t ELSE After(iter[u \ {Max(u)}], Max(u))]
<1>1. ResetEach(t, n, same) = iter[S]
  BY DEF ResetEach, FoldLeft, MapThenFoldSet, list
<1>2. list \in Seq(View)
  BY DEF Sound, States
<1> HIDE DEF list
<1>3. S = 1 .. Len(list) /\ Len(list) \in Nat /\ IsFiniteSet(S)
  BY <1>2, PlacesAreFinite
<1>4. \A u \in SUBSET S : u # {} => C[u] \in u /\ C[u] = Max(u)
  <2> HIDE DEF S
  <2> QED
    BY <1>3, LastPlace
<1>5. \A i \in S : list[i] \in View
  BY <1>2, <1>3, InList
<1> HIDE DEF S
<1>6. t \in W
  BY DEF Sound
<1>7. ASSUME NEW i \in S, NEW w \in W PROVE After(w, i) \in W
  <2> DEFINE v == list[i]
             r == QueueReset(w, v, same)
  <2>1. Sound(w, off) /\ v \in View
    BY <1>5
  <2> HIDE DEF v
  <2>2. Sound(r, off \cup {v})
    BY <2>1, QueueResetSound
  <2>3. Sound(r, off)
    BY <2>2, SoundForLess
  <2>4. Sound(Fail(r, "walk_end"), off)
    BY <2>3, FailSound DEF Ends
  <2>5. Sound(ResetNext(w, v, n, same), off)
    BY <2>1, <2>3, <2>4 DEF ResetNext
  <2> QED
    BY <2>5 DEF v, Sound
<1>8. step \in [S \X W -> W]
  <2> HIDE DEF After, W
  <2> QED
    BY <1>7
<1>9. PICK g : IsRecursion(g, S, W, t, C, step)
  <2> HIDE DEF step, W, C
  <2> QED
    BY <1>3, <1>4, <1>6, <1>8, RecursionExists
<1>10. iter = [u \in SUBSET S |->
                 IF u = {} THEN t ELSE After(iter[u \ {Max(u)}], Max(u))]
  <2> DEFINE Is(f) == f = [u \in SUBSET S |->
                IF u = {} THEN t ELSE After(f[u \ {Max(u)}], Max(u))]
  <2>1. g \in [SUBSET S -> W]
    BY <1>9 DEF IsRecursion
  <2>2. ASSUME NEW u \in SUBSET S
        PROVE  g[u] = IF u = {} THEN t ELSE After(g[u \ {Max(u)}], Max(u))
    <3>1. g[u] = IF u = {} THEN t ELSE step[<<C[u], g[u \ {C[u]}]>>]
      BY <1>9 DEF IsRecursion
    <3>2. ASSUME u # {}
          PROVE  step[<<C[u], g[u \ {C[u]}]>>] = After(g[u \ {Max(u)}], Max(u))
      <4>1. C[u] \in S /\ C[u] = Max(u) /\ g[u \ {C[u]}] \in W
        BY <1>4, <2>1, <3>2
      <4> HIDE DEF After, W, C
      <4> QED
        BY <4>1
    <3> QED
      BY <3>1, <3>2
  <2>3. Is(g)
    <3> HIDE DEF After, W
    <3> QED
      BY <2>1, <2>2
  <2> HIDE DEF Is
  <2>4. Is(CHOOSE f : Is(f))
    BY <2>3
  <2> QED
    BY <2>4 DEF Is
<1> HIDE DEF iter
<1>11. iter[{}] \in V[{}]
  <2>1. iter[{}] = t
    BY <1>10
  <2> QED
    BY <1>6, <2>1
<1>12. ASSUME NEW u \in SUBSET S, u # {}, iter[u \ {C[u]}] \in V[u \ {C[u]}]
       PROVE  iter[u] \in V[u]
  <2> DEFINE i == Max(u)
             rest == u \ {i}
  <2>1. i \in S /\ i \in u /\ C[u] = i /\ rest \in SUBSET S /\ u = rest \cup {i}
    BY <1>4, <1>12
  <2>2. iter[u] = After(iter[rest], i)
    BY <1>10, <1>12
  <2>3. iter[rest] \in V[rest]
    BY <1>12, <2>1
  <2> HIDE DEF W, After
  <2> QED
    BY <1>7, <2>1, <2>2, <2>3
<1>13. iter[S] \in V[S]
  <2> HIDE DEF V, C
  <2> QED
    BY <1>3, <1>4, <1>11, <1>12, RecursionStays
<1>14. Sound(iter[S], off)
  BY <1>13
<1> QED
  BY <1>1, <1>14

LEMMA IsTileableView ==
  ASSUME NEW t \in States, NEW s \in SheetNr, Tileable(t, s) # {}
  PROVE  FirstTileable(t, s) \in Tileable(t, s) /\ FirstTileable(t, s) \in View
<1> DEFINE list == t.sheet_views[s]
           I == {i \in 1 .. Len(list) : IsTileable(t, list[i])}
           k == SelectInSeq(list, LAMBDA v : IsTileable(t, v))
<1>1. list \in Seq(View)
  BY DEF States
<1>2. k = IF I # {} THEN Min(I) ELSE 0
  BY DEF SelectInSeq
<1>3. FirstTileable(t, s) = list[k] /\ Tileable(t, s) = {v \in ToSet(list) : IsTileable(t, v)}
  BY DEF FirstTileable, Tileable
<1> HIDE DEF list, k
<1>4. I # {}
  <2>1. PICK v \in ToSet(list) : IsTileable(t, v)
    BY <1>3
  <2>2. PICK i \in 1 .. Len(list) : list[i] = v
    BY <1>1, <2>1, InList
  <2> QED
    BY <2>1, <2>2
<1>5. k \in I
  <2>1. Len(list) \in Nat
    BY <1>1
  <2> HIDE DEF I
  <2> DEFINE n == Len(list)
  <2>2. I \subseteq 1 .. n
    BY DEF I
  <2> HIDE DEF n
  <2>3. n \in Nat
    BY <2>1 DEF n
  <2> QED
    BY <1>2, <1>4, <2>2, <2>3, FirstPlace
<1> QED
  BY <1>1, <1>3, <1>5, InList

Opened(t, s) == [t EXCEPT !.layout[s] = IF @ = NULL THEN <<>> ELSE @]

LEMMA EmptyLayoutSound ==
  ASSUME NEW t, NEW off, Sound(t, off), NEW s \in SheetNr
  PROVE  /\ Sound(Opened(t, s), off) /\ Opened(t, s).layout[s] # NULL
         /\ Opened(t, s).current_sheet = t.current_sheet
         /\ Opened(t, s).sheet_views = t.sheet_views /\ Opened(t, s).operation = t.operation
<1> DEFINE u == Opened(t, s)
<1>0. u = [t EXCEPT !.layout[s] = IF @ = NULL THEN <<>> ELSE @]
  BY DEF Opened
<1> HIDE DEF u
<1>1. /\ t \in States /\ Shelved(t) /\ Follows(t) /\ Linked(t) /\ Normal(t, off)
      /\ t.layout \in TypedTiles
  BY DEF Sound, States, TypedTiles
<1>2. /\ u.layout = [t.layout EXCEPT ![s] = IF @ = NULL THEN <<>> ELSE @]
      /\ u.op_tile = t.op_tile /\ u.tile = t.tile /\ u.operation = t.operation
      /\ u.current_sheet = t.current_sheet /\ u.view_sheet = t.view_sheet
      /\ u.sheet_views = t.sheet_views /\ u.maximized = t.maximized
  BY <1>0, <1>1 DEF States
<1>3. <<>> # NULL /\ <<>> \in Seq(View \X {"tile", "pending"})
  <2>1. <<>> \in Seq(View \X {"tile", "pending"})
    OBVIOUS
  <2> QED
    BY <2>1, NullAssumption
<1>4. u.layout \in TypedTiles
  BY <1>1, <1>2, <1>3 DEF TypedTiles
<1>5. u \in States
  <2>1. u = [t EXCEPT !.layout = u.layout]
    BY <1>0, <1>1, <1>2 DEF States
  <2> QED
    BY <1>1, <1>4, <2>1 DEF States, TypedTiles
<1>6. \A n \in SheetNr : TilesOf(u, n) = TilesOf(t, n)
  BY <1>1, <1>2, <1>3 DEF TilesOf, TypedTiles
<1>7. \A n \in SheetNr : \A w, how : IsLinked(u, n, w, how) <=> IsLinked(t, n, w, how)
  BY <1>6 DEF IsLinked
<1>8. Linked(u)
  <2>1. ASSUME NEW n \in SheetNr, NEW w \in View
        PROVE  /\ IsLinked(u, n, w, "tile") <=> u.tile[w] = n
               /\ IsLinked(u, n, w, "pending") <=> u.op_tile[w] = n
    <3>1. /\ IsLinked(t, n, w, "tile") <=> t.tile[w] = n
          /\ IsLinked(t, n, w, "pending") <=> t.op_tile[w] = n
      BY <1>1 DEF Linked
    <3> QED
      BY <1>2, <1>7, <3>1
  <2> QED
    BY <1>1, <1>6, <2>1 DEF Linked
<1>9. \A w : IsMapped(u, w) <=> IsMapped(t, w)
  BY <1>2 DEF IsMapped, On
<1>10. Shelved(u) /\ Follows(u) /\ Normal(u, off)
  BY <1>1, <1>2, <1>9 DEF Shelved, Follows, Normal
<1>11. u.layout[s] # NULL
  BY <1>1, <1>2, <1>3 DEF TypedTiles
<1> QED
  BY <1>2, <1>5, <1>8, <1>10, <1>11 DEF Sound, u

LEMMA LayOutSound ==
  ASSUME NEW t, NEW off, Sound(t, off), off \subseteq floating \cup invisible,
         NEW capacity, NEW same
  PROVE  Sound(LayOut(t, capacity, same), off)
<1> DEFINE s == t.current_sheet
           first == FirstTileable(t, s)
           taken == {v \in Tileable(t, s) : Cardinality(Ahead(t, s, v)) < capacity}
           laid == [t EXCEPT !.layout[s] = IF @ = NULL THEN <<>> ELSE @]
           shown == IF IsHidden(t, first) THEN RaiseView(laid, first) ELSE laid
           tiled == TileEach(shown, taken, t.sheet_views[s], same)
           r == LayOut(t, capacity, same)
<1>1. t \in States /\ s \in SheetNr /\ t.sheet_views[s] \in Seq(View) /\
          IsInjective(t.sheet_views[s])
  BY DEF Sound, States, Shelved
<1>2. /\ Sound(laid, off) /\ laid.layout[s] # NULL /\ laid.current_sheet = s
      /\ laid.sheet_views = t.sheet_views /\ laid.operation = t.operation
  <2>1. laid = Opened(t, s)
    BY DEF Opened
  <2>2. s \in SheetNr
    BY <1>1
  <2> HIDE DEF laid, s
  <2>3. /\ Sound(Opened(t, s), off) /\ Opened(t, s).layout[s] # NULL
        /\ Opened(t, s).current_sheet = t.current_sheet
        /\ Opened(t, s).sheet_views = t.sheet_views /\ Opened(t, s).operation = t.operation
    BY <2>2, EmptyLayoutSound, Zenon
  <2> QED
    BY <2>1, <2>3 DEF s
<1>3. \/ r = RaiseFloating(laid, s)
      \/ r = Fail(t, "walk_end")
      \/ r = Fail(t, "scan_hidden")
      \/ Tileable(t, s) # {} /\ r = RaiseFloating(tiled, s)
  BY DEF LayOut
<1> HIDE DEF laid, r
<1>4. CASE r = RaiseFloating(laid, s)
  BY <1>1, <1>2, <1>4, RaiseFloatingRaises, MovesSound DEF Raises, Sound, r
<1>5. CASE r = Fail(t, "walk_end") \/ r = Fail(t, "scan_hidden")
  BY <1>5, FailSound DEF Ends, r
<1>6. CASE Tileable(t, s) # {} /\ r = RaiseFloating(tiled, s)
  <2>1. first \in View
    BY <1>1, <1>6, IsTileableView
  <2>2. Moves(laid, shown)
    <3>1. Raises(laid, laid) /\ Raises(laid, RaiseView(laid, first))
      BY <1>2, <2>1, NothingIsRaised, RaiseViewRaises DEF Sound
    <3> QED
      BY <3>1 DEF Raises
  <2> HIDE DEF first, shown
  <2>3. Sound(shown, off)
    BY <1>2, <2>2, MovesSound
  <2>4. /\ shown.current_sheet = s /\ shown.layout[s] # NULL /\ shown.operation = t.operation
        /\ \A v \in View : IsMapped(t, v) => IsMapped(shown, v)
    BY <1>2, <2>2 DEF Moves, SameTiles, IsMapped, On
  <2>5. \A v \in ToSet(t.sheet_views[s]) \cap taken :
          v \notin off /\ IsMapped(shown, v) /\ shown.operation[v] = "none"
    <3> SUFFICES ASSUME NEW v \in ToSet(t.sheet_views[s]), v \in taken
                 PROVE  v \notin off /\ IsMapped(shown, v) /\ shown.operation[v] = "none"
      OBVIOUS
    <3>1. v \in View /\ IsMapped(t, v)
      BY <1>1, InList DEF IsMapped, On
    <3>2. v \notin floating \cup invisible /\ t.operation[v] = "none"
      BY DEF Tileable, IsTileable, IsDirty
    <3> QED
      BY <2>4, <3>1, <3>2
  <2> DEFINE list == t.sheet_views[s]
  <2>6. list \in Seq(View) /\ IsInjective(list)
    BY <1>1
  <2>7. shown.layout[shown.current_sheet] # NULL
    BY <2>4
  <2>8. \A v \in ToSet(list) \cap taken :
          v \notin off /\ IsMapped(shown, v) /\ shown.operation[v] = "none"
    BY <2>5
  <2>9. tiled = TileEach(shown, taken, list, same)
    OBVIOUS
  <2> HIDE DEF list, taken, tiled
  <2>10. Sound(tiled, off)
    BY <2>3, <2>6, <2>7, <2>8, <2>9, TilingSound
  <2> QED
    BY <1>1, <1>6, <2>10, RaiseFloatingRaises, MovesSound DEF Raises, Sound, r
<1> QED
  BY <1>3, <1>4, <1>5, <1>6

LEMMA ApplySplitSound ==
  ASSUME NEW t, NEW off, Sound(t, off), off \subseteq floating \cup invisible,
         NEW capacity, NEW same
  PROVE  Sound(ApplySplit(t, capacity, same), off)
BY LayOutSound DEF ApplySplit

-----------------------------------------------------------------------------
(* Handlers                                                                *)

LEMMA RestackedSound ==
  ASSUME NEW off, Sound(Now, off), off \subseteq floating \cup invisible,
         NEW prepend, NEW capacity, NEW same
  PROVE  Sound(Restacked(prepend, capacity, same), off)
<1> DEFINE s == current_sheet
           d == Displayed(Now, s)
           restacked == RestackTiles(d, s)
           ordered == IF prepend THEN RaisePrependable(restacked, s) ELSE restacked
<1>1. s \in SheetNr
  BY DEF Sound, States, Now
<1>2. Restacked(prepend, capacity, same) =
        ApplySplit(IF layout[s] = NULL THEN Now ELSE ordered, capacity, same)
  BY DEF Restacked
<1>3. CASE layout[s] = NULL
  BY <1>2, <1>3, ApplySplitSound
<1>4. CASE layout[s] # NULL
  <2>1. /\ Sound(d, off) /\ d.layout = Now.layout
        /\ \A v \in On(d, s) \ invisible : v \in Visible(d)
    BY <1>1, DisplayedSound
  <2> HIDE DEF d
  <2>2. d.layout[s] # NULL /\ d \in States /\ Shelved(d)
    BY <1>4, <2>1 DEF Now, Sound
  <2>3. Raises(d, restacked)
    BY <1>1, <2>2, RestackTilesRaises
  <2> HIDE DEF restacked
  <2>4. Sound(restacked, off) /\ restacked \in States /\ Shelved(restacked)
    BY <2>1, <2>3, MovesSound DEF Raises, Sound
  <2>5. \A v \in On(restacked, s) \ invisible : v \in Visible(restacked)
    BY <1>1, <2>1, <2>3 DEF Raises
  <2>6. Raises(restacked, RaisePrependable(restacked, s))
    BY <1>1, <2>4, <2>5, RaisePrependableRaises
  <2>7. Sound(RaisePrependable(restacked, s), off)
    BY <2>4, <2>6, MovesSound DEF Raises
  <2>8. Sound(ordered, off)
    BY <2>4, <2>7
  <2> HIDE DEF ordered
  <2> QED
    BY <1>2, <1>4, <2>8, ApplySplitSound
<1> QED
  BY <1>3, <1>4

LEMMA HideMoves ==
  ASSUME NEW t \in States, Shelved(t), NEW v
  PROVE  Moves(t, Hide(t, v))
<1> DEFINE rest == RemoveFirst(t.visible_views, v)
<1>1. rest \in Seq(View)
  <2>1. t.visible_views \in Seq(View)
    BY DEF States
  <2> QED
    BY <2>1, RemoveFirstIsList
<1>2. Hide(t, v) = [t EXCEPT !.visible_views = rest]
  BY DEF Hide
<1> HIDE DEF rest
<1> DEFINE u == Hide(t, v)
<1> HIDE DEF u
<1>3. u \in States /\ SameTiles(t, u) /\ u.sheet_views = t.sheet_views
  BY <1>1, <1>2 DEF States, SameTiles, u
<1>4. Shelved(u) /\ \A w \in View : IsMapped(t, w) => IsMapped(u, w)
  BY <1>3 DEF Shelved, IsMapped, On, SameTiles
<1> QED
  BY <1>3, <1>4 DEF Moves, u

LEMMA UnmapSound ==
  ASSUME NEW t, NEW off, Sound(t, off), NEW v \in View
  PROVE  Sound([DetachTile(CancelTile(Hide(t, v), v), v) EXCEPT
                  !.tile[v] = NULL, !.operation[v] = "none",
                  !.sheet_views = [s \in SheetNr |-> RemoveFirst(@[s], v)]], off)
<1> DEFINE h == Hide(t, v)
           d == DetachTile(CancelTile(h, v), v)
           u == [d EXCEPT !.tile[v] = NULL, !.operation[v] = "none",
                          !.sheet_views = [s \in SheetNr |-> RemoveFirst(@[s], v)]]
<1>1. Sound(h, off)
  BY HideMoves, MovesSound DEF Sound
<1> HIDE DEF h
<1>2. Freed(h, v, d)
  BY <1>1, TilesAreFreed
<1> HIDE DEF d
<1>3. /\ h \in States /\ Shelved(h) /\ Follows(h) /\ Normal(h, off)
      /\ h.operation \in [View -> Operation]
      /\ h.op_tile \in [View -> SheetNr \cup {NULL}]
      /\ h.tile \in [View -> SheetNr \cup {NULL, Detached}]
  BY <1>1 DEF Sound, States
<1>4. d \in States /\ Linked(d) /\ d.sheet_views = h.sheet_views /\ d.operation = h.operation
  BY <1>2 DEF Freed, Kept
<1> DEFINE left == [s \in SheetNr |-> RemoveFirst(d.sheet_views[s], v)]
<1>5. u = [d EXCEPT !.tile[v] = NULL, !.operation[v] = "none", !.sheet_views = left]
  OBVIOUS
<1>6. ASSUME NEW s \in SheetNr
      PROVE  /\ left[s] \in Seq(View) /\ IsInjective(left[s])
             /\ ToSet(left[s]) = On(h, s) \ {v}
  <2> DEFINE list == h.sheet_views[s]
  <2>1. list \in Seq(View) /\ IsInjective(list)
    BY <1>3 DEF States, Shelved
  <2>2. left[s] = RemoveFirst(list, v) /\ On(h, s) = ToSet(list)
    BY <1>4 DEF On
  <2> HIDE DEF list, left
  <2> QED
    BY <2>1, <2>2, RemoveFirstIsList
<1>7. left \in [SheetNr -> Seq(View)]
  BY <1>6
<1> HIDE DEF left, u
<1>8. "none" \in Operation
  BY DEF Operation
<1>9. u \in States
  BY <1>4, <1>5, <1>7, <1>8 DEF States
<1>10. /\ u.operation = [h.operation EXCEPT ![v] = "none"]
       /\ u.op_tile = [h.op_tile EXCEPT ![v] = NULL]
       /\ u.tile = [h.tile EXCEPT ![v] = NULL]
       /\ u.layout = d.layout /\ u.sheet_views = left
       /\ u.view_sheet = h.view_sheet /\ u.maximized = h.maximized
  <2>1. /\ u.operation = [d.operation EXCEPT ![v] = "none"] /\ u.op_tile = d.op_tile
        /\ u.tile = [d.tile EXCEPT ![v] = NULL]
        /\ u.layout = d.layout /\ u.sheet_views = left
        /\ u.view_sheet = d.view_sheet /\ u.maximized = d.maximized
    BY <1>4, <1>5 DEF States
  <2>2. [d.tile EXCEPT ![v] = NULL] = [h.tile EXCEPT ![v] = NULL]
    BY <1>2, <1>3 DEF Freed
  <2> QED
    BY <1>2, <2>1, <2>2 DEF Freed, Kept
<1>11. \A s \in SheetNr : On(u, s) = On(h, s) \ {v}
  BY <1>6, <1>10 DEF On
<1>12. \A w \in View : IsMapped(u, w) <=> IsMapped(h, w) /\ w # v
  BY <1>11 DEF IsMapped
<1>13. Shelved(u)
  BY <1>3, <1>6, <1>10, <1>12 DEF Shelved
<1>14. Follows(u)
  BY <1>3, <1>10, <1>12, NullAssumption DEF Follows
<1>15. Normal(u, off)
  BY <1>3, <1>10, NullAssumption DEF Normal
<1>16. Linked(u)
  <2>1. \A n \in SheetNr : TilesOf(u, n) = TilesOf(d, n)
    BY <1>10 DEF TilesOf
  <2>2. \A n \in SheetNr : \A w, how : IsLinked(u, n, w, how) <=> IsLinked(d, n, w, how)
    BY <2>1 DEF IsLinked
  <2>3. \A n \in SheetNr : IsInjective(TilesOf(u, n))
    BY <1>4, <2>1 DEF Linked
  <2>4. ASSUME NEW n \in SheetNr, NEW w \in View
        PROVE  /\ IsLinked(u, n, w, "tile") <=> u.tile[w] = n
               /\ IsLinked(u, n, w, "pending") <=> u.op_tile[w] = n
    <3>1. /\ IsLinked(d, n, w, "tile") <=> d.tile[w] = n
          /\ IsLinked(d, n, w, "pending") <=> d.op_tile[w] = n
      BY <1>4 DEF Linked
    <3>2. d.op_tile = u.op_tile
      BY <1>2, <1>10 DEF Freed
    <3>3. d.tile[w] = n <=> u.tile[w] = n
      BY <1>2, <1>3, <1>10, NullAssumption DEF Freed
    <3> QED
      BY <2>2, <3>1, <3>2, <3>3
  <2> QED
    BY <2>3, <2>4 DEF Linked
<1> QED
  BY <1>9, <1>13, <1>14, <1>15, <1>16 DEF Sound, u, d, h

(* What is exchanged has tiles in the layout that is shown.                 *)
LEMMA SwapSound ==
  ASSUME NEW t, NEW off, Sound(t, off), NEW from \in View, NEW to \in View, from # to,
         t.operation[from] = "none", t.operation[to] = "none",
         t.tile[from] = t.current_sheet, t.tile[to] \in SheetNr, NEW same
  PROVE  Sound(Swap(t, from, to, same, TRUE), off)
<1> DEFINE At(u, v) == SelectInSeq(u.layout[u.current_sheet], LAMBDA e : e = <<v, "tile">>) + 1
           i == At(t, from)
           linked1 == Queued(t, to, i)
           j == At(linked1, to)
           linked2 == Queued(linked1, from, j)
           first == IF from \in same THEN CommitOperation(linked2, from) ELSE linked2
<1>1. ASSUME NEW u, Sound(u, off), NEW v, u.layout[u.current_sheet] # NULL
      PROVE  At(u, v) \in 1 .. (Len(u.layout[u.current_sheet]) + 1)
  <2> DEFINE list == u.layout[u.current_sheet]
             n == Len(list)
             I == {k \in 1 .. n : list[k] = <<v, "tile">>}
  <2>1. list \in Seq(View \X {"tile", "pending"})
    BY <1>1 DEF Sound, States
  <2> DEFINE k == IF I # {} THEN Min(I) ELSE 0
  <2>2. At(u, v) = k + 1
    BY DEF SelectInSeq
  <2> HIDE DEF list, At
  <2>3. n \in Nat
    BY <2>1
  <2>4. I \subseteq 1 .. n
    OBVIOUS
  <2> HIDE DEF n, I
  <2>5. I # {} => Min(I) \in I
    BY <2>3, <2>4, FirstPlace
  <2>6. k \in 0 .. n
    <3>1. k = 0 \/ k \in I
      BY <2>5
    <3>2. 1 .. n \subseteq 0 .. n /\ 0 \in 0 .. n
      BY <2>3
    <3> HIDE DEF k
    <3> QED
      BY <2>4, <3>1, <3>2, Zenon
  <2> HIDE DEF k
  <2>7. At(u, v) \in 1 .. (n + 1)
    BY <2>2, <2>3, <2>6
  <2> QED
    BY <2>7 DEF n, list
<1> HIDE DEF At
<1>2. t \in States /\ Follows(t) /\ Linked(t) /\ Normal(t, off) /\ t.current_sheet \in SheetNr
  BY DEF Sound, States
<1>3. IsMapped(t, from) /\ IsMapped(t, to) /\ from \notin off /\ to \notin off
  BY <1>2 DEF Follows, Normal
<1>4. t.layout[t.current_sheet] # NULL
  <2>1. IsLinked(t, t.current_sheet, from, "tile")
    BY <1>2 DEF Linked
  <2> QED
    BY <2>1 DEF IsLinked, TilesOf, ToSet
<1>5. Swap(t, from, to, same, TRUE) = IF to \in same THEN CommitOperation(first, to) ELSE first
  BY DEF Swap, At
<1>6. i \in 1 .. (Len(t.layout[t.current_sheet]) + 1)
  BY <1>1, <1>4
<1> HIDE DEF i
<1>7. Sound(linked1, off) /\ Changes(t, linked1, to)
  BY <1>3, <1>4, <1>6, QueuedSound
<1> HIDE DEF linked1
<1>8. /\ linked1.layout[linked1.current_sheet] # NULL /\ linked1.operation[from] = "none"
      /\ IsMapped(linked1, from)
  BY <1>2, <1>3, <1>4, <1>7 DEF Changes
<1>9. j \in 1 .. (Len(linked1.layout[linked1.current_sheet]) + 1)
  BY <1>1, <1>7, <1>8
<1> HIDE DEF j
<1>10. Sound(linked2, off)
  BY <1>3, <1>7, <1>8, <1>9, QueuedSound
<1> HIDE DEF linked2
<1>11. Sound(first, off)
  BY <1>10, CommitOperationSound
<1> HIDE DEF first
<1>12. Sound(CommitOperation(first, to), off)
  BY <1>11, CommitOperationSound
<1> QED
  BY <1>5, <1>11, <1>12

LEMMA ExchangedSound ==
  ASSUME NEW t, NEW off, Sound(t, off), NEW from \in View, NEW to \in View,
         t.tile[to] \in SheetNr \/ t.op_tile[to] # NULL, NEW same
  PROVE  Sound(Exchanged(t, from, to, same), off)
<1>1. Sound(Fail(t, "walk_detached"), off) /\ Sound(Fail(t, "exchange_sheets"), off)
      /\ Sound(Fail(t, "foreign_layout"), off)
  BY FailSound DEF Ends
<1>2. CASE IsDirty(t, from) \/ IsDirty(t, to) \/ from = to
  BY <1>2 DEF Exchanged
<1>3. CASE ~(IsDirty(t, from) \/ IsDirty(t, to) \/ from = to) /\ t.tile[from] = t.current_sheet
  <2>1. t.operation[from] = "none" /\ t.operation[to] = "none" /\ from # to
    BY <1>3 DEF IsDirty
  <2>2. t.tile[to] \in SheetNr
    BY <2>1 DEF Sound, Follows
  <2>3. Sound(Swap(t, from, to, same, TRUE), off)
    BY <1>3, <2>1, <2>2, SwapSound
  <2> QED
    BY <1>1, <1>3, <2>3 DEF Exchanged
<1>4. CASE ~(IsDirty(t, from) \/ IsDirty(t, to) \/ from = to) /\ t.tile[from] # t.current_sheet
  BY <1>1, <1>4 DEF Exchanged
<1> QED
  BY <1>2, <1>3, <1>4

(* The shown view of some tiles is a view of the layout.                    *)
LEMMA ShownIsTiled ==
  ASSUME NEW tiles \in Seq(View \X {"tile", "pending"}), FirstShown(tiles) # NULL
  PROVE  /\ FirstShown(tiles) \in View
         /\ \E how \in {"tile", "pending"} : <<FirstShown(tiles), how>> \in ToSet(tiles)
<1> DEFINE n == Len(tiles)
           I == {i \in 1 .. n : ~IsHidden(Now, tiles[i][1])}
           k == SelectInSeq(tiles, LAMBDA e : ~IsHidden(Now, e[1]))
<1>1. k = IF I # {} THEN Min(I) ELSE 0
  BY DEF SelectInSeq
<1>2. FirstShown(tiles) = IF k = 0 THEN NULL ELSE tiles[k][1]
  BY DEF FirstShown
<1>3. n \in Nat /\ I \subseteq 1 .. n
  OBVIOUS
<1> HIDE DEF k, I
<1>4. k \in 1 .. n
  <2> HIDE DEF n
  <2> QED
    BY <1>1, <1>2, <1>3, FirstPlace
<1>5. tiles[k] \in View \X {"tile", "pending"} /\ tiles[k] \in ToSet(tiles)
  BY <1>4, InList
<1>6. FirstShown(tiles) = tiles[k][1]
  BY <1>2, <1>3, <1>4
<1>7. tiles[k] = <<tiles[k][1], tiles[k][2]>>
  BY <1>5
<1> QED
  BY <1>5, <1>6, <1>7

LEMMA Becomes ==
  ASSUME NEW r \in States, Become(r), Now \in States
  PROVE  /\ Now' = IF r.aborted = "none" THEN r ELSE [Now EXCEPT !.aborted = r.aborted]
         /\ aborted' = r.aborted /\ user' = user
<1> DEFINE k == IF r.aborted = "none" THEN r ELSE [Now EXCEPT !.aborted = r.aborted]
<1>1. k \in States /\ k.aborted = r.aborted
  BY DEF States
<1>2. /\ current_sheet' = k.current_sheet /\ view_sheet' = k.view_sheet
      /\ sheet_views' = k.sheet_views /\ visible_views' = k.visible_views
      /\ operation' = k.operation /\ op_tile' = k.op_tile /\ tile' = k.tile
      /\ layout' = k.layout /\ maximized' = k.maximized /\ aborted' = k.aborted
      /\ user' = user
  BY DEF Become
<1> HIDE DEF k
<1>3. Now' = [current_sheet |-> k.current_sheet, view_sheet |-> k.view_sheet,
              sheet_views |-> k.sheet_views, visible_views |-> k.visible_views,
              operation |-> k.operation, op_tile |-> k.op_tile, tile |-> k.tile,
              layout |-> k.layout, maximized |-> k.maximized, aborted |-> k.aborted]
  BY <1>2 DEF Now
<1>4. Now' = k
  BY <1>1, <1>3 DEF States
<1> QED
  BY <1>1, <1>2, <1>4 DEF k

LEMMA BecomeSound ==
  ASSUME NEW off, Sound(Now, off), NEW r, Sound(r, off), Become(r)
  PROVE  Sound(Now', off)
<1>1. Now' = r \/ Now' = [Now EXCEPT !.aborted = r.aborted]
  BY Becomes DEF Sound
<1>2. r.aborted \in Ends
  BY DEF Sound, States
<1>3. Sound([Now EXCEPT !.aborted = r.aborted], off)
  BY <1>2, AbortedSound
<1> QED
  BY <1>1, <1>3

(* Most handlers leave the flags alone.                                     *)
LEMMA KeepsInvariant ==
  ASSUME IInv, NEW r, Sound(r, Off), Become(r), UNCHANGED Flags
  PROVE  IInv'
<1>1. Sound(Now', Off)
  BY BecomeSound DEF IInv
<1>2. user' = user
  BY DEF Become
<1>3. Off' = Off
  BY <1>2 DEF Off, Waits, Flags
<1>4. IInv' <=> Sound(Now', Off')
  BY DEF IInv
<1> QED
  BY <1>1, <1>3, <1>4

LEMMA StateIsNow ==
  ASSUME IInv
  PROVE  /\ Now \in States /\ Shelved(Now) /\ Follows(Now) /\ Sound(Now, Off)
         /\ Off \subseteq floating \cup invisible /\ current_sheet \in SheetNr
         /\ Visible(Now) = Focus /\ Focus \subseteq View
         /\ Now.operation = operation /\ Now.tile = tile /\ Now.op_tile = op_tile
         /\ Now.layout = layout /\ Now.maximized = maximized /\ Now.view_sheet = view_sheet
         /\ Now.sheet_views = sheet_views /\ Now.current_sheet = current_sheet
<1>1. Now \in States /\ Shelved(Now) /\ Follows(Now) /\ Sound(Now, Off)
  BY DEF IInv, Sound
<1>2. visible_views \in Seq(View) /\ current_sheet \in SheetNr
  BY <1>1 DEF States, Now
<1> QED
  BY <1>1, <1>2, InList DEF Visible, Now, Focus, Off

(* A view that is in lists may be given a sheet.                            *)
LEMMA SheetGiven ==
  ASSUME NEW t, NEW off, Sound(t, off), NEW v \in View, NEW s \in SheetNr
  PROVE  Sound([t EXCEPT !.view_sheet[v] = s], off)
<1> DEFINE u == [t EXCEPT !.view_sheet[v] = s]
<1>1. t \in States /\ t.view_sheet \in [View -> SheetNr \cup {NULL}]
  BY DEF Sound, States
<1>2. /\ u \in States /\ u.view_sheet = [t.view_sheet EXCEPT ![v] = s]
      /\ u.sheet_views = t.sheet_views
      /\ u.operation = t.operation /\ u.op_tile = t.op_tile /\ u.tile = t.tile
      /\ u.layout = t.layout /\ u.maximized = t.maximized
  BY <1>1 DEF States
<1> HIDE DEF u
<1>3. \A w : IsMapped(u, w) <=> IsMapped(t, w)
  BY <1>2 DEF IsMapped, On
<1>4. Shelved(u)
  BY <1>1, <1>2, <1>3, NullAssumption DEF Sound, Shelved
<1>5. Follows(u)
  BY <1>2, <1>3 DEF Sound, Follows
<1>6. Linked(u)
  BY <1>2 DEF Sound, Linked, IsLinked, TilesOf
<1>7. Normal(u, off)
  BY <1>2 DEF Sound, Normal
<1> QED
  BY <1>2, <1>4, <1>5, <1>6, <1>7 DEF Sound, u

-----------------------------------------------------------------------------
(* Actions                                                                 *)

LEMMA InitSound ==
  ASSUME Init
  PROVE  IInv
<1> DEFINE t == Now
<1>1. \A s \in SheetNr : sheet_views[s] = <<>> /\ layout[s] = NULL
  BY DEF Init
<1>2. <<>> \in Seq(View) /\ IsInjective(<<>>)
  <2>1. <<>> \in Seq(View)
    OBVIOUS
  <2>2. IsInjective(<<>>)
    BY DEF IsInjective
  <2> QED
    BY <2>1, <2>2
<1>3. \A s \in SheetNr : On(t, s) = {} /\ TilesOf(t, s) = <<>>
  BY <1>1 DEF On, TilesOf, Now, ToSet
<1>4. t \in States
  BY <1>2, SheetAssumption DEF Init, States, Now, Operation, Maximized, Ends
<1>5. Shelved(t)
  BY <1>1, <1>2, <1>3 DEF Shelved, IsMapped, Now
<1>6. Follows(t)
  BY NullAssumption DEF Follows, Init, Now
<1>7. Linked(t)
  <2>1. \A s \in SheetNr : \A w, how : ~IsLinked(t, s, w, how)
    BY <1>3 DEF IsLinked, ToSet
  <2>2. \A s \in SheetNr, w \in View : t.tile[w] # s /\ t.op_tile[w] # s
    BY NullAssumption DEF Init, Now
  <2> QED
    BY <1>2, <1>3, <2>1, <2>2 DEF Linked
<1>8. Normal(t, Off)
  BY NullAssumption DEF Normal, Init, Now
<1> QED
  BY <1>4, <1>5, <1>6, <1>7, <1>8 DEF IInv, Sound

LEMMA MapSound ==
  ASSUME IInv, NEW v \in View, Map(v)
  PROVE  IInv'
<1>1. PICK s \in IF view_sheet[v] = NULL THEN SheetNr ELSE {view_sheet[v]} :
        Become(RaiseView([Now EXCEPT !.view_sheet[v] = s], v))
  BY DEF Map
<1> DEFINE u == [Now EXCEPT !.view_sheet[v] = s]
<1>2. /\ Now \in States /\ Sound(Now, Off)
      /\ Now.view_sheet \in [View -> SheetNr \cup {NULL}] /\ Now.view_sheet = view_sheet
  BY StateIsNow DEF States
<1>3. s \in SheetNr
  BY <1>1, <1>2
<1>4. Sound(u, Off)
  BY <1>2, <1>3, SheetGiven
<1> HIDE DEF u
<1>5. Sound(RaiseView(u, v), Off)
  BY <1>4, RaiseViewRaises, MovesSound DEF Raises, Sound
<1> QED
  BY <1>1, <1>5, KeepsInvariant DEF Map, u

LEMMA UnmapKeeps ==
  ASSUME IInv, NEW v \in View, Unmap(v)
  PROVE  IInv'
<1> DEFINE r == [DetachTile(CancelTile(Hide(Now, v), v), v) EXCEPT
                   !.tile[v] = NULL, !.operation[v] = "none",
                   !.sheet_views = [s \in SheetNr |-> RemoveFirst(@[s], v)]]
<1>1. Sound(r, Off)
  BY UnmapSound, StateIsNow
<1>2. Become(r) /\ UNCHANGED Flags
  BY DEF Unmap
<1> HIDE DEF r
<1> QED
  BY <1>1, <1>2, KeepsInvariant

LEMMA CommitKeeps ==
  ASSUME IInv, NEW v \in View, Commit(v)
  PROVE  IInv'
BY CommitOperationSound, StateIsNow, KeepsInvariant DEF Commit

LEMMA ApplyLayoutKeeps ==
  ASSUME IInv, NEW focus \in Focus \cup {NULL}, NEW capacity, NEW same,
         ApplyLayout(focus, capacity, same)
  PROVE  IInv'
<1> DEFINE main == focus # NULL /\ view_sheet[focus] = current_sheet /\ IsTileable(Now, focus)
           raised == IF main THEN Raise(Now, focus) ELSE Now
           d == Displayed(raised, current_sheet)
           split == ApplySplit(d, capacity, same)
<1>1. Sound(raised, Off)
  <2>1. CASE main
    <3>1. focus \in View /\ focus \in Visible(Now)
      BY <2>1, StateIsNow
    <3>2. Moves(Now, Raise(Now, focus))
      BY <3>1, StateIsNow, RaiseRaises DEF Raises
    <3> QED
      BY <2>1, <3>2, StateIsNow, MovesSound
  <2>2. CASE ~main
    BY <2>2, StateIsNow
  <2> QED
    BY <2>1, <2>2
<1>2. \E r \in {Fail(Now, "main_view"), split} : Become(r)
  BY DEF ApplyLayout
<1>3. UNCHANGED Flags
  BY DEF ApplyLayout
<1> HIDE DEF raised
<1>4. Sound(d, Off)
  BY <1>1, StateIsNow, DisplayedSound
<1> HIDE DEF d
<1>5. Sound(split, Off)
  BY <1>4, StateIsNow, ApplySplitSound
<1>6. Sound(Fail(Now, "main_view"), Off)
  BY StateIsNow, FailSound DEF Ends
<1> HIDE DEF split
<1> QED
  BY <1>2, <1>3, <1>5, <1>6, KeepsInvariant

LEMMA RestackKeeps ==
  ASSUME IInv, NEW prepend, NEW capacity, NEW same, Restack(prepend, capacity, same)
  PROVE  IInv'
BY RestackedSound, StateIsNow, KeepsInvariant DEF Restack

LEMMA ResetLayoutKeeps ==
  ASSUME IInv, NEW same, ResetLayout(same)
  PROVE  IInv'
BY ResettingSound, StateIsNow, KeepsInvariant DEF ResetLayout

LEMMA QueueResetKeeps ==
  ASSUME NEW t, NEW off, Sound(t, off), NEW v \in View, NEW same
  PROVE  Sound(QueueReset(t, v, same), off)
<1>1. Sound(QueueReset(t, v, same), off \cup {v})
  BY QueueResetSound
<1>2. off \subseteq off \cup {v}
  OBVIOUS
<1> QED
  BY <1>1, <1>2, SoundForLess

LEMMA ResetViewKeeps ==
  ASSUME IInv, NEW v \in View, NEW same, ResetView(v, same)
  PROVE  IInv'
BY QueueResetKeeps, StateIsNow, KeepsInvariant DEF ResetView

LEMMA CycleLayoutViewKeeps ==
  ASSUME IInv, NEW v \in View, NEW next, CycleLayoutView(v, next)
  PROVE  IInv'
<1>1. WalkFailure(v, next) \in Ends
  BY DEF WalkFailure, Ends
<1> QED
  BY <1>1, FailSound, StateIsNow, KeepsInvariant DEF CycleLayoutView

(* The view that is walked to has a tile.                                   *)
LEMMA WalkIsTiled ==
  ASSUME IInv, NEW v \in View, NEW next, tile[v] # NULL, WalkFailure(v, next) = "none"
  PROVE  /\ Walk(v, next) \in View
         /\ tile[Walk(v, next)] \in SheetNr \/ op_tile[Walk(v, next)] # NULL
<1> DEFINE s == tile[v]
           Tile == View \X {"tile", "pending"}
           tiles == IF next THEN layout[s] ELSE Reverse(layout[s])
           i == SelectInSeq(tiles, LAMBDA e : e = <<v, "tile">>)
           n == Len(tiles)
           after == SubSeq(tiles, i + 1, n)
           round == IF s = current_sheet THEN SubSeq(tiles, 1, i) ELSE <<>>
           w == Walk(v, next)
<1>1. s # Detached /\ w # NULL
  BY DEF WalkFailure
<1>2. s \in SheetNr
  <2>1. tile \in [View -> SheetNr \cup {NULL, Detached}]
    BY StateIsNow DEF States
  <2> QED
    BY <1>1, <2>1
<1>3. layout[s] # NULL /\ layout[s] \in Seq(Tile) /\ Linked(Now)
  <2>1. Linked(Now) /\ layout[s] \in {NULL} \cup Seq(Tile)
    BY <1>2, StateIsNow DEF Sound, States
  <2>2. IsLinked(Now, s, v, "tile")
    BY <1>2, <2>1, StateIsNow DEF Linked
  <2>3. layout[s] # NULL
    BY <2>2, StateIsNow DEF IsLinked, TilesOf, ToSet
  <2> QED
    BY <2>1, <2>3
<1>4. tiles \in Seq(Tile) /\ ToSet(tiles) = ToSet(layout[s])
  <2> HIDE DEF Tile
  <2> QED
    BY <1>3, ReversedList
<1>5. w = FirstShown(after \o round)
  BY DEF Walk
<1> DEFINE I == {k \in 1 .. n : tiles[k] = <<v, "tile">>}
<1>6. i \in 0 .. n
  <2>1. i = IF I # {} THEN Min(I) ELSE 0
    BY DEF SelectInSeq
  <2> HIDE DEF i, Tile
  <2>2. n \in Nat
    BY <1>4
  <2>3. I \subseteq 1 .. n
    OBVIOUS
  <2> HIDE DEF I, tiles, n
  <2>4. i = 0 \/ i \in 1 .. n
    BY <2>1, <2>2, <2>3, FirstPlace
  <2> QED
    BY <2>2, <2>4
<1> HIDE DEF i, w
<1>7. after \o round \in Seq(Tile) /\ ToSet(after \o round) \subseteq ToSet(tiles)
  <2> HIDE DEF tiles, Tile
  <2>1. Halves(Tile, tiles, SubSeq(tiles, 1, i), after)
    BY <1>4, <1>6, CutInTwo
  <2>2. after \in Seq(Tile) /\ SubSeq(tiles, 1, i) \in Seq(Tile)
        /\ ToSet(after) \subseteq ToSet(tiles) /\ ToSet(SubSeq(tiles, 1, i)) \subseteq ToSet(tiles)
    BY <2>1 DEF Halves
  <2>3. <<>> \in Seq(Tile) /\ ToSet(<<>>) = {}
    BY DEF ToSet
  <2>4. round \in Seq(Tile) /\ ToSet(round) \subseteq ToSet(tiles)
    BY <2>2, <2>3
  <2> HIDE DEF after, round
  <2> QED
    BY <2>2, <2>4, Appended
<1> HIDE DEF after, round
<1>8. w \in View /\ \E how \in {"tile", "pending"} : <<w, how>> \in ToSet(after \o round)
  BY <1>1, <1>5, <1>7, ShownIsTiled
<1>9. PICK how \in {"tile", "pending"} : IsLinked(Now, s, w, how)
  BY <1>3, <1>4, <1>7, <1>8, StateIsNow DEF IsLinked, TilesOf
<1>10. s # NULL
  BY <1>2, NullAssumption
<1>11. tile[w] = s \/ op_tile[w] = s
  BY <1>2, <1>3, <1>8, <1>9, StateIsNow DEF Linked
<1> QED
  BY <1>2, <1>8, <1>10, <1>11 DEF w

LEMMA ExchangeKeeps ==
  ASSUME IInv, NEW v \in View, NEW next, NEW same, Exchange(v, next, same)
  PROVE  IInv'
<1> DEFINE fail == WalkFailure(v, next)
<1>1. fail \in Ends
  BY DEF WalkFailure, Ends
<1>2. UNCHANGED Flags /\ tile[v] # NULL
  BY DEF Exchange
<1>3. CASE fail # "none"
  <2>1. Become(Fail(Now, fail))
    BY <1>3 DEF Exchange
  <2> HIDE DEF fail
  <2> QED
    BY <1>1, <1>2, <2>1, FailSound, StateIsNow, KeepsInvariant
<1>4. CASE fail = "none"
  <2> DEFINE w == Walk(v, next)
  <2>1. Become(Exchanged(Now, v, w, same))
    BY <1>4 DEF Exchange
  <2>2. w \in View /\ (tile[w] \in SheetNr \/ op_tile[w] # NULL)
    BY <1>2, <1>4, WalkIsTiled
  <2> HIDE DEF w
  <2>3. Sound(Exchanged(Now, v, w, same), Off)
    BY <2>2, StateIsNow, ExchangedSound
  <2> QED
    BY <1>2, <2>1, <2>3, KeepsInvariant
<1> QED
  BY <1>3, <1>4

LEMMA ExchangeMainKeeps ==
  ASSUME IInv, NEW v \in View, NEW same, ExchangeMain(v, same)
  PROVE  IInv'
<1> DEFINE s == current_sheet
           main == FirstShown(layout[s])
<1>1. UNCHANGED Flags /\ layout[s] # NULL
  BY DEF ExchangeMain
<1>2. Become(IF main = NULL THEN Fail(Now, "no_first") ELSE Exchanged(Now, v, main, same))
  BY DEF ExchangeMain
<1>3. CASE main = NULL
  <2>1. Sound(Fail(Now, "no_first"), Off)
    BY FailSound, StateIsNow DEF Ends
  <2> QED
    BY <1>1, <1>2, <1>3, <2>1, KeepsInvariant
<1>4. CASE main # NULL
  <2>1. s \in SheetNr /\ layout[s] \in Seq(View \X {"tile", "pending"}) /\ Linked(Now)
    BY <1>1, StateIsNow DEF Sound, States
  <2>2. main \in View /\ \E how \in {"tile", "pending"} : <<main, how>> \in ToSet(layout[s])
    BY <1>4, <2>1, ShownIsTiled
  <2> HIDE DEF main
  <2>3. PICK how \in {"tile", "pending"} : IsLinked(Now, s, main, how)
    BY <1>1, <2>2, StateIsNow DEF IsLinked, TilesOf
  <2>4. tile[main] = s \/ op_tile[main] = s
    BY <2>1, <2>2, <2>3, StateIsNow DEF Linked
  <2>5. tile[main] \in SheetNr \/ op_tile[main] # NULL
    BY <2>1, <2>4, NullAssumption
  <2>6. Sound(Exchanged(Now, v, main, same), Off)
    BY <2>2, <2>5, StateIsNow, ExchangedSound
  <2> QED
    BY <1>1, <1>2, <1>4, <2>6, KeepsInvariant
<1> QED
  BY <1>3, <1>4

LEMMA QueueKeeps ==
  ASSUME IInv, NEW v \in View, operation[v] = "none",
         NEW o \in Operation \ {"none", "tile", "reset"},
         o \in {"vertical", "horizontal"} => maximized[v] # "vertical", Queue(v, o)
  PROVE  IInv'
<1> DEFINE u == [Now EXCEPT !.operation[v] = o]
<1>1. Become(u) /\ UNCHANGED Flags
  BY DEF Queue
<1>2. /\ Now \in States /\ Shelved(Now) /\ Follows(Now) /\ Linked(Now) /\ Normal(Now, Off)
      /\ Now.operation \in [View -> Operation] /\ Now.operation[v] = "none"
      /\ Now.maximized[v] = maximized[v]
  BY StateIsNow DEF Sound, States
<1>3. /\ u \in States /\ u.operation = [Now.operation EXCEPT ![v] = o]
      /\ u.sheet_views = Now.sheet_views /\ u.view_sheet = Now.view_sheet
      /\ u.op_tile = Now.op_tile /\ u.tile = Now.tile
      /\ u.layout = Now.layout /\ u.maximized = Now.maximized
  BY <1>2 DEF States
<1> HIDE DEF u
<1>4. \A w : IsMapped(u, w) <=> IsMapped(Now, w)
  BY <1>3 DEF IsMapped, On
<1>5. Shelved(u)
  BY <1>2, <1>3, <1>4 DEF Shelved
<1>6. Follows(u)
  BY <1>2, <1>3, <1>4 DEF Follows
<1>7. Linked(u)
  BY <1>2, <1>3 DEF Linked, IsLinked, TilesOf
<1>8. Normal(u, Off)
  BY <1>2, <1>3 DEF Normal
<1>9. Sound(u, Off)
  BY <1>3, <1>5, <1>6, <1>7, <1>8 DEF Sound
<1> QED
  BY <1>1, <1>9, KeepsInvariant

LEMMA MaximizationsKeep ==
  ASSUME IInv, Patient, NEW v \in View,
         \/ Resize(v) \/ ToggleFullMaximize(v) \/ ToggleVerticalMaximize(v)
         \/ ToggleHorizontalMaximize(v)
  PROVE  IInv'
<1>1. operation[v] = "none"
  BY DEF Resize, ToggleFullMaximize, ToggleVerticalMaximize, ToggleHorizontalMaximize, Pressed,
         Patient
<1>2. maximized[v] \in Maximized
  BY StateIsNow DEF States
<1>3. CASE Resize(v)
  BY <1>1, <1>3, QueueKeeps DEF Resize, Operation
<1>4. CASE ToggleFullMaximize(v)
  BY <1>1, <1>4, QueueKeeps DEF ToggleFullMaximize, Operation
<1>5. CASE ToggleVerticalMaximize(v)
  <2> DEFINE o == CASE maximized[v] = "none"       -> "vertical"
                    [] maximized[v] = "full"       -> "horizontal"
                    [] maximized[v] = "vertical"   -> "unmaximize"
                    [] maximized[v] = "horizontal" -> "full"
  <2>1. Queue(v, o)
    BY <1>5 DEF ToggleVerticalMaximize
  <2>2. /\ o \in Operation \ {"none", "tile", "reset"}
        /\ o \in {"vertical", "horizontal"} => maximized[v] # "vertical"
    BY <1>2 DEF Maximized, Operation
  <2> HIDE DEF o
  <2> QED
    BY <1>1, <2>1, <2>2, QueueKeeps
<1>6. CASE ToggleHorizontalMaximize(v)
  <2> DEFINE o == CASE maximized[v] = "none"       -> "horizontal"
                    [] maximized[v] = "full"       -> "vertical"
                    [] maximized[v] = "vertical"   -> "full"
                    [] maximized[v] = "horizontal" -> "unmaximize"
  <2>1. Queue(v, o)
    BY <1>6 DEF ToggleHorizontalMaximize
  <2>2. /\ o \in Operation \ {"none", "tile", "reset"}
        /\ o \in {"vertical", "horizontal"} => maximized[v] # "vertical"
    BY <1>2 DEF Maximized, Operation
  <2> HIDE DEF o
  <2> QED
    BY <1>1, <2>1, <2>2, QueueKeeps
<1> QED
  BY <1>3, <1>4, <1>5, <1>6

(* A view that leaves its layout may become floating or invisible: either   *)
(* its reset is queued, or nothing but the failure is to be seen.           *)
LEMMA FlagKeeps ==
  ASSUME IInv, NEW v \in View, NEW same, NEW more,
         NEW r, r = IF more /\ tile[v] # NULL THEN QueueReset(Now, v, same) ELSE Now,
         Become(r), Waits => operation[v] = "none",
         Off' \subseteq IF more /\ aborted' = "none" THEN Off \cup {v} ELSE Off,
         Off' # {} => Waits
  PROVE  IInv'
<1>1. Sound(r, Off) /\ Sound(Now, Off) /\ r \in States /\ Now \in States
  BY QueueResetKeeps, StateIsNow DEF Sound
<1>2. Sound(Now', Off)
  BY <1>1, BecomeSound
<1>3. IInv' <=> Sound(Now', Off')
  BY DEF IInv
<1>4. CASE Off' \subseteq Off
  BY <1>2, <1>3, <1>4, SoundForLess
<1>5. CASE ~(Off' \subseteq Off)
  <2>1. more /\ aborted' = "none" /\ Off' \subseteq Off \cup {v} /\ operation[v] = "none"
    BY <1>5
  <2>2. Now' = r
    BY <1>1, <2>1, Becomes
  <2>3. Sound(r, Off \cup {v})
    <3>1. CASE tile[v] # NULL
      BY <2>1, <3>1, QueueResetSound, StateIsNow
    <3>2. CASE tile[v] = NULL
      <4>1. r = Now /\ tile[v] \notin SheetNr /\ op_tile[v] = NULL
        BY <2>1, <3>2, NullAssumption, StateIsNow DEF Follows
      <4>2. Normal(Now, Off \cup {v})
        BY <4>1, StateIsNow DEF Normal, Sound
      <4> QED
        BY <1>1, <4>1, <4>2 DEF Sound
    <3> QED
      BY <3>1, <3>2
  <2> QED
    BY <1>3, <2>1, <2>2, <2>3, SoundForLess
<1> QED
  BY <1>4, <1>5

LEMMA ToggleFloatingKeeps ==
  ASSUME IInv, NEW v \in View, NEW same, ToggleFloating(v, same)
  PROVE  IInv'
<1> DEFINE r == IF v \notin floating /\ tile[v] # NULL THEN QueueReset(Now, v, same) ELSE Now
<1>1. Become(r)
  BY DEF ToggleFloating
<1>2. user' = user
  BY <1>1 DEF Become
<1>3. Waits' = Waits
  BY <1>2 DEF Waits
<1>4. Waits => operation[v] = "none"
  BY DEF ToggleFloating, Pressed, Waits
<1>5. invisible' = invisible /\ floating' \subseteq floating \cup {v}
      /\ (v \in floating \/ aborted' # "none" => floating' \subseteq floating)
  BY DEF ToggleFloating
<1>6. Off' \subseteq IF v \notin floating /\ aborted' = "none" THEN Off \cup {v} ELSE Off
  BY <1>3, <1>5 DEF Off
<1>7. Off' # {} => Waits
  BY <1>3 DEF Off
<1> HIDE DEF r
<1>8. r = IF v \notin floating /\ tile[v] # NULL THEN QueueReset(Now, v, same) ELSE Now
  BY DEF r
<1> QED
  BY <1>1, <1>4, <1>6, <1>7, <1>8, FlagKeeps

LEMMA ToggleInvisibleKeeps ==
  ASSUME IInv, NEW v \in View, NEW same, ToggleInvisible(v, same)
  PROVE  IInv'
<1> DEFINE r == IF v \notin invisible /\ tile[v] # NULL THEN QueueReset(Now, v, same) ELSE Now
<1>1. Become(r)
  BY DEF ToggleInvisible
<1>2. user' = user
  BY <1>1 DEF Become
<1>3. Waits' = Waits
  BY <1>2 DEF Waits
<1>4. Waits => operation[v] = "none"
  BY DEF ToggleInvisible, Pressed, Waits
<1>5. floating' = floating /\ invisible' \subseteq invisible \cup {v}
      /\ (v \in invisible \/ aborted' # "none" => invisible' \subseteq invisible)
  BY DEF ToggleInvisible
<1>6. Off' \subseteq IF v \notin invisible /\ aborted' = "none" THEN Off \cup {v} ELSE Off
  BY <1>3, <1>5 DEF Off
<1>7. Off' # {} => Waits
  BY <1>3 DEF Off
<1> HIDE DEF r
<1>8. r = IF v \notin invisible /\ tile[v] # NULL THEN QueueReset(Now, v, same) ELSE Now
  BY DEF r
<1> QED
  BY <1>1, <1>4, <1>6, <1>7, <1>8, FlagKeeps

LEMMA PinToSheetKeeps ==
  ASSUME IInv, NEW v \in View, NEW s \in SheetNr, NEW same, PinToSheet(v, s, same)
  PROVE  IInv'
<1> DEFINE shown == [Now EXCEPT !.visible_views = <<v>> \o RemoveFirst(@, v)]
           moved == IF SheetIsVisible(Now, s) THEN shown ELSE Hide(Now, v)
           p == Pinned(v, s)
<1>1. Sound(Now, Off) /\ Now \in States /\ Shelved(Now) /\ v \in Visible(Now)
  BY StateIsNow DEF PinToSheet, Pressed
<1>2. UNCHANGED Flags
  BY DEF PinToSheet
<1>3. \E r \in {QueueReset(p, v, same), MoveToTop(p, v), Raise(Now, v),
      MoveToTop(Hide(Now, v), v)} :
        Become(r)
  BY DEF PinToSheet
<1>4. Moves(Now, shown)
  <2> DEFINE list == <<v>> \o RemoveFirst(Now.visible_views, v)
  <2>1. list \in Seq(View)
    <3>1. Now.visible_views \in Seq(View)
      BY <1>1 DEF States
    <3>2. RemoveFirst(Now.visible_views, v) \in Seq(View)
      BY <3>1, RemoveFirstIsList
    <3> QED
      BY <3>2, Prepended
  <2>2. shown = [Now EXCEPT !.visible_views = list]
    OBVIOUS
  <2> HIDE DEF list, shown
  <2>3. shown \in States /\ SameTiles(Now, shown) /\ shown.sheet_views = Now.sheet_views
    BY <1>1, <2>1, <2>2 DEF States, SameTiles
  <2>4. Shelved(shown) /\ \A w \in View : IsMapped(Now, w) => IsMapped(shown, w)
    BY <1>1, <2>3 DEF Shelved, IsMapped, On, SameTiles
  <2> QED
    BY <2>3, <2>4 DEF Moves
<1> HIDE DEF shown
<1>5. Moves(Now, Hide(Now, v))
  BY <1>1, HideMoves
<1>6. Sound(moved, Off) /\ Sound(Hide(Now, v), Off)
  BY <1>1, <1>4, <1>5, MovesSound
<1>7. p = [moved EXCEPT !.view_sheet[v] = s]
  BY DEF Pinned, shown
<1> HIDE DEF moved, p
<1>8. Sound(p, Off)
  BY <1>6, <1>7, SheetGiven
<1>9. Sound(QueueReset(p, v, same), Off)
  BY <1>8, QueueResetKeeps
<1>10. Sound(MoveToTop(p, v), Off) /\ Sound(MoveToTop(Hide(Now, v), v), Off)
  <2>1. Moves(p, MoveToTop(p, v)) /\ Moves(Hide(Now, v), MoveToTop(Hide(Now, v), v))
    BY <1>6, <1>8, SheetsMove DEF Sound
  <2> QED
    BY <1>6, <1>8, <2>1, MovesSound
<1>11. Sound(Raise(Now, v), Off)
  BY <1>1, RaiseRaises, MovesSound DEF Raises
<1> QED
  BY <1>2, <1>3, <1>9, <1>10, <1>11, KeepsInvariant

LEMMA LowerFocusKeeps ==
  ASSUME IInv, NEW v \in View, LowerFocus(v)
  PROVE  IInv'
<1> DEFINE top == Append(RemoveFirst(Now.visible_views, v), v)
           at == Now.view_sheet[v]
           low == [s \in SheetNr |->
                     RemoveFirst(Now.sheet_views[s], v) \o (IF s = at THEN <<v>> ELSE <<>>)]
           u == [Now EXCEPT !.visible_views = top, !.sheet_views = low]
<1>1. Become(u) /\ UNCHANGED Flags
  BY DEF LowerFocus, Now
<1>2. Sound(Now, Off) /\ Now \in States /\ Shelved(Now)
  BY StateIsNow
<1>3. at \in SheetNr \cup {NULL}
  BY <1>2 DEF States
<1>4. top \in Seq(View)
  <2>1. Now.visible_views \in Seq(View)
    BY <1>2 DEF States
  <2>2. RemoveFirst(Now.visible_views, v) \in Seq(View)
    BY <2>1, RemoveFirstIsList
  <2> QED
    BY <2>2
<1>5. ASSUME NEW s \in SheetNr
      PROVE  /\ low[s] \in Seq(View) /\ IsInjective(low[s])
             /\ ToSet(low[s]) = (On(Now, s) \ {v}) \cup (IF s = at THEN {v} ELSE {})
  <2> DEFINE list == Now.sheet_views[s]
             rest == RemoveFirst(list, v)
             last == IF s = at THEN <<v>> ELSE <<>>
  <2>1. list \in Seq(View) /\ IsInjective(list)
    BY <1>2 DEF States, Shelved
  <2>2. low[s] = rest \o last /\ On(Now, s) = ToSet(list)
    BY DEF On
  <2>3. /\ rest \in Seq(View) /\ IsInjective(rest) /\ ToSet(rest) = ToSet(list) \ {v}
    <3> HIDE DEF list
    <3> QED
      BY <2>1, RemoveFirstIsList
  <2>4. /\ last \in Seq(View) /\ IsInjective(last)
        /\ ToSet(last) = IF s = at THEN {v} ELSE {}
    BY DEF IsInjective, ToSet
  <2> HIDE DEF list, rest, last, low
  <2> QED
    BY <2>2, <2>3, <2>4, Appended
<1>6. low \in [SheetNr -> Seq(View)]
  BY <1>5
<1> HIDE DEF low, top, u
<1>7. u \in States /\ SameTiles(Now, u) /\ u.sheet_views = low
  BY <1>2, <1>4, <1>6 DEF States, SameTiles, u
<1>8. \A s \in SheetNr : On(u, s) = (On(Now, s) \ {v}) \cup (IF s = at THEN {v} ELSE {})
  BY <1>5, <1>7 DEF On
<1>9. /\ \A w \in View : IsMapped(Now, w) => IsMapped(u, w)
      /\ \A w \in View : IsMapped(u, w) => IsMapped(Now, w) \/ (w = v /\ at # NULL)
  BY <1>2, <1>3, <1>8, NullAssumption DEF Shelved, IsMapped
<1>10. Shelved(u)
  BY <1>2, <1>5, <1>7, <1>9 DEF Shelved, SameTiles
<1>11. Sound(u, Off)
  BY <1>2, <1>7, <1>9, <1>10, MovesSound DEF Moves
<1> QED
  BY <1>1, <1>11, KeepsInvariant

LEMMA FocusKeeps ==
  ASSUME IInv, NEW v \in View, RaiseFocus(v) \/ HideFocus(v)
  PROVE  IInv'
<1>1. Sound(Now, Off) /\ Now \in States /\ Shelved(Now) /\ v \in Visible(Now)
  BY StateIsNow DEF RaiseFocus, HideFocus
<1>2. Sound(Hide(Now, v), Off)
  BY <1>1, HideMoves, MovesSound
<1>3. Sound(Raise(Now, v), Off)
  BY <1>1, RaiseRaises, MovesSound DEF Raises
<1> QED
  BY <1>2, <1>3, KeepsInvariant DEF RaiseFocus, HideFocus

LEMMA SwitchSheetKeeps ==
  ASSUME IInv, NEW s \in SheetNr, SwitchSheet(s)
  PROVE  IInv'
BY DisplayedSound, StateIsNow, KeepsInvariant DEF SwitchSheet

LEMMA ShowSheetViewsKeeps ==
  ASSUME IInv, NEW shown, ShowSheetViews(shown)
  PROVE  IInv'
<1> DEFINE c == Cleared(Now)
           r == ShowViews(c, current_sheet, shown)
<1>1. Become(r) /\ UNCHANGED Flags
  BY DEF ShowSheetViews
<1>2. c = [Now EXCEPT !.visible_views = <<>>] /\ <<>> \in Seq(View)
  BY DEF Cleared
<1> HIDE DEF c
<1>3. c \in States /\ SameTiles(Now, c) /\ c.sheet_views = Now.sheet_views
  BY <1>2, StateIsNow DEF States, SameTiles
<1>4. Shelved(c) /\ \A w \in View : IsMapped(Now, w) => IsMapped(c, w)
  BY <1>3, StateIsNow DEF Shelved, IsMapped, On, SameTiles
<1>5. Sound(c, Off)
  BY <1>3, <1>4, StateIsNow, MovesSound DEF Moves
<1>6. Raises(c, r)
  BY <1>3, <1>4, StateIsNow, ShowViewsRaises
<1> HIDE DEF r
<1>7. Sound(r, Off)
  BY <1>5, <1>6, MovesSound DEF Raises
<1> QED
  BY <1>1, <1>7, KeepsInvariant

-----------------------------------------------------------------------------
(* Theorems                                                                *)

LEMMA NextKeeps ==
  ASSUME IInv, Patient, Next
  PROVE  IInv'
<1>1. CASE ClientNext
  BY <1>1, MapSound, UnmapKeeps, CommitKeeps DEF ClientNext
<1>2. ASSUME NEW same \in SUBSET Mapped, LayoutNext(same)
      PROVE  IInv'
  BY <1>2, ApplyLayoutKeeps, RestackKeeps, ResetLayoutKeeps, ResetViewKeeps,
     CycleLayoutViewKeeps, ExchangeKeeps, ExchangeMainKeeps DEF LayoutNext
<1>3. ASSUME NEW same \in SUBSET Mapped, ViewNext(same)
      PROVE  IInv'
  BY <1>3, MaximizationsKeep, ToggleFloatingKeeps, ToggleInvisibleKeeps, PinToSheetKeeps,
     LowerFocusKeeps, FocusKeeps, SwitchSheetKeeps, ShowSheetViewsKeeps DEF ViewNext
<1> QED
  BY <1>1, <1>2, <1>3 DEF Next

LEMMA UserStays ==
  ASSUME Next
  PROVE  user' = user
<1>1. ASSUME NEW r, Become(r) PROVE user' = user
  BY <1>1 DEF Become
<1>2. CASE ClientNext
  BY <1>1, <1>2 DEF ClientNext, Map, Unmap, Commit
<1>3. ASSUME NEW same, LayoutNext(same) PROVE user' = user
  BY <1>1, <1>3 DEF LayoutNext, ApplyLayout, Restack, ResetLayout, ResetView, CycleLayoutView,
     Exchange, ExchangeMain
<1>4. ASSUME NEW same, ViewNext(same) PROVE user' = user
  <2>1. ASSUME NEW v \in View, NEW o, Queue(v, o) PROVE user' = user
    BY <1>1, <2>1 DEF Queue
  <2> QED
    BY <1>1, <1>4, <2>1 DEF ViewNext, Resize, ToggleFullMaximize, ToggleVerticalMaximize,
       ToggleHorizontalMaximize, ToggleFloating, ToggleInvisible, PinToSheet, RaiseFocus,
       LowerFocus, HideFocus, SwitchSheet, ShowSheetViews
<1> QED
  BY <1>2, <1>3, <1>4 DEF Next

LEMMA StutterKeeps ==
  ASSUME IInv, UNCHANGED vars
  PROVE  IInv'
<1>1. Now' = Now /\ Off' = Off
  BY DEF vars, Now, Off, Waits
<1>2. IInv' <=> Sound(Now', Off')
  BY DEF IInv
<1> QED
  BY <1>1, <1>2 DEF IInv

(* The lists of the views, what is pending for a view and the layouts of    *)
(* the sheets fit together in every state that a patient user can bring     *)
(* about: the type invariant and the inductive one.                         *)
THEOREM TilingInvariant == Spec => [](Patient => IInv)
<1>1. Init => (Patient => IInv)
  BY InitSound
<1>2. (Patient => IInv) /\ [Next]_vars => (Patient => IInv)'
  <2>1. CASE Next
    BY <2>1, NextKeeps, UserStays DEF Patient
  <2>2. CASE UNCHANGED vars
    <3>1. user' = user
      BY <2>2 DEF vars
    <3> QED
      BY <2>2, <3>1, StutterKeeps DEF Patient
  <2> QED
    BY <2>1, <2>2
<1> QED
  BY <1>1, <1>2, PTL DEF Spec

(* A layout has exactly the tiles of the mapped views and of what is        *)
(* pending for them, each once (tile.c, hikari_view_unmap, commit_tile).    *)
THEOREM LayoutsHaveLiveTiles == Spec => [](Patient => TilesAreLinked)
<1>1. ASSUME IInv PROVE TilesAreLinked
  <2> SUFFICES ASSUME NEW s \in SheetNr
               PROVE  /\ IsInjective(Tiles(s))
                      /\ ToSet(Tiles(s)) = {<<v, "tile">> : v \in {u \in Mapped : tile[u] = s}}
                                    \cup {<<v, "pending">> : v \in {u \in Mapped : op_tile[u] = s}}
    BY DEF TilesAreLinked
  <2>1. /\ Now \in States /\ Linked(Now) /\ Follows(Now)
        /\ Now.tile = tile /\ Now.op_tile = op_tile /\ Now.layout = layout
        /\ Now.sheet_views = sheet_views
    BY <1>1, StateIsNow DEF Sound
  <2>2. TilesOf(Now, s) = Tiles(s)
    BY <2>1 DEF TilesOf, Tiles
  <2>3. /\ IsInjective(Tiles(s))
        /\ \A v \in View : /\ <<v, "tile">> \in ToSet(Tiles(s)) <=> tile[v] = s
                           /\ <<v, "pending">> \in ToSet(Tiles(s)) <=> op_tile[v] = s
    BY <2>1, <2>2 DEF Linked, IsLinked
  <2>4. \A v \in View : v \in Mapped <=> IsMapped(Now, v)
    BY <2>1 DEF Mapped, IsMapped, On
  <2>5. \A v \in Mapped : v \in View
    <3>1. \A n \in SheetNr : sheet_views[n] \in Seq(View)
      BY <2>1 DEF States
    <3> QED
      BY <3>1, InList DEF Mapped
  <2>6. \A v \in View : tile[v] = s \/ op_tile[v] = s => v \in Mapped
    BY <2>1, <2>4, NullAssumption DEF Follows
  <2>7. \A e \in ToSet(Tiles(s)) : \E v \in View, how \in {"tile", "pending"} : e = <<v, how>>
    <3>1. layout[s] \in {NULL} \cup Seq(View \X {"tile", "pending"})
      BY <2>1 DEF States
    <3>2. Tiles(s) \in Seq(View \X {"tile", "pending"})
      BY <3>1 DEF Tiles
    <3> QED
      BY <3>2, InList
  <2> HIDE DEF Tiles
  <2> QED
    BY <2>3, <2>5, <2>6, <2>7
<1> QED
  BY <1>1, TilingInvariant, PTL

(* A view has a tile out of any layout only while its reset is pending, and *)
(* a pending tile only while the operation that brings it is (view.c).      *)
THEOREM TilesAlwaysFollowOperations == Spec => [](Patient => TilesFollowOperations)
<1>1. ASSUME IInv PROVE TilesFollowOperations
  BY <1>1, StateIsNow DEF Follows, TilesFollowOperations
<1> QED
  BY <1>1, TilingInvariant, PTL

(* Whatever a client answers, when and wherever its view is by then: no     *)
(* assertion of a commit, of a reset or of a raise fails.                   *)
THEOREM OperationsAlwaysApply == Spec => [](Patient => OperationsApply)
<1>1. ASSUME IInv PROVE OperationsApply
  <2>1. Now.aborted = aborted /\ Now \in States
    BY <1>1, StateIsNow DEF Now
  <2>2. aborted \in Ends
    BY <2>1 DEF States
  <2> QED
    BY <2>2 DEF Ends, OperationsApply
<1> QED
  BY <1>1, TilingInvariant, PTL

(* A tiled view is neither floating nor invisible, if the user waits for    *)
(* the client's answer before changing that.                                *)
THEOREM TiledViewsStayNormal == Spec => [](Patient => TiledViewsAreNormal)
<1>1. ASSUME IInv PROVE TiledViewsAreNormal
  BY <1>1, StateIsNow DEF TiledViewsAreNormal, Sound, Normal, Off
<1> QED
  BY <1>1, TilingInvariant, PTL

-----------------------------------------------------------------------------
(* Exchanging                                                              *)
(*                                                                         *)
(* The order in which the views of a layout will be is one of ranks of its  *)
(* tiles.  A tile that is queued behind another ranks next after it; a      *)
(* commit gives the rank of the pending tile to the one that the view has.  *)

(* The views K that have a tile in a list, and where each will have it.     *)
NextIn(list, v) ==
  IF <<v, "pending">> \in ToSet(list) THEN <<v, "pending">> ELSE <<v, "tile">>
TileOf == View \X {"tile", "pending"}

Lies(list, r, K, N) ==
  /\ list \in Seq(TileOf) /\ r \in [TileOf -> Int] /\ Rising(list, r)
  /\ \A x \in View : /\ x \in K <=> NextIn(list, x) \in ToSet(list)
                     /\ x \in K => r[NextIn(list, x)] = N[x]
Placed(list, K, N) == N \in [View -> Int] /\ \E r : Lies(list, r, K, N)

(* Whose tile comes first is a matter of these ranks.                       *)
LEMMA PlacedPrecedes ==
  ASSUME NEW list, NEW K, NEW N, Placed(list, K, N), NEW x \in View, NEW y \in View
  PROVE  (\E i, j \in 1 .. Len(list) :
             i <= j /\ list[i] = NextIn(list, x) /\ list[j] = NextIn(list, y))
         <=> x \in K /\ y \in K /\ N[x] <= N[y]
<1>1. PICK r : Lies(list, r, K, N)
  BY DEF Placed
<1> DEFINE n == Len(list)
           a == NextIn(list, x)
           b == NextIn(list, y)
<1>2. /\ list \in Seq(TileOf) /\ r \in [TileOf -> Int] /\ n \in Nat
      /\ \A i, j \in 1 .. n : i < j => r[list[i]] < r[list[j]]
  BY <1>1 DEF Lies, Rising
<1>3. /\ x \in K <=> \E i \in 1 .. n : list[i] = a
      /\ y \in K <=> \E i \in 1 .. n : list[i] = b
  BY <1>1, <1>2, InList DEF Lies
<1>4. (x \in K => r[a] = N[x]) /\ (y \in K => r[b] = N[y])
  BY <1>1 DEF Lies
<1>5. \A i \in 1 .. n : r[list[i]] \in Int
  BY <1>2
<1> HIDE DEF a, b, n
<1>6. ASSUME NEW i \in 1 .. n, NEW j \in 1 .. n, list[i] = a, list[j] = b
      PROVE  i <= j <=> N[x] <= N[y]
  <2>1. N[x] = r[list[i]] /\ N[y] = r[list[j]] /\ N[x] \in Int /\ N[y] \in Int
    BY <1>3, <1>4, <1>5, <1>6
  <2>2. i <= j => i = j \/ i < j
    BY <1>2
  <2>3. ~(i <= j) => j < i
    BY <1>2
  <2>4. i < j => N[x] < N[y]
    BY <1>2, <2>1
  <2>5. j < i => N[y] < N[x]
    BY <1>2, <2>1
  <2>6. i = j => N[x] = N[y]
    BY <2>1
  <2> QED
    BY <2>1, <2>2, <2>3, <2>4, <2>5, <2>6
<1> QED
  BY <1>3, <1>6 DEF a, b, n

(* A commit moves the tile of a view, and no view's place.                  *)
Committed(list, v) ==
  ReplaceAll(RemoveFirst(list, <<v, "tile">>), <<v, "pending">>, <<v, "tile">>)

LEMMA CommittedTilePlaced ==
  ASSUME NEW list, NEW K, NEW N, Placed(list, K, N), NEW v \in View,
         <<v, "pending">> \in ToSet(list)
  PROVE  /\ Placed(Committed(list, v), K, N)
         /\ \A x \in View : x # v /\ <<x, "pending">> \in ToSet(list) =>
                           <<x, "pending">> \in ToSet(Committed(list, v))
<1> DEFINE T == [x \in View |-> <<x, "tile">>]
           P == [x \in View |-> <<x, "pending">>]
           old == T[v]
           new == P[v]
           rest == RemoveFirst(list, old)
           all == ReplaceAll(rest, new, old)
<1>1. PICK r : Lies(list, r, K, N)
  BY DEF Placed
<1> DEFINE q == [r EXCEPT ![old] = r[new]]
<1>2. old \in TileOf /\ new \in TileOf /\ old # new
  BY DEF TileOf
<1>3. list \in Seq(TileOf) /\ r \in [TileOf -> Int] /\ Rising(list, r)
  BY <1>1 DEF Lies
<1>4. ASSUME NEW x \in View
      PROVE  /\ P[x] \in TileOf /\ T[x] \in TileOf /\ P[x] # old /\ T[x] # new
             /\ x # v => P[x] # new /\ T[x] # old
  BY DEF TileOf
<1>5. \A x \in View : NextIn(list, x) = IF P[x] \in ToSet(list) THEN P[x] ELSE T[x]
  BY DEF NextIn
<1>6. \A x \in View : NextIn(all, x) = IF P[x] \in ToSet(all) THEN P[x] ELSE T[x]
  BY DEF NextIn
<1>7. new \in ToSet(list) /\ old = <<v, "tile">> /\ new = <<v, "pending">>
  OBVIOUS
<1> HIDE DEF T, P, old, new
<1>8. Rising(rest, r) /\ rest \in Seq(TileOf) /\ ToSet(rest) = ToSet(list) \ {old}
  BY <1>3, RisingWithout
<1> HIDE DEF rest
<1>9. q \in [TileOf -> Int] /\ q[old] = q[new] /\ \A e \in TileOf : e # old => q[e] = r[e]
  BY <1>2, <1>3
<1> HIDE DEF q
<1>10. ToSet(rest) \subseteq TileOf
  BY <1>8, InList
<1>11. \A e \in ToSet(rest) : q[e] = r[e]
  BY <1>8, <1>9, <1>10
<1>12. Rising(rest, q)
  BY <1>8, <1>11, RisingElsewhere
<1>13. old \notin ToSet(rest)
  BY <1>8
<1>14. Rising(all, q)
  BY <1>2, <1>8, <1>9, <1>12, <1>13, RisingReplaced
<1>15. Replaced(TileOf, rest, new, old)
  BY <1>2, <1>8, ReplacedAll
<1>16. /\ all \in Seq(TileOf)
       /\ \A e : e \in ToSet(all) <=> (e \in ToSet(list) /\ e # old /\ e # new) \/ e = old
  BY <1>2, <1>7, <1>8, <1>15 DEF Replaced
<1> HIDE DEF all
<1>17. ASSUME NEW x \in View
       PROVE  /\ x \in K <=> NextIn(all, x) \in ToSet(all)
              /\ x \in K => q[NextIn(all, x)] = N[x]
  <2>1. /\ x \in K <=> NextIn(list, x) \in ToSet(list)
        /\ x \in K => r[NextIn(list, x)] = N[x]
    BY <1>1 DEF Lies
  <2>2. CASE x = v
    <3>1. P[x] = new /\ T[x] = old
      BY <2>2 DEF old, new
    <3>2. NextIn(list, x) = new /\ x \in K /\ r[new] = N[x]
      BY <1>5, <1>7, <2>1, <3>1
    <3>3. NextIn(all, x) = old /\ old \in ToSet(all)
      BY <1>2, <1>6, <1>16, <3>1
    <3>4. q[old] = r[new]
      BY <1>2, <1>9
    <3> QED
      BY <3>2, <3>3, <3>4
  <2>3. CASE x # v
    <3> DEFINE p == P[x]
               c == T[x]
    <3>1. p # new /\ p # old /\ c # new /\ c # old /\ p \in TileOf /\ c \in TileOf
      BY <1>4, <2>3
    <3>2. /\ NextIn(list, x) = IF p \in ToSet(list) THEN p ELSE c
          /\ NextIn(all, x) = IF p \in ToSet(all) THEN p ELSE c
      BY <1>5, <1>6
    <3> HIDE DEF p, c
    <3>3. (p \in ToSet(all) <=> p \in ToSet(list)) /\ (c \in ToSet(all) <=> c \in ToSet(list))
          /\ q[p] = r[p] /\ q[c] = r[c]
      BY <1>9, <1>16, <3>1
    <3> QED
      BY <2>1, <3>2, <3>3
  <2> QED
    BY <2>2, <2>3
<1>18. Lies(all, q, K, N)
  BY <1>9, <1>14, <1>16, <1>17 DEF Lies
<1>19. Placed(all, K, N)
  BY <1>18 DEF Placed
<1>20. ASSUME NEW x \in View, x # v, <<x, "pending">> \in ToSet(list)
       PROVE  <<x, "pending">> \in ToSet(all)
  <2>1. P[x] = <<x, "pending">>
    BY DEF P
  <2>2. P[x] # old /\ P[x] # new
    BY <1>4, <1>20
  <2> QED
    BY <1>16, <1>20, <2>1, <2>2
<1>21. Committed(list, v) = all
  BY <1>7 DEF all, rest, Committed
<1> QED
  BY <1>19, <1>20, <1>21

(* Two lists of tiles in which the same views have their place, but for v   *)
(* and w, which have each other's.                                         *)
SwapsIn(list, two, v, w) ==
  \E K, N, M : /\ Placed(list, K, N) /\ Placed(two, K, M) /\ v \in K /\ w \in K
               /\ \A x, y \in K \cap View :
                    M[Swapped(v, w, x)] <= M[Swapped(v, w, y)] <=> N[x] <= N[y]

(* The places are doubled, so that there is room for the new tiles.         *)
LEMMA QueuedBehindEachOther ==
  ASSUME NEW list \in Seq(TileOf), IsInjective(list), NEW v \in View, NEW w \in View, v # w,
         <<v, "pending">> \notin ToSet(list), <<w, "pending">> \notin ToSet(list),
         NEW i \in 1 .. Len(list), list[i] = <<v, "tile">>,
         <<w, "tile">> \in ToSet(list),
         NEW one, one = InsertAt(list, i + 1, <<w, "pending">>),
         NEW j \in 1 .. Len(one), one[j] = <<w, "tile">>,
         NEW two, two = InsertAt(one, j + 1, <<v, "pending">>)
  PROVE  SwapsIn(list, two, v, w)
<1> DEFINE vt == <<v, "tile">>
           wt == <<w, "tile">>
           vp == <<v, "pending">>
           wp == <<w, "pending">>
           n == Len(list)
<1>1. PICK r \in [TileOf -> Int] : Rising(list, r) /\ \A k \in 1 .. n : r[list[k]] = 2 * k
  BY RisingByPlace
<1> DEFINE r1 == [r EXCEPT ![wp] = r[vt] + 1]
           r2 == [r1 EXCEPT ![vp] = r[wt] + 1]
           K == {x \in View : NextIn(list, x) \in ToSet(list)}
           N == [x \in View |-> r[NextIn(list, x)]]
           M == [x \in View |-> r2[NextIn(two, x)]]
<1>2. vt \in TileOf /\ wt \in TileOf /\ vp \in TileOf /\ wp \in TileOf
      /\ vt # vp /\ vt # wp /\ wt # vp /\ wt # wp /\ vt # wt /\ vp # wp
  BY DEF TileOf
<1>3. ASSUME NEW x \in View
      PROVE  /\ NextIn(list, x) \in TileOf /\ NextIn(two, x) \in TileOf
             /\ NextIn(list, x)[1] = x
             /\ x # v /\ x # w => <<x, "pending">> # vp /\ <<x, "pending">> # wp
                                 /\ <<x, "tile">> # vp /\ <<x, "tile">> # wp
  BY DEF TileOf, NextIn
<1>4. /\ NextIn(list, v) = vt /\ NextIn(list, w) = wt
      /\ vp \in ToSet(two) => NextIn(two, v) = vp
      /\ wp \in ToSet(two) => NextIn(two, w) = wp
  BY DEF NextIn
<1>5. ASSUME NEW x \in View, <<x, "pending">> \in ToSet(list) <=> <<x, "pending">> \in ToSet(two)
      PROVE  NextIn(two, x) = NextIn(list, x)
  BY <1>5 DEF NextIn
<1>6. /\ vp \notin ToSet(list) /\ wp \notin ToSet(list) /\ wt \in ToSet(list) /\ list[i] = vt
      /\ one = InsertAt(list, i + 1, wp) /\ two = InsertAt(one, j + 1, vp) /\ one[j] = wt
  OBVIOUS
<1>7. NextIn(list, v) # NextIn(list, w)
  BY <1>2, <1>4
<1> HIDE DEF vt, wt, vp, wp, TileOf
<1>8. /\ n \in Nat /\ \A k \in 1 .. n : list[k] \in TileOf
      /\ \A x : x \in ToSet(list) <=> \E k \in 1 .. n : list[k] = x
      /\ r[vt] = 2 * i /\ r[vt] \in Int /\ r[wt] \in Int
  <2>1. \A x : x \in ToSet(list) <=> \E k \in 1 .. n : list[k] = x
    BY InList
  <2>2. n \in Nat /\ \A k \in 1 .. n : list[k] \in TileOf
    OBVIOUS
  <2>3. i \in 1 .. n
    OBVIOUS
  <2> HIDE DEF n
  <2>4. r[vt] = 2 * i
    BY <1>1, <1>6, <2>3
  <2>5. r[vt] \in Int /\ r[wt] \in Int
    BY <1>1, <1>2
  <2> QED
    BY <2>1, <2>2, <2>4, <2>5
<1>9. /\ r1 \in [TileOf -> Int] /\ r1[wp] = r[vt] + 1 /\ \A e \in TileOf : e # wp => r1[e] = r[e]
  BY <1>1, <1>2, <1>8
<1>10. PICK m \in 1 .. n : list[m] = wt
  BY <1>6, <1>8
<1>11. r[wt] = 2 * m /\ m # i
  BY <1>1, <1>2, <1>6, <1>10
<1> HIDE DEF r1, n
<1>12. /\ r2 \in [TileOf -> Int] /\ r2[vp] = r[wt] + 1 /\ \A e \in TileOf : e # vp => r2[e] = r1[e]
  <2>1. r[wt] \in Int
    BY <1>8, Zenon
  <2>2. r[wt] + 1 \in Int
    BY <2>1
  <2>3. r1 \in [TileOf -> Int] /\ vp \in TileOf
    BY <1>2, <1>9, Zenon
  <2> QED
    BY <2>2, <2>3
<1> HIDE DEF r2
<1>13. \A k \in 1 .. n : /\ list[k] # wp /\ list[k] # vp
                        /\ r1[list[k]] = 2 * k /\ list[k] \in ToSet(list)
  BY <1>1, <1>6, <1>8, <1>9
<1>14. i + 1 \in 1 .. (n + 1) /\ i \in 1 .. n
  BY <1>8 DEF n
<1>15. Rising(one, r1) /\ one \in Seq(TileOf) /\ ToSet(one) = ToSet(list) \cup {wp}
  <2>1. ASSUME NEW x \in ToSet(list) PROVE r1[x] = r[x]
    <3>1. PICK k \in 1 .. n : list[k] = x
      BY <1>8
    <3> QED
      BY <1>1, <1>13, <3>1
  <2>2. Rising(list, r1)
    BY <1>1, <2>1, RisingElsewhere
  <2>3. r1[wp] = 2 * i + 1
    BY <1>8, <1>9
  <2>4. ASSUME NEW k \in 1 .. n
        PROVE  IF k < i + 1 THEN r1[list[k]] < r1[wp] ELSE r1[wp] < r1[list[k]]
    <3>1. /\ r1[list[k]] = 2 * k /\ n \in Nat
          /\ i \in 1 .. n /\ k \in Int /\ i \in Int
      BY <1>8, <1>13, <1>14
    <3>2. k < i + 1 => 2 * k < 2 * i + 1
      BY <3>1
    <3>3. ~(k < i + 1) => 2 * i + 1 < 2 * k
      BY <3>1
    <3> QED
      BY <2>3, <3>1, <3>2, <3>3
  <2> QED
    <3> DEFINE h == i + 1
    <3>1. h \in 1 .. (Len(list) + 1)
      BY <1>14 DEF n
    <3>2. \A k \in 1 .. Len(list) : IF k < h THEN r1[list[k]] < r1[wp] ELSE r1[wp] < r1[list[k]]
      BY <2>4 DEF n
    <3>3. one = InsertAt(list, h, wp)
      BY <1>6
    <3> HIDE DEF h
    <3>4. Rising(InsertAt(list, h, wp), r1)
      BY <1>2, <1>9, <2>2, <3>1, <3>2, RisingInserted
    <3>5. /\ InsertAt(list, h, wp) \in Seq(TileOf)
          /\ ToSet(InsertAt(list, h, wp)) = ToSet(list) \cup {wp}
      <4>1. wp \in TileOf
        BY <1>2
      <4>2. InsertsIn(TileOf, list, h, wp)
        BY <3>1, <4>1, InsertIsList
      <4> QED
        BY <4>2 DEF InsertsIn
    <3> QED
      BY <3>3, <3>4, <3>5
<1>16. j + 1 \in 1 .. (Len(one) + 1) /\ Len(one) \in Nat
  <2>1. one \in Seq(TileOf) /\ j \in 1 .. Len(one)
    BY <1>15
  <2> QED
    BY <2>1, NextPlace, Zenon
<1>17. /\ \A x : x \in ToSet(one) <=> \E k \in 1 .. Len(one) : one[k] = x
       /\ \A k \in 1 .. Len(one) : one[k] \in ToSet(list) \cup {wp}
  <2>1. \A x : x \in ToSet(one) <=> \E k \in 1 .. Len(one) : one[k] = x
    <3>1. one \in Seq(TileOf)
      BY <1>15
    <3>2. HoldsMembers(one)
      BY <3>1, ListHoldsMembers, Zenon
    <3> QED
      BY <3>2, Zenon DEF HoldsMembers
  <2>2. \A k \in 1 .. Len(one) : one[k] \in ToSet(one)
    BY <2>1
  <2> QED
    BY <1>15, <2>1, <2>2
<1>18. Rising(two, r2) /\ two \in Seq(TileOf) /\ ToSet(two) = ToSet(list) \cup {wp, vp}
  <2>1. vp \notin ToSet(one)
    BY <1>2, <1>6, <1>15
  <2>2. \A x \in ToSet(one) : x \in TileOf /\ r2[x] = r1[x]
    <3>1. \A x \in ToSet(one) : x \in TileOf
      <4>1. ASSUME NEW x \in ToSet(list) PROVE x \in TileOf
        <5>1. PICK k \in 1 .. n : list[k] = x
          BY <1>8, Zenon
        <5> QED
          BY <1>8, <5>1, Zenon
      <4> QED
        BY <1>2, <1>15, <4>1
    <3>2. \A x \in ToSet(one) : x # vp
      BY <2>1
    <3> QED
      BY <1>12, <3>1, <3>2
  <2>3. Rising(one, r2)
    BY <1>15, <2>2, RisingElsewhere
  <2>4. ASSUME NEW k \in 1 .. Len(one)
        PROVE  IF k < j + 1 THEN r2[one[k]] < r2[vp] ELSE r2[vp] < r2[one[k]]
    <3> DEFINE a == r1[one[k]]
    <3>1. r2[one[k]] = a /\ r2[vp] = 2 * m + 1 /\ r1[one[j]] = 2 * m
      BY <1>2, <1>6, <1>9, <1>11, <1>12, <1>17, <2>2
    <3>2. a = 2 * i + 1 \/ \E h \in 1 .. n : a = 2 * h
      <4>1. one[k] \in ToSet(list) \/ one[k] = wp
        BY <1>17
      <4>2. CASE one[k] = wp
        BY <1>8, <1>9, <4>2
      <4>3. CASE one[k] \in ToSet(list)
        <5>1. PICK h \in 1 .. n : list[h] = one[k]
          BY <1>8, <4>3
        <5>2. r1[list[h]] = 2 * h
          BY <1>13
        <5> QED
          BY <5>1, <5>2
      <4> QED
        BY <4>1, <4>2, <4>3
    <3>3. (k < j => a < 2 * m) /\ (k = j => a = 2 * m) /\ (j < k => 2 * m < a)
      BY <1>15, <3>1 DEF Rising
    <3>4. m \in 1 .. n /\ i \in 1 .. n /\ i # m /\ n \in Nat
      BY <1>8, <1>10, <1>11, <1>14
    <3> HIDE DEF a
    <3>5. a \in Int
      BY <3>2, <3>4
    <3>6. CASE k < j + 1
      <4>1. a <= 2 * m
        BY <1>16, <3>3, <3>4, <3>5, <3>6
      <4> QED
        BY <3>1, <3>4, <3>5, <3>6, <4>1
    <3>7. CASE ~(k < j + 1)
      <4>a. j \in Int /\ k \in Int
        BY <1>16
      <4>b. j < k
        BY <3>7, <4>a
      <4>1. j < k /\ 2 * m < a
        BY <3>3, <4>b
      <4>2. CASE a = 2 * i + 1
        <5>1. m \in Int /\ i \in Int /\ 2 * m < 2 * i + 1 /\ i # m
          BY <3>4, <4>1, <4>2
        <5>2. 2 * m + 1 < 2 * i + 1
          BY <5>1
        <5> QED
          BY <3>1, <3>7, <4>2, <5>2
      <4>3. CASE \E h \in 1 .. n : a = 2 * h
        <5>1. PICK h \in 1 .. n : a = 2 * h
          BY <4>3
        <5>2. m \in Int /\ h \in Int /\ 2 * m < 2 * h
          BY <3>4, <4>1, <5>1
        <5>3. 2 * m + 1 < 2 * h
          BY <5>2
        <5> QED
          BY <3>1, <3>7, <5>1, <5>3
      <4> QED
        BY <3>2, <4>2, <4>3
    <3> QED
      BY <3>6, <3>7
  <2>5. Rising(InsertAt(one, j + 1, vp), r2)
    BY <1>2, <1>12, <1>15, <1>16, <2>3, <2>4, RisingInserted
  <2>6. two \in Seq(TileOf) /\ ToSet(two) = ToSet(one) \cup {vp}
    <3> DEFINE h == j + 1
    <3>1. h \in 1 .. (Len(one) + 1)
      BY <1>16
    <3>2. two = InsertAt(one, h, vp)
      BY <1>6
    <3> HIDE DEF h
    <3> QED
      <4>1. vp \in TileOf
        BY <1>2
      <4>3. one \in Seq(TileOf)
        BY <1>15
      <4>2. InsertsIn(TileOf, one, h, vp)
        BY <3>1, <4>1, <4>3, InsertIsList
      <4>4. /\ InsertAt(one, h, vp) \in Seq(TileOf)
            /\ ToSet(InsertAt(one, h, vp)) = ToSet(one) \cup {vp}
        BY <4>2 DEF InsertsIn
      <4> QED
        BY <3>2, <4>4
  <2> QED
    BY <1>6, <1>15, <2>5, <2>6
<1>19. v \in K /\ w \in K
  <2>1. vt \in ToSet(list)
    BY <1>6, <1>8, <1>14
  <2> QED
    BY <1>4, <1>6, <2>1
<1>20. NextIn(two, v) = vp /\ NextIn(two, w) = wp
  BY <1>4, <1>18
<1>21. ASSUME NEW x \in View, x # v, x # w
       PROVE  /\ NextIn(two, x) = NextIn(list, x)
              /\ NextIn(list, x) # vp /\ NextIn(list, x) # wp
  <2>1. /\ <<x, "pending">> # vp /\ <<x, "pending">> # wp
        /\ <<x, "tile">> # vp /\ <<x, "tile">> # wp
    BY <1>3, <1>21
  <2>2. <<x, "pending">> \in ToSet(list) <=> <<x, "pending">> \in ToSet(two)
    BY <1>18, <2>1
  <2>3. NextIn(two, x) = NextIn(list, x)
    BY <1>5, <2>2
  <2>4. NextIn(list, x) = <<x, "pending">> \/ NextIn(list, x) = <<x, "tile">>
    BY DEF NextIn
  <2> QED
    BY <2>1, <2>3, <2>4
<1>22. ASSUME NEW x \in View
       PROVE  x \in K <=> NextIn(two, x) \in ToSet(two)
  <2>1. CASE x = v \/ x = w
    BY <1>18, <1>19, <1>20, <2>1
  <2>2. CASE x # v /\ x # w
    BY <1>18, <1>21, <2>2
  <2> QED
    BY <2>1, <2>2
<1>23. /\ N \in [View -> Int] /\ M \in [View -> Int]
       /\ \A x \in View : N[x] = r[NextIn(list, x)] /\ M[x] = r2[NextIn(two, x)]
  BY <1>1, <1>3, <1>12
<1>24. \A x : x \in K <=> x \in View /\ NextIn(list, x) \in ToSet(list)
  OBVIOUS
<1> HIDE DEF K, N, M
<1>25. Placed(list, K, N)
  BY <1>1, <1>23, <1>24 DEF Placed, Lies, TileOf
<1>26. Placed(two, K, M)
  BY <1>12, <1>18, <1>22, <1>23 DEF Placed, Lies
<1>27. /\ M[v] = N[w] + 1 /\ M[w] = N[v] + 1
       /\ \A x \in View : x # v /\ x # w => M[x] = N[x]
  <2>1. M[v] = N[w] + 1
    BY <1>4, <1>12, <1>20, <1>23
  <2>2. M[w] = N[v] + 1
    BY <1>2, <1>4, <1>9, <1>12, <1>20, <1>23
  <2>3. ASSUME NEW x \in View, x # v, x # w PROVE M[x] = N[x]
    <3> DEFINE e == NextIn(list, x)
    <3>1. e \in TileOf /\ e # vp /\ e # wp /\ M[x] = r2[e] /\ N[x] = r[e]
      BY <1>3, <1>21, <1>23, <2>3
    <3> HIDE DEF e
    <3> QED
      BY <1>9, <1>12, <3>1
  <2> QED
    BY <2>1, <2>2, <2>3
<1>28. ASSUME NEW x \in K PROVE \E k \in 1 .. n : N[x] = 2 * k /\ NextIn(list, x) = list[k]
  <2> DEFINE e == NextIn(list, x)
  <2>1. x \in View /\ e \in ToSet(list) /\ N[x] = r[e]
    BY <1>23, <1>24
  <2> HIDE DEF e
  <2>2. PICK k \in 1 .. n : list[k] = e
    BY <1>8, <2>1
  <2>3. r[list[k]] = 2 * k
    BY <1>1
  <2> QED
    BY <2>1, <2>2, <2>3 DEF e
<1>29. ASSUME NEW x \in K, NEW y \in K, N[x] = N[y] PROVE x = y
  <2>1. PICK k \in 1 .. n : N[x] = 2 * k /\ NextIn(list, x) = list[k]
    BY <1>28
  <2>2. PICK h \in 1 .. n : N[y] = 2 * h /\ NextIn(list, y) = list[h]
    BY <1>28
  <2>3. k = h
    <3>1. 2 * k = 2 * h
      BY <1>29, <2>1, <2>2
    <3>2. k \in Int /\ h \in Int
      BY <1>8
    <3> QED
      BY <3>1, <3>2
  <2>4. NextIn(list, x) = NextIn(list, y)
    BY <2>1, <2>2, <2>3
  <2>5. x \in View /\ y \in View
    BY <1>24
  <2> QED
    BY <1>3, <2>4, <2>5
<1>30. ASSUME NEW x \in K \cap View, NEW y \in K \cap View
       PROVE  M[Swapped(v, w, x)] <= M[Swapped(v, w, y)] <=> N[x] <= N[y]
  <2> DEFINE a == M[Swapped(v, w, x)]
             b == M[Swapped(v, w, y)]
  <2>1. a = IF x \in {v, w} THEN N[x] + 1 ELSE N[x]
    BY <1>27, <1>30 DEF Swapped
  <2>2. b = IF y \in {v, w} THEN N[y] + 1 ELSE N[y]
    BY <1>27, <1>30 DEF Swapped
  <2> HIDE DEF a, b
  <2>3. PICK k \in 1 .. n : N[x] = 2 * k
    BY <1>28
  <2>4. PICK h \in 1 .. n : N[y] = 2 * h
    BY <1>28
  <2>5. k = h => a = b
    BY <1>29, <2>1, <2>2, <2>3, <2>4
  <2>6. a \in {2 * k, 2 * k + 1} /\ b \in {2 * h, 2 * h + 1}
    BY <2>1, <2>2, <2>3, <2>4
  <2>7. a <= b <=> k <= h
    BY <1>8, <2>5, <2>6
  <2> QED
    BY <1>8, <2>3, <2>4, <2>7 DEF a, b
<1> QED
  BY <1>19, <1>25, <1>26, <1>30 DEF SwapsIn

(* What queueing and committing a tile do to the layout that is shown.      *)
Queues(t, q, v, i) ==
  /\ q.current_sheet = t.current_sheet
  /\ q.layout[t.current_sheet] = InsertAt(t.layout[t.current_sheet], i, <<v, "pending">>)
  /\ q.operation[v] = "tile" /\ q.tile = t.tile
  /\ \A w \in View \ {v} : q.operation[w] = t.operation[w]

LEMMA QueuedLayout ==
  ASSUME NEW t \in States, NEW v \in View, NEW i
  PROVE  Queues(t, Queued(t, v, i), v, i)
BY DEF Queued, States, Queues

Commits(t, c, v) ==
  /\ c.current_sheet = t.current_sheet
  /\ c.layout[t.current_sheet] = Committed(t.layout[t.current_sheet], v)
  /\ \A w \in View \ {v} : c.operation[w] = t.operation[w] /\ c.tile[w] = t.tile[w]

LEMMA CommitTileLayout ==
  ASSUME NEW t \in States, NEW v \in View, t.operation[v] = "tile", t.tile[v] # Detached,
         t.layout[t.current_sheet] # NULL
  PROVE  Commits(t, CommitOperation(t, v), v)
<1> DEFINE L(s) == ReplaceAll(RemoveFirst(t.layout[s], <<v, "tile">>),
                              <<v, "pending">>, <<v, "tile">>)
           new == [s \in SheetNr |-> IF t.layout[s] = NULL THEN NULL ELSE L(s)]
           u == CommitTile(t, v)
           s0 == t.current_sheet
           done == CommitOperation(t, v)
<1>1. u = [t EXCEPT !.layout = new, !.tile[v] = t.op_tile[v], !.op_tile[v] = NULL,
                    !.maximized[v] = "none"]
  BY DEF CommitTile
<1>2. done = [u EXCEPT !.operation[v] = "none"]
  BY DEF CommitOperation
<1>3. s0 \in SheetNr /\ t.operation \in [View -> Operation]
      /\ t.tile \in [View -> SheetNr \cup {NULL, Detached}]
  BY DEF States
<1>4. new[s0] = L(s0)
  BY <1>3
<1> HIDE DEF new, L, u, done
<1>5. /\ u.current_sheet = s0 /\ u.layout = new /\ u.operation = t.operation
      /\ u.tile = [t.tile EXCEPT ![v] = t.op_tile[v]]
  BY <1>1 DEF States
<1>6. /\ done.current_sheet = s0 /\ done.layout = new
      /\ done.operation = [t.operation EXCEPT ![v] = "none"]
      /\ done.tile = [t.tile EXCEPT ![v] = t.op_tile[v]]
  <2>1. done = [t EXCEPT !.layout = new, !.tile[v] = t.op_tile[v], !.op_tile[v] = NULL,
                         !.maximized[v] = "none", !.operation[v] = "none"]
    BY <1>1, <1>2, <1>5 DEF States
  <2> QED
    BY <2>1 DEF States
<1> QED
  BY <1>3, <1>4, <1>6 DEF L, done, Committed, Commits

LEMMA CommitsStaySwapped ==
  ASSUME NEW list, NEW two, NEW v \in View, NEW w \in View, SwapsIn(list, two, v, w),
         NEW x \in View, <<x, "pending">> \in ToSet(two)
  PROVE  SwapsIn(list, Committed(two, x), v, w)
<1>1. PICK K, N, M : /\ Placed(list, K, N) /\ Placed(two, K, M) /\ v \in K /\ w \in K
                     /\ \A a, b \in K \cap View :
                          M[Swapped(v, w, a)] <= M[Swapped(v, w, b)] <=> N[a] <= N[b]
  BY DEF SwapsIn
<1>2. Placed(two, K, M)
  BY <1>1
<1>3. Placed(Committed(two, x), K, M)
  BY <1>2, CommittedTilePlaced
<1> QED
  BY <1>1, <1>3 DEF SwapsIn

(* The places of the tiles while v and w are exchanged, and the tiles that  *)
(* are pending then.                                                       *)
Exchanging(t, u, off, v, w, x) ==
  /\ Sound(u, off) /\ u.current_sheet = t.current_sheet
  /\ SwapsIn(t.layout[t.current_sheet], u.layout[t.current_sheet], v, w)
  /\ \A a \in x : /\ u.operation[a] = "tile" /\ u.tile[a] # Detached
                 /\ <<a, "pending">> \in ToSet(u.layout[t.current_sheet])

(* hikari_view_exchange, before a commit: two views without an operation,   *)
(* tiled on the current sheet, each with a tile queued behind the other's.  *)
Swappable(t, v) == t.operation[v] = "none" /\ t.tile[v] = t.current_sheet

QueuesBoth(t, v, w, i, one, j, two) ==
  /\ Swappable(t, v) /\ Swappable(t, w)
  /\ i = PlaceIn(t.layout[t.current_sheet], <<v, "tile">>) + 1 /\ one = Queued(t, w, i)
  /\ j = PlaceIn(one.layout[one.current_sheet], <<w, "tile">>) + 1 /\ two = Queued(one, v, j)

LEMMA SwapLinks ==
  ASSUME NEW t, NEW off, Sound(t, off), NEW v \in View, NEW w \in View, v # w,
         NEW i, NEW one, NEW j, NEW two, QueuesBoth(t, v, w, i, one, j, two)
  PROVE  Exchanging(t, two, off, v, w, {v, w})
<1> DEFINE s == t.current_sheet
           list == t.layout[s]
           vt == <<v, "tile">>
           wt == <<w, "tile">>
           vp == <<v, "pending">>
           wp == <<w, "pending">>
<1>1. /\ t \in States /\ s \in SheetNr /\ Follows(t) /\ Linked(t) /\ Normal(t, off)
      /\ t.op_tile \in [View -> SheetNr \cup {NULL}] /\ s # NULL /\ s # Detached
  BY NullAssumption DEF Sound, States
<1> DEFINE placed == one.layout[one.current_sheet]
<1>a. /\ t.operation[v] = "none" /\ t.operation[w] = "none"
      /\ t.tile[v] = s /\ t.tile[w] = s
  BY Zenon DEF QueuesBoth, Swappable
<1>b. i = PlaceIn(list, vt) + 1 /\ one = Queued(t, w, i)
  BY Zenon DEF QueuesBoth
<1>c. j = PlaceIn(placed, wt) + 1 /\ two = Queued(one, v, j)
  BY Zenon DEF QueuesBoth
<1>2. t.op_tile[v] = NULL /\ t.op_tile[w] = NULL
      /\ IsMapped(t, v) /\ IsMapped(t, w) /\ v \notin off /\ w \notin off
  BY <1>1, <1>a DEF Follows, Normal
<1>3. /\ IsInjective(TilesOf(t, s))
      /\ IsLinked(t, s, v, "tile") /\ IsLinked(t, s, w, "tile")
      /\ ~IsLinked(t, s, v, "pending") /\ ~IsLinked(t, s, w, "pending")
  BY <1>1, <1>2, <1>a DEF Linked
<1>4. list # NULL
  <2> HIDE DEF list
  <2>1. IsLinked(t, s, v, "tile")
    BY <1>3
  <2>2. \A e : e \notin ToSet(<<>>)
    BY DEF ToSet
  <2>3. t.layout[s] # NULL
    BY <2>1, <2>2 DEF IsLinked, TilesOf
  <2> QED
    BY <2>3 DEF list
<1>5. list \in Seq(TileOf) /\ TilesOf(t, s) = list
  BY <1>1, <1>4 DEF States, TilesOf, TileOf
<1>6. /\ IsInjective(list) /\ vt \in ToSet(list) /\ wt \in ToSet(list)
      /\ vp \notin ToSet(list) /\ wp \notin ToSet(list)
  BY <1>3, <1>5 DEF IsLinked
<1>7. /\ one.current_sheet = s /\ one.layout[s] = InsertAt(list, i, wp)
      /\ one.operation[w] = "tile" /\ one.tile = t.tile
      /\ \A a \in View \ {w} : one.operation[a] = t.operation[a]
  <2>1. Queues(t, one, w, i)
    BY <1>1, <1>b, QueuedLayout
  <2> QED
    BY <2>1 DEF Queues
<1> DEFINE here == PlaceIn(list, vt)
           line == InsertAt(list, i, wp)
<1>8. here \in 1 .. Len(list) /\ list[here] = vt /\ i = here + 1
  BY <1>5, <1>6, <1>b, PlaceFound
<1> HIDE DEF here, list
<1>9. Len(list) \in Nat /\ i \in 1 .. (Len(list) + 1)
  <2>1. list \in Seq(TileOf)
    BY <1>5
  <2> QED
    BY <1>8, <2>1, NextPlace, Zenon
<1>10. Sound(one, off) /\ Changes(t, one, w)
  <2>1. i \in 1 .. (Len(t.layout[t.current_sheet]) + 1)
    BY <1>9 DEF list
  <2>2. t.layout[t.current_sheet] # NULL
    BY <1>4 DEF list
  <2> QED
    BY <1>2, <1>a, <1>b, <2>1, <2>2, QueuedSound
<1>11. vp \in TileOf /\ wp \in TileOf
  BY DEF TileOf
<1>12. line \in Seq(TileOf) /\ ToSet(line) = ToSet(list) \cup {wp}
  <2>1. InsertsIn(TileOf, list, i, wp)
    BY <1>5, <1>9, <1>11, InsertIsList
  <2> QED
    BY <2>1 DEF InsertsIn
<1>13. one.layout[s] = line /\ line # NULL
  BY <1>7, <1>12, NullAssumption DEF TileOf
<1> DEFINE there == PlaceIn(line, wt)
           last == InsertAt(line, j, vp)
<1> HIDE DEF line
<1>14. there \in 1 .. Len(line) /\ line[there] = wt /\ j = there + 1
  <2>1. wt \in ToSet(line)
    BY <1>6, <1>12
  <2>2. line \in Seq(TileOf)
    BY <1>12
  <2>3. placed = line
    BY <1>7, <1>13
  <2> QED
    BY <1>c, <2>1, <2>2, <2>3, PlaceFound
<1> HIDE DEF there
<1>15. Len(line) \in Nat /\ j \in 1 .. (Len(line) + 1)
  <2>1. line \in Seq(TileOf)
    BY <1>12
  <2> QED
    BY <1>14, <2>1, NextPlace, Zenon
<1>16. /\ two.current_sheet = s /\ two.layout[s] = last
       /\ two.operation[v] = "tile" /\ two.tile = t.tile
       /\ \A a \in View \ {v} : two.operation[a] = one.operation[a]
  <2>1. one \in States
    BY <1>10 DEF Sound
  <2>2. Queues(one, two, v, j)
    BY <1>c, <2>1, QueuedLayout
  <2> QED
    BY <1>7, <1>13, <2>2 DEF Queues
<1>17. Sound(two, off)
  <2>1. /\ one.operation[v] = "none" /\ IsMapped(one, v)
        /\ one.layout[one.current_sheet] # NULL
        /\ j \in 1 .. (Len(one.layout[one.current_sheet]) + 1)
    BY <1>2, <1>7, <1>10, <1>13, <1>15, <1>a DEF Changes
  <2> QED
    BY <1>2, <1>10, <1>c, <2>1, QueuedSound
<1>18. last \in Seq(TileOf) /\ ToSet(last) = ToSet(line) \cup {vp}
  <2>1. InsertsIn(TileOf, line, j, vp)
    BY <1>11, <1>12, <1>15, InsertIsList
  <2> QED
    BY <2>1 DEF InsertsIn
<1> HIDE DEF last
<1>19. SwapsIn(list, last, v, w)
  <2>1. line = InsertAt(list, here + 1, <<w, "pending">>)
    BY <1>8 DEF line
  <2>2. last = InsertAt(line, there + 1, <<v, "pending">>)
    BY <1>14 DEF last
  <2>3. list \in Seq(TileOf) /\ IsInjective(list) /\ v # w
    BY <1>5, <1>6
  <2>4. <<v, "pending">> \notin ToSet(list) /\ <<w, "pending">> \notin ToSet(list)
        /\ <<w, "tile">> \in ToSet(list) /\ here \in 1 .. Len(list) /\ list[here] = <<v, "tile">>
        /\ there \in 1 .. Len(line) /\ line[there] = <<w, "tile">>
    BY <1>6, <1>8, <1>14
  <2> QED
    BY <2>1, <2>2, <2>3, <2>4, QueuedBehindEachOther
<1>20. /\ two.operation[w] = "tile" /\ two.tile[v] # Detached /\ two.tile[w] # Detached
       /\ vp \in ToSet(last) /\ wp \in ToSet(last)
  BY <1>1, <1>7, <1>12, <1>16, <1>18, <1>a
<1>21. two.layout[s] = last /\ two.current_sheet = s /\ two.operation[v] = "tile"
  BY <1>16
<1> QED
  BY <1>17, <1>19, <1>20, <1>21 DEF Exchanging, list

LEMMA CommitExchanged ==
  ASSUME NEW t, t \in States, NEW u, NEW off, NEW v \in View, NEW w \in View,
         NEW X \in SUBSET View, Exchanging(t, u, off, v, w, X), NEW a \in X
  PROVE  Exchanging(t, CommitOperation(u, a), off, v, w, X \ {a})
<1> DEFINE s == t.current_sheet
           c == CommitOperation(u, a)
           list == t.layout[s]
           two == u.layout[s]
<1>1. /\ Sound(u, off) /\ u.current_sheet = s /\ SwapsIn(list, two, v, w)
      /\ u.operation[a] = "tile" /\ u.tile[a] # Detached
      /\ <<a, "pending">> \in ToSet(two) /\ a \in View /\ u \in States
  BY DEF Exchanging, Sound
<1>2. ASSUME NEW b \in X PROVE /\ u.operation[b] = "tile" /\ u.tile[b] # Detached
                               /\ <<b, "pending">> \in ToSet(two) /\ b \in View
  BY DEF Exchanging
<1>3. PICK K, N, M : Placed(two, K, M) /\ Placed(list, K, N)
  BY <1>1 DEF SwapsIn
<1>4. two \in Seq(TileOf) /\ two # NULL
  BY <1>3, NullAssumption DEF Placed, Lies, TileOf
<1>5. /\ c.current_sheet = s /\ c.layout[s] = Committed(two, a)
      /\ \A b \in View \ {a} : c.operation[b] = u.operation[b] /\ c.tile[b] = u.tile[b]
  <2>1. u.layout[u.current_sheet] # NULL
    BY <1>1, <1>4
  <2>2. Commits(u, CommitOperation(u, a), a)
    BY <1>1, <2>1, CommitTileLayout
  <2> QED
    BY <1>1, <2>2 DEF Commits
<1>6. Sound(c, off)
  BY <1>1, CommitOperationSound
<1> HIDE DEF c, two, list
<1>7. SwapsIn(list, Committed(two, a), v, w)
  BY <1>1, CommitsStaySwapped
<1>8. Placed(two, K, M)
  BY <1>3
<1>9. \A x \in View : x # a /\ <<x, "pending">> \in ToSet(two) =>
                     <<x, "pending">> \in ToSet(Committed(two, a))
  BY <1>1, <1>8, CommittedTilePlaced
<1>10. ASSUME NEW b \in X \ {a}
       PROVE  /\ c.operation[b] = "tile" /\ c.tile[b] # Detached
              /\ <<b, "pending">> \in ToSet(c.layout[s])
  BY <1>2, <1>5, <1>9, <1>10
<1> QED
  BY <1>5, <1>6, <1>7, <1>10 DEF Exchanging, c, list

LEMMA SwapOrder ==
  ASSUME NEW t, NEW off, Sound(t, off), NEW v \in View, NEW w \in View, v # w,
         t.operation[v] = "none", t.operation[w] = "none",
         t.tile[v] = t.current_sheet, t.tile[w] = t.current_sheet, NEW same
  PROVE  \E X : Exchanging(t, Swap(t, v, w, same, TRUE), off, v, w, X)
<1> DEFINE i == PlaceIn(t.layout[t.current_sheet], <<v, "tile">>) + 1
           one == Queued(t, w, i)
           j == PlaceIn(one.layout[one.current_sheet], <<w, "tile">>) + 1
           two == Queued(one, v, j)
           first == IF v \in same THEN CommitOperation(two, v) ELSE two
           second == IF w \in same THEN CommitOperation(first, w) ELSE first
<1>1. Swap(t, v, w, same, TRUE) = second
  BY DEF Swap, PlaceIn
<1>2. Exchanging(t, two, off, v, w, {v, w})
  <2>1. QueuesBoth(t, v, w, i, one, j, two)
    BY DEF QueuesBoth, Swappable
  <2> HIDE DEF i, one, j, two
  <2> QED
    BY <2>1, SwapLinks
<1> HIDE DEF two
<1>3. t \in States
  BY DEF Sound
<1>4. Exchanging(t, CommitOperation(two, v), off, v, w, {v, w} \ {v})
  BY <1>2, <1>3, CommitExchanged
<1>5. {v, w} \ {v} = {w}
  OBVIOUS
<1>6. \E X \in SUBSET View : w \in X /\ Exchanging(t, first, off, v, w, X)
  BY <1>2, <1>4, <1>5
<1> HIDE DEF first
<1>7. PICK X \in SUBSET View : w \in X /\ Exchanging(t, first, off, v, w, X)
  BY <1>6
<1>8. Exchanging(t, CommitOperation(first, w), off, v, w, X \ {w})
  BY <1>3, <1>7, CommitExchanged
<1>9. Exchanging(t, second, off, v, w, X \ {w}) \/ Exchanging(t, second, off, v, w, X)
  BY <1>7, <1>8
<1> HIDE DEF second
<1> QED
  BY <1>1, <1>9

(* Exchanging two tiled views swaps their places in the layout, whichever   *)
(* client answers first or has answered already, and leaves the others'     *)
(* alone (hikari_view_exchange, commit_tile), for any number of tiles.      *)
THEOREM ExchangesAlwaysSwap == Spec => [](Patient => ExchangeSwaps)
<1>1. IInv => ExchangeSwaps
  <2> SUFFICES ASSUME IInv, Running, NEW v \in Focus, NEW w \in Focus,
                      NEW same \in SUBSET {v, w}, NEW t, t = Exchanged(Now, v, w, same),
                      operation[v] = "none", operation[w] = "none", v # w,
                      tile[v] = current_sheet, tile[w] = current_sheet, t.aborted = "none",
                      NEW x \in View, NEW y \in View
               PROVE  Precedes(t, Swapped(v, w, x), Swapped(v, w, y)) <=> Precedes(Now, x, y)
    BY DEF ExchangeSwaps
  <2>1. /\ Sound(Now, Off) /\ Now.current_sheet = current_sheet /\ Now.operation = operation
        /\ Now.tile = tile /\ Now.visible_views = visible_views /\ Now \in States
        /\ Now.layout = layout /\ Now.view_sheet = view_sheet
    BY StateIsNow DEF IInv, Sound, Now
  <2>2. v \in View /\ w \in View
    <3>1. visible_views \in Seq(View)
      BY <2>1 DEF States
    <3> QED
      BY <3>1, InList DEF Focus
  <2>3. t = Swap(Now, v, w, same, TRUE)
    <3>1. ~IsDirty(Now, v) /\ ~IsDirty(Now, w)
      BY <2>1 DEF IsDirty
    <3>2. Now.tile[v] # Detached /\ Now.tile[v] = Now.current_sheet
      BY <2>1, NullAssumption DEF States
    <3>3. CASE Now.view_sheet[v] = Now.view_sheet[w]
      BY <3>1, <3>2, <3>3 DEF Exchanged
    <3>4. CASE Now.view_sheet[v] # Now.view_sheet[w]
      <4>1. t = Fail(Now, "exchange_sheets")
        BY <3>1, <3>2, <3>4 DEF Exchanged
      <4>2. t.aborted # "none"
        BY <2>1, <4>1 DEF Fail, States
      <4> QED
        BY <4>2
    <3> QED
      BY <3>3, <3>4
  <2>4. \E X : Exchanging(Now, Swap(Now, v, w, same, TRUE), Off, v, w, X)
    <3>1. /\ Now.operation[v] = "none" /\ Now.operation[w] = "none"
          /\ Now.tile[v] = Now.current_sheet /\ Now.tile[w] = Now.current_sheet
      BY <2>1
    <3> QED
      BY <2>1, <2>2, <3>1, SwapOrder
  <2> DEFINE list == layout[current_sheet]
             two == t.layout[current_sheet]
  <2>5. SwapsIn(list, two, v, w)
    BY <2>1, <2>3, <2>4 DEF Exchanging
  <2>6. PICK K, N, M : /\ Placed(list, K, N) /\ Placed(two, K, M) /\ v \in K /\ w \in K
                       /\ \A a, b \in K \cap View :
                            M[Swapped(v, w, a)] <= M[Swapped(v, w, b)] <=> N[a] <= N[b]
    BY <2>5 DEF SwapsIn
  <2>7. /\ list \in Seq(TileOf) /\ two \in Seq(TileOf) /\ list # NULL /\ two # NULL
    BY <2>6, NullAssumption DEF Placed, Lies, TileOf
  <2>8. CurrentTiles(Now) = list /\ CurrentTiles(t) = two
    BY <2>1, <2>7 DEF CurrentTiles
  <2> HIDE DEF list, two
  <2>9. ASSUME NEW a \in View, NEW b \in View
        PROVE  /\ Precedes(Now, a, b) <=> a \in K /\ b \in K /\ N[a] <= N[b]
               /\ Precedes(t, a, b) <=> a \in K /\ b \in K /\ M[a] <= M[b]
    <3>1. \A c \in View : /\ NextTile(Now, c) = NextIn(list, c)
                         /\ NextTile(t, c) = NextIn(two, c)
      BY <2>8 DEF NextTile, NextIn, Contains, ToSet
    <3>2. Placed(list, K, N) /\ Placed(two, K, M)
      BY <2>6
    <3>3. (\E i, j \in 1 .. Len(list) :
              i <= j /\ list[i] = NextIn(list, a) /\ list[j] = NextIn(list, b))
          <=> a \in K /\ b \in K /\ N[a] <= N[b]
      BY <3>2, PlacedPrecedes
    <3>4. (\E i, j \in 1 .. Len(two) :
              i <= j /\ two[i] = NextIn(two, a) /\ two[j] = NextIn(two, b))
          <=> a \in K /\ b \in K /\ M[a] <= M[b]
      BY <3>2, PlacedPrecedes
    <3>5. DOMAIN list = 1 .. Len(list) /\ DOMAIN two = 1 .. Len(two)
      BY <2>7
    <3> QED
      BY <2>8, <3>1, <3>3, <3>4, <3>5 DEF Precedes
  <2>10. /\ Swapped(v, w, x) \in View /\ Swapped(v, w, y) \in View
         /\ Swapped(v, w, x) \in K <=> x \in K
         /\ Swapped(v, w, y) \in K <=> y \in K
    BY <2>2, <2>6 DEF Swapped
  <2>11. x \in K /\ y \in K => (M[Swapped(v, w, x)] <= M[Swapped(v, w, y)] <=> N[x] <= N[y])
    BY <2>6
  <2> QED
    BY <2>9, <2>10, <2>11
<1> QED
  BY <1>1, TilingInvariant, PTL
=============================================================================
