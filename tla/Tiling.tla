------------------------------- MODULE Tiling -------------------------------
(***************************************************************************)
(* The layouts of one workspace: the tiles that link views to the layout   *)
(* of a sheet (layout.c, tile.c, sheet.c, workspace.c) and the operations  *)
(* of a view that wait for its client (view.c): resize, maximize, tile and *)
(* reset are queued, the client answers later, and the answer applies what *)
(* is queued by then, wherever the view is.                                *)
(*                                                                         *)
(* Sizes are left out: whether a view has the size it is given already, in *)
(* which case the operation is applied at once, is a choice (`same`).  A   *)
(* split is the number of views that it has room for.  The focus view is   *)
(* any visible view or none.  A failed assert(), and a pointer followed    *)
(* that leads nowhere, end the process: `aborted` says which it was, and   *)
(* the rest is left as it was before the handler.                          *)
(***************************************************************************)
EXTENDS Naturals, SequencesExt

CONSTANTS
    View,
    SheetNr,    \* the sheets of the workspace that are used (0 to 9)
    Users,      \* how the compositor is used, a set of records: the keys that
                \* are pressed, the hasty ones among them, pressed even while
                \* the view's client owes an answer, the number of views, and
                \* the numbers of views that the configured splits take
    NULL, Detached

Key == {"layout", "restack", "reset_layout", "cycle", "exchange", "main", "reset", "resize",
        "full", "vertical", "horizontal", "float", "invisible", "pin", "raise", "lower",
        "hide", "sheet", "show"}

ASSUME SheetAssumption == SheetNr \subseteq 0 .. 9 /\ {0, 1} \subseteq SheetNr
ASSUME UserAssumption ==
    Users \subseteq [keys : SUBSET Key, hasty : SUBSET Key, views : Nat, splits : SUBSET Nat]
ASSUME NullAssumption ==
    /\ NULL \notin View \cup SheetNr \cup {Detached} \cup Seq(View \X {"tile", "pending"})
    /\ Detached \notin SheetNr

VARIABLES
    current_sheet,  \* workspace->sheet
    view_sheet,     \* view->sheet, NULL until the view is configured
    sheet_views,    \* sheet->views, the top first
    visible_views,  \* server.visible_views, the top first
    floating, invisible,  \* flags of a view
    operation,      \* view->pending_operation: "none" if not dirty, "resize",
                    \* "reset", "unmaximize", "tile" or what will be maximized
    op_tile,        \* pending_operation.tile, by the sheet of its layout
    tile,           \* view->tile: none, detached, or the sheet of its layout
    layout,         \* sheet->layout: a sequence of tiles, each the pair of its
                    \* view and of what points to it, "tile" or "pending"
    maximized,      \* view->maximized_state: "none", "full", "horizontal", "vertical"
    aborted,        \* "none", or what went wrong
    user            \* who uses it, one of Users

vars == <<current_sheet, view_sheet, sheet_views, visible_views, floating, invisible,
          operation, op_tile, tile, layout, maximized, aborted, user>>

(* What the functions below work on: they are called one after another by  *)
(* one handler.                                                            *)
Now == [current_sheet |-> current_sheet, view_sheet |-> view_sheet,
        sheet_views |-> sheet_views, visible_views |-> visible_views,
        operation |-> operation, op_tile |-> op_tile, tile |-> tile,
        layout |-> layout, maximized |-> maximized, aborted |-> aborted]

Become(t) ==
    LET k == IF t.aborted = "none" THEN t ELSE [Now EXCEPT !.aborted = t.aborted]
    IN  /\ current_sheet' = k.current_sheet /\ view_sheet' = k.view_sheet
        /\ sheet_views' = k.sheet_views /\ visible_views' = k.visible_views
        /\ operation' = k.operation /\ op_tile' = k.op_tile /\ tile' = k.tile
        /\ layout' = k.layout /\ maximized' = k.maximized /\ aborted' = k.aborted
        /\ UNCHANGED user

Fail(t, failure) == IF t.aborted = "none" THEN [t EXCEPT !.aborted = failure] ELSE t

SheetIsVisible(t, s) == s \in {0, t.current_sheet}
IsHidden(t, v) == ~Contains(t.visible_views, v)
IsDirty(t, v) == t.operation[v] # "none"
IsTileable(t, v) == v \notin floating \cup invisible /\ ~IsDirty(t, v)

(* The tileable views of a sheet, the first of them, and those that are     *)
(* ahead of one.                                                           *)
Tileable(t, s) == {v \in ToSet(t.sheet_views[s]) : IsTileable(t, v)}
FirstTileable(t, s) ==
    t.sheet_views[s][SelectInSeq(t.sheet_views[s], LAMBDA v : IsTileable(t, v))]
Ahead(t, s, v) ==
    LET views == t.sheet_views[s]
    IN  {w \in Tileable(t, s) : \E i, j \in DOMAIN views : i < j /\ views[i] = w /\ views[j] = v}

-----------------------------------------------------------------------------
(* The order of the views.                                                 *)

(* A view of which the sheet has changed is moved to its new sheet here,   *)
(* and not before.                                                         *)
MoveToTop(t, v) ==
    [t EXCEPT !.sheet_views = [s \in SheetNr |->
        (IF s = t.view_sheet[v] THEN <<v>> ELSE <<>>) \o RemoveFirst(@[s], v)]]

(* raise_view(), and hikari_view_show() of a hidden view.                  *)
RaiseView(t, v) == [MoveToTop(t, v) EXCEPT !.visible_views = <<v>> \o RemoveFirst(@, v)]

(* hikari_view_raise() does nothing for the topmost visible view, which    *)
(* need not be the top of its sheet.                                       *)
Raise(t, v) ==
    IF IsHidden(t, v) THEN Fail(t, "raise_hidden")
    ELSE IF Head(t.visible_views) = v THEN t
    ELSE RaiseView(t, v)

Hide(t, v) == [t EXCEPT !.visible_views = RemoveFirst(@, v)]

(* From the bottom to the top, so that the order stays.                    *)
ShowViews(t, s, shown) ==
    FoldRight(LAMBDA v, u : IF v \in shown /\ IsHidden(u, v) THEN RaiseView(u, v) ELSE u,
              t.sheet_views[s], t)

Cleared(t) == [t EXCEPT !.visible_views = <<>>]

Displayed(t, s) ==
    LET shown == View \ invisible
        bottom == ShowViews(Cleared([t EXCEPT !.current_sheet = s]), 0, shown)
    IN  IF s = 0 THEN bottom ELSE ShowViews(bottom, s, shown)

RaiseFloating(t, s) ==
    FoldRight(LAMBDA v, u : IF v \in floating /\ ~IsHidden(u, v) THEN Raise(u, v) ELSE u,
              t.sheet_views[s], t)

-----------------------------------------------------------------------------
(* Operations: commit.                                                     *)

(* commit_pending_operation(): the view comes to the top and, if its sheet *)
(* is visible, is shown.                                                   *)
Apply(t, v) ==
    IF IsHidden(t, v) /\ ~SheetIsVisible(t, t.view_sheet[v])
    THEN MoveToTop(t, v) ELSE RaiseView(t, v)

CommitReset(t, v) ==
    IF t.tile[v] \in SheetNr THEN Fail(t, "commit_reset")
    ELSE Apply([t EXCEPT !.tile[v] = NULL, !.maximized[v] = "none"], v)

CommitMaximize(t, v, how) ==
    LET both == how \notin {"full", "none"} /\ t.maximized[v] = "horizontal"
    IN  IF how \notin {"full", "none"} /\ t.maximized[v] = "vertical"
        THEN Fail(t, "commit_maximize")
        ELSE Apply([t EXCEPT !.maximized[v] = IF both THEN "full" ELSE how], v)

(* The pending tile takes the place of the one the view has.  The mutant   *)
(* leaves the old one in its layout.                                       *)
CommitTileTwice(t, v) ==
    IF t.tile[v] = Detached THEN Fail(t, "commit_tile")
    ELSE [t EXCEPT
        !.layout = [s \in SheetNr |->
            IF @[s] = NULL THEN NULL
            ELSE ReplaceAll(@[s], <<v, "pending">>, <<v, "tile">>)],
        !.tile[v] = t.op_tile[v], !.op_tile[v] = NULL, !.maximized[v] = "none"]

CommitTile(t, v) ==
    IF t.tile[v] = Detached THEN Fail(t, "commit_tile")
    ELSE [t EXCEPT
        !.layout = [s \in SheetNr |->
            IF @[s] = NULL THEN NULL
            ELSE ReplaceAll(RemoveFirst(@[s], <<v, "tile">>), <<v, "pending">>, <<v, "tile">>)],
        !.tile[v] = t.op_tile[v], !.op_tile[v] = NULL, !.maximized[v] = "none"]

(* hikari_view_commit_pending_operation().                                 *)
CommitOperation(t, v) ==
    LET o == t.operation[v]
        u == CASE o = "resize"     -> Apply(t, v)
               [] o = "reset"      -> CommitReset(t, v)
               [] o = "unmaximize" -> CommitMaximize(t, v, "none")
               [] o = "tile"       -> CommitTile(t, v)
               [] OTHER            -> CommitMaximize(t, v, o)
    IN  [u EXCEPT !.operation[v] = "none"]

-----------------------------------------------------------------------------
(* Operations: queue.                                                      *)

(* hikari_tile_detach(): the last tile takes the layout with it.           *)
Unlinked(tiles, e) == IF RemoveFirst(tiles, e) = <<>> THEN NULL ELSE RemoveFirst(tiles, e)

CancelTile(t, v) ==
    IF t.operation[v] = "tile"
    THEN [t EXCEPT !.layout[t.op_tile[v]] = Unlinked(@, <<v, "pending">>),
                   !.op_tile[v] = NULL]
    ELSE t

DetachTile(t, v) ==
    IF t.tile[v] \in SheetNr
    THEN [t EXCEPT !.layout[t.tile[v]] = Unlinked(@, <<v, "tile">>),
                   !.tile[v] = Detached]
    ELSE t

(* A view that is neither tiled nor maximized has the size it is reset to. *)
QueueReset(t, v, same) ==
    LET queued == [DetachTile(CancelTile(t, v), v) EXCEPT !.operation[v] = "reset"]
    IN  IF v \in same \/ (t.tile[v] = NULL /\ t.maximized[v] = "none")
        THEN CommitOperation(queued, v) ELSE queued

(* A tile at place i of the layout of the current sheet is pending.        *)
Queued(t, v, i) ==
    [t EXCEPT !.layout[t.current_sheet] = InsertAt(@, i, <<v, "pending">>),
              !.op_tile[v] = t.current_sheet, !.operation[v] = "tile"]

QueueTile(t, v, i, same) ==
    IF v \in same THEN CommitOperation(Queued(t, v, i), v) ELSE Queued(t, v, i)

Tiled(t, v, same) == QueueTile(t, v, Len(t.layout[t.current_sheet]) + 1, same)

TileEach(t, taken, views, same) ==
    FoldLeft(LAMBDA u, v : IF v \in taken THEN Tiled(u, v, same) ELSE u, t, views)

(* A layout of which a view is dirty is left alone.  Otherwise the first   *)
(* tileable views of the sheet get a tile: the first one is shown, the     *)
(* scan for the next ones asserts that they are, and runs off the list if  *)
(* the last view in it belongs to another sheet already.                   *)
LayOut(t, capacity, same) ==
    LET s == t.current_sheet
        first == FirstTileable(t, s)
        AheadOf(v) == Cardinality(Ahead(t, s, v))
        taken == {v \in Tileable(t, s) : AheadOf(v) < capacity}
        laid == [t EXCEPT !.layout[s] = IF @ = NULL THEN <<>> ELSE @]
        shown == IF IsHidden(t, first) THEN RaiseView(laid, first) ELSE laid
    IN  IF Tileable(t, s) = {} THEN RaiseFloating(laid, s)
        ELSE IF t.view_sheet[Last(shown.sheet_views[s])] # s THEN Fail(t, "walk_end")
        ELSE IF \E v \in Tileable(t, s) : AheadOf(v) \in 1 .. capacity /\ IsHidden(t, v)
             THEN Fail(t, "scan_hidden")
        ELSE RaiseFloating(TileEach(shown, taken, t.sheet_views[s], same), s)

ApplySplit(t, capacity, same) ==
    LET s == t.current_sheet
    IN  IF t.layout[s] # NULL /\ \E e \in ToSet(t.layout[s]) : IsDirty(t, e[1])
        THEN t ELSE LayOut(t, capacity, same)

-----------------------------------------------------------------------------
Running == aborted = "none"
Mapped == UNION {ToSet(sheet_views[s]) : s \in SheetNr}
Flags == <<floating, invisible>>

Presses(key) == Running /\ key \in user.keys

(* A key that is meant for the focus view.                                 *)
Focus == ToSet(visible_views)
Pressed(key, v) ==
    /\ Presses(key) /\ v \in Focus
    /\ operation[v] = "none" \/ key \in user.hasty

Init ==
    /\ current_sheet = 1
    /\ view_sheet = [v \in View |-> NULL]
    /\ sheet_views = [s \in SheetNr |-> <<>>]
    /\ visible_views = <<>>
    /\ floating = {} /\ invisible = {}
    /\ operation = [v \in View |-> "none"]
    /\ op_tile = [v \in View |-> NULL] /\ tile = [v \in View |-> NULL]
    /\ layout = [s \in SheetNr |-> NULL]
    /\ maximized = [v \in View |-> "none"]
    /\ aborted = "none" /\ user \in Users

-----------------------------------------------------------------------------
(* The clients.                                                            *)

(* A view keeps its sheet, its flags and its maximization while unmapped.  *)
Map(v) ==
    /\ Running /\ v \notin Mapped
    /\ Cardinality({w \in View : view_sheet[w] # NULL} \cup {v}) <= user.views
    /\ \E s \in IF view_sheet[v] = NULL THEN SheetNr ELSE {view_sheet[v]} :
          Become(RaiseView([Now EXCEPT !.view_sheet[v] = s], v))
    /\ UNCHANGED Flags

(* hikari_view_unmap().  The mutant leaves the tile that is pending.       *)
UnmapUncancelled(v) ==
    /\ Running /\ v \in Mapped
    /\ Become([DetachTile(Hide(Now, v), v) EXCEPT
           !.tile[v] = NULL, !.operation[v] = "none",
           !.sheet_views = [s \in SheetNr |-> RemoveFirst(@[s], v)]])
    /\ UNCHANGED Flags

Unmap(v) ==
    /\ Running /\ v \in Mapped
    /\ Become([DetachTile(CancelTile(Hide(Now, v), v), v) EXCEPT
           !.tile[v] = NULL, !.operation[v] = "none",
           !.sheet_views = [s \in SheetNr |-> RemoveFirst(@[s], v)]])
    /\ UNCHANGED Flags

(* The commit of a client that has answered what is pending; any other     *)
(* commit changes a size at most.                                          *)
Commit(v) ==
    /\ Running /\ operation[v] # "none"
    /\ Become(CommitOperation(Now, v))
    /\ UNCHANGED Flags

-----------------------------------------------------------------------------
(* The user: layouts.                                                      *)

(* The focus view becomes the main view, so it is raised first.            *)
ApplyLayout(focus, capacity, same) ==
    LET main == focus # NULL /\ view_sheet[focus] = current_sheet /\ IsTileable(Now, focus)
        raised == IF main THEN Raise(Now, focus) ELSE Now
    IN  /\ Presses("layout")
        /\ Become(IF main /\ FirstTileable(raised, current_sheet) # focus
                  THEN Fail(Now, "main_view")
                  ELSE ApplySplit(Displayed(raised, current_sheet), capacity, same))
        /\ UNCHANGED Flags

(* From the last tile to the first, so that the sheet comes to be in the   *)
(* order of the layout, with the other views behind it or in front of it.  *)
(* The mutant starts with the first tile.                                  *)
RaiseTile(u, v) == IF IsHidden(u, v) THEN RaiseView(u, v) ELSE Raise(u, v)
RestackTilesForwards(t, s) == FoldLeft(LAMBDA u, e : RaiseTile(u, e[1]), t, t.layout[s])
RestackTiles(t, s) == FoldRight(LAMBDA e, u : RaiseTile(u, e[1]), t.layout[s], t)

RaisePrependable(t, s) ==
    FoldRight(LAMBDA v, u : IF u.tile[v] = NULL /\ IsTileable(u, v) THEN Raise(u, v) ELSE u,
              t.sheet_views[s], t)

(* Without a layout the default one is applied to the sheet as it is.      *)
Restacked(prepend, capacity, same) ==
    LET s == current_sheet
        restacked == RestackTiles(Displayed(Now, s), s)
        ordered == IF prepend THEN RaisePrependable(restacked, s) ELSE restacked
    IN  ApplySplit(IF layout[s] = NULL THEN Now ELSE ordered, capacity, same)

Restack(prepend, capacity, same) ==
    /\ Presses("restack")
    /\ Become(Restacked(prepend, capacity, same))
    /\ UNCHANGED Flags

(* The iteration follows a view to its new sheet when the reset moves it   *)
(* there.                                                                  *)
ResetNext(u, v, s, same) ==
    LET r == QueueReset(u, v, same)
    IN  IF u.tile[v] = NULL THEN u
        ELSE IF u.view_sheet[v] # s /\ ~IsDirty(r, v) THEN Fail(r, "walk_end")
        ELSE r
ResetEach(t, s, same) ==
    FoldLeft(LAMBDA u, v : ResetNext(u, v, s, same), t, t.sheet_views[s])

ResetLayout(same) ==
    /\ Presses("reset_layout") /\ layout[current_sheet] # NULL
    /\ Become(ResetEach(Now, current_sheet, same))
    /\ UNCHANGED Flags

ResetView(v, same) ==
    /\ Pressed("reset", v)
    /\ Become(QueueReset(Now, v, same))
    /\ UNCHANGED Flags

(* The first view of some tiles that is visible.                           *)
FirstShown(tiles) ==
    LET i == SelectInSeq(tiles, LAMBDA e : ~IsHidden(Now, e[1]))
    IN  IF i = 0 THEN NULL ELSE tiles[i][1]

(* hikari_tile_next_view() and hikari_tile_prev_view(): the visible views  *)
(* of the tiles after and before a view's.  The list is walked round if it *)
(* is the layout of the current sheet; the head of another is no tile.     *)
Walk(v, next) ==
    LET s == tile[v]
        tiles == IF next THEN layout[s] ELSE Reverse(layout[s])
        i == SelectInSeq(tiles, LAMBDA e : e = <<v, "tile">>)
        round == IF s = current_sheet THEN SubSeq(tiles, 1, i) ELSE <<>>
    IN  FirstShown(SubSeq(tiles, i + 1, Len(tiles)) \o round)

WalkFailure(v, next) ==
    IF tile[v] = Detached THEN "walk_detached"
    ELSE IF Walk(v, next) = NULL THEN "walk_end" ELSE "none"

CycleLayoutView(v, next) ==
    /\ Presses("cycle") /\ v \in Focus
    /\ layout[current_sheet] # NULL /\ tile[v] # NULL /\ view_sheet[v] = current_sheet
    /\ Become(Fail(Now, WalkFailure(v, next)))
    /\ UNCHANGED Flags

(* hikari_view_exchange(): each gets a tile behind the other's.  The new   *)
(* tiles of views of another sheet (0) are put into that sheet's layout    *)
(* but say that they are of the current one's: the model stops there.      *)
(* The mutant puts each behind its own.                                    *)
Swap(t, from, to, same, behind) ==
    LET At(u, v) == SelectInSeq(u.layout[u.current_sheet], LAMBDA e : e = <<v, "tile">>) + 1
        linked1 == Queued(t, to, At(t, IF behind THEN from ELSE to))
        linked2 == Queued(linked1, from, At(linked1, IF behind THEN to ELSE from))
        first == IF from \in same THEN CommitOperation(linked2, from) ELSE linked2
    IN  IF to \in same THEN CommitOperation(first, to) ELSE first

ExchangedInPlace(t, from, to, same) ==
    IF IsDirty(t, from) \/ IsDirty(t, to) \/ from = to THEN t
    ELSE IF t.tile[from] = Detached THEN Fail(t, "walk_detached")
    ELSE IF t.view_sheet[from] # t.view_sheet[to] THEN Fail(t, "exchange_sheets")
    ELSE IF t.tile[from] # t.current_sheet THEN Fail(t, "foreign_layout")
    ELSE Swap(t, from, to, same, FALSE)

Exchanged(t, from, to, same) ==
    IF IsDirty(t, from) \/ IsDirty(t, to) \/ from = to THEN t
    ELSE IF t.tile[from] = Detached THEN Fail(t, "walk_detached")
    ELSE IF t.view_sheet[from] # t.view_sheet[to] THEN Fail(t, "exchange_sheets")
    ELSE IF t.tile[from] # t.current_sheet THEN Fail(t, "foreign_layout")
    ELSE Swap(t, from, to, same, TRUE)

Exchange(v, next, same) ==
    /\ Presses("exchange") /\ v \in Focus /\ layout[current_sheet] # NULL /\ tile[v] # NULL
    /\ Become(IF WalkFailure(v, next) # "none" THEN Fail(Now, WalkFailure(v, next))
              ELSE Exchanged(Now, v, Walk(v, next), same))
    /\ UNCHANGED Flags

ExchangeMain(v, same) ==
    LET main == FirstShown(layout[current_sheet])
    IN  /\ Presses("main") /\ v \in Focus /\ layout[current_sheet] # NULL
        /\ tile[v] # NULL /\ operation[v] = "none"
        /\ Become(IF main = NULL THEN Fail(Now, "no_first") ELSE Exchanged(Now, v, main, same))
        /\ UNCHANGED Flags

-----------------------------------------------------------------------------
(* The user: one view.                                                     *)

(* The types of operations that a key queues and that no size can make     *)
(* unnecessary.                                                            *)
Queue(v, o) ==
    /\ Become(IF operation[v] = "tile" THEN Fail(Now, "tile_lost")
              ELSE [Now EXCEPT !.operation[v] = o])
    /\ UNCHANGED Flags

Resize(v) ==
    /\ Presses("resize") /\ v \in Focus /\ operation[v] = "none" /\ maximized[v] # "full"
    /\ Queue(v, "resize")

(* The mutant does not ask whether an operation is pending.                *)
ToggleFullMaximizeDirty(v) ==
    /\ Presses("full") /\ v \in Focus
    /\ Queue(v, IF maximized[v] = "full" THEN "unmaximize" ELSE "full")

ToggleFullMaximize(v) ==
    /\ Presses("full") /\ v \in Focus /\ operation[v] = "none"
    /\ Queue(v, IF maximized[v] = "full" THEN "unmaximize" ELSE "full")

ToggleVerticalMaximize(v) ==
    /\ Presses("vertical") /\ v \in Focus /\ operation[v] = "none"
    /\ Queue(v, CASE maximized[v] = "none"       -> "vertical"
                  [] maximized[v] = "full"       -> "horizontal"
                  [] maximized[v] = "vertical"   -> "unmaximize"
                  [] maximized[v] = "horizontal" -> "full")

(* The one that does not ask whether an operation is pending.              *)
ToggleHorizontalMaximize(v) ==
    /\ Pressed("horizontal", v)
    /\ Queue(v, CASE maximized[v] = "none"       -> "horizontal"
                  [] maximized[v] = "full"       -> "vertical"
                  [] maximized[v] = "vertical"   -> "full"
                  [] maximized[v] = "horizontal" -> "unmaximize")

(* A tiled view leaves its layout when it becomes floating or invisible;   *)
(* by the mutant it stays there.                                           *)
ToggleFloatingTiled(v, same) ==
    /\ Pressed("float", v)
    /\ floating' = IF v \in floating THEN floating \ {v} ELSE floating \cup {v}
    /\ Become(Now) /\ UNCHANGED invisible

ToggleFloating(v, same) ==
    /\ Pressed("float", v)
    /\ Become(IF v \notin floating /\ tile[v] # NULL THEN QueueReset(Now, v, same) ELSE Now)
    /\ floating' = IF aborted' # "none" THEN floating
                   ELSE IF v \in floating THEN floating \ {v} ELSE floating \cup {v}
    /\ UNCHANGED invisible

ToggleInvisible(v, same) ==
    /\ Pressed("invisible", v)
    /\ Become(IF v \notin invisible /\ tile[v] # NULL THEN QueueReset(Now, v, same) ELSE Now)
    /\ invisible' = IF aborted' # "none" THEN invisible
                    ELSE IF v \in invisible THEN invisible \ {v} ELSE invisible \cup {v}
    /\ UNCHANGED floating

(* hikari_view_pin_to_sheet().  A tiled view is moved to the new sheet     *)
(* when its reset is applied, the others at once.                          *)
Pinned(v, s) ==
    [(IF SheetIsVisible(Now, s) THEN [Now EXCEPT !.visible_views = <<v>> \o RemoveFirst(@, v)]
      ELSE Hide(Now, v)) EXCEPT !.view_sheet[v] = s]

PinToSheet(v, s, same) ==
    /\ Pressed("pin", v)
    /\ Become(IF view_sheet[v] # s
              THEN IF tile[v] # NULL THEN QueueReset(Pinned(v, s), v, same)
                   ELSE MoveToTop(Pinned(v, s), v)
              ELSE IF SheetIsVisible(Now, s) THEN Raise(Now, v)
                   ELSE MoveToTop(Hide(Now, v), v))
    /\ UNCHANGED Flags

RaiseFocus(v) == Presses("raise") /\ v \in Focus /\ Become(Raise(Now, v)) /\ UNCHANGED Flags

LowerFocus(v) ==
    /\ Presses("lower") /\ v \in Focus /\ v # Last(visible_views)
    /\ Become([Now EXCEPT
           !.visible_views = Append(RemoveFirst(@, v), v),
           !.sheet_views = [s \in SheetNr |->
               RemoveFirst(@[s], v) \o (IF s = view_sheet[v] THEN <<v>> ELSE <<>>)]])
    /\ UNCHANGED Flags

HideFocus(v) == Presses("hide") /\ v \in Focus /\ Become(Hide(Now, v)) /\ UNCHANGED Flags

SwitchSheet(s) == Presses("sheet") /\ Become(Displayed(Now, s)) /\ UNCHANGED Flags

(* hikari_workspace_show_all_sheet_views(), and the invisible ones only.   *)
ShowSheetViews(shown) ==
    /\ Presses("show")
    /\ Become(ShowViews(Cleared(Now), current_sheet, shown))
    /\ UNCHANGED Flags

-----------------------------------------------------------------------------
ClientNext == \E v \in View : Map(v) \/ Unmap(v) \/ Commit(v)

LayoutNext(same) ==
    \/ \E focus \in Focus \cup {NULL}, capacity \in user.splits : ApplyLayout(focus, capacity, same)
    \/ \E prepend \in BOOLEAN, capacity \in user.splits : Restack(prepend, capacity, same)
    \/ ResetLayout(same)
    \/ \E v \in View :
        \/ ResetView(v, same)
        \/ \E next \in BOOLEAN : CycleLayoutView(v, next) \/ Exchange(v, next, same)
        \/ ExchangeMain(v, same)

ViewNext(same) ==
    \/ \E v \in View :
        \/ Resize(v) \/ ToggleFullMaximize(v) \/ ToggleVerticalMaximize(v)
        \/ ToggleHorizontalMaximize(v)
        \/ ToggleFloating(v, same) \/ ToggleInvisible(v, same)
        \/ \E s \in SheetNr : PinToSheet(v, s, same)
        \/ RaiseFocus(v) \/ LowerFocus(v) \/ HideFocus(v)
    \/ \E s \in SheetNr : SwitchSheet(s)
    \/ \E shown \in {View, invisible} : ShowSheetViews(shown)

Next == ClientNext \/ \E same \in SUBSET Mapped : LayoutNext(same) \/ ViewNext(same)

Spec == Init /\ [][Next]_vars

-----------------------------------------------------------------------------
(* Properties.                                                             *)

Tiles(s) == IF layout[s] = NULL THEN <<>> ELSE layout[s]

(* The tiles in a layout are the ones that mapped views and their pending  *)
(* operations point to, each once: a layout never has a tile of a view     *)
(* that is gone.                                                           *)
TilesAreLinked ==
    \A s \in SheetNr :
        /\ IsInjective(Tiles(s))
        /\ ToSet(Tiles(s)) = {<<v, "tile">> : v \in {u \in Mapped : tile[u] = s}}
                         \cup {<<v, "pending">> : v \in {u \in Mapped : op_tile[u] = s}}

(* A view has a tile out of any layout only while its reset is pending,    *)
(* and a pending tile only while the operation that brings it is.          *)
TilesFollowOperations ==
    \A v \in View :
        /\ tile[v] = Detached => operation[v] = "reset"
        /\ op_tile[v] # NULL <=> operation[v] = "tile"

(* No assertion of a commit, of a reset or of a raise fails.               *)
OperationsApply ==
    aborted \notin {"commit_tile", "commit_reset", "commit_maximize", "raise_hidden"}

(* The user waits for the client's answer before making a view floating,   *)
(* invisible, or a view of another sheet.                                  *)
Waits == {"float", "invisible", "pin"} \cap user.hasty = {}

(* A tiled view is neither floating nor invisible, as hikari(1) says, if   *)
(* the user waits for the client's answer before changing that.            *)
TiledViewsAreNormal ==
    Waits => \A v \in View : tile[v] \in SheetNr => v \notin floating \cup invisible

(* The tiles of the current sheet, the one of them that a view will have    *)
(* once what is pending is applied, and whose comes first by then.         *)
CurrentTiles(t) == IF t.layout[current_sheet] = NULL THEN <<>> ELSE t.layout[current_sheet]
NextTile(t, v) ==
    IF Contains(CurrentTiles(t), <<v, "pending">>) THEN <<v, "pending">> ELSE <<v, "tile">>
Precedes(t, v, w) ==
    \E i, j \in DOMAIN CurrentTiles(t) :
        i <= j /\ CurrentTiles(t)[i] = NextTile(t, v) /\ CurrentTiles(t)[j] = NextTile(t, w)

Swapped(v, w, x) == IF x = v THEN w ELSE IF x = w THEN v ELSE x

(* Exchanging two tiled views swaps their places in the layout, whichever  *)
(* client answers first or has answered already, and leaves the others'    *)
(* alone (hikari_view_exchange).                                           *)
ExchangeSwaps ==
    Running => \A v, w \in Focus : \A same \in SUBSET {v, w} :
        LET t == Exchanged(Now, v, w, same)
        IN  /\ operation[v] = "none" /\ operation[w] = "none" /\ v # w
            /\ tile[v] = current_sheet /\ tile[w] = current_sheet /\ t.aborted = "none"
            => \A x, y \in View :
                 Precedes(t, Swapped(v, w, x), Swapped(v, w, y)) <=> Precedes(Now, x, y)

(* A layout that is applied again to all of its views keeps their order,   *)
(* even if the user has raised and lowered them meanwhile, unless a view   *)
(* was made floating or moved while its tile was pending (the restack of   *)
(* server.c:1470).                                                         *)
RestackKeepsOrder ==
    Running /\ Waits /\ layout[current_sheet] # NULL =>
        \A prepend \in BOOLEAN, capacity \in user.splits, same \in SUBSET Mapped :
            LET t == Restacked(prepend, capacity, same)
            IN  Cardinality(Tileable(Now, current_sheet)) <= capacity /\ t.aborted = "none" =>
                \A x, y \in View : Precedes(Now, x, y) => Precedes(t, x, y)
=============================================================================
