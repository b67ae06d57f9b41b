------------------------------- MODULE Stacking -------------------------------
(***************************************************************************)
(* The order of views and of groups: the lists that view.c, group.c,       *)
(* sheet.c and workspace.c keep of them, what raises, lowers, shows and    *)
(* hides them, cycling (server.c), and the mode that assigns a group       *)
(* (group_assign_mode.c).                                                  *)
(*                                                                         *)
(* A view is linked in up to six lists, its first element on top.  Each    *)
(* operation moves it in every one of them by hand.  The list of visible   *)
(* groups is modelled by its links, as it is initialized while groups are  *)
(* linked in it.  A handler runs to its end: the operations map a state    *)
(* of the server (the record S) to the next.  The lock screen, tiles and   *)
(* geometry are those of Desktop and Tiling; one output always stays.      *)
(***************************************************************************)
EXTENDS Integers, FiniteSets, SequencesExt

CONSTANTS
  View, Group, Output,
  Sheet,       \* the sheets of a workspace that are used (0 to 9 in the code)
  Root,        \* hikari_server.visible_groups
  NULL, Freed

ASSUME SheetsAreUsed == {0, 1} \subseteq Sheet /\ Sheet \subseteq 0 .. 9

ASSUME NamesAssumption ==
  /\ Root \notin Group /\ Freed \notin Group
  /\ NULL \notin View \cup Group \cup {Root, Freed} \cup Output \X Sheet
  /\ IsFiniteSet(Output) /\ IsFiniteSet(Group)

VARIABLES
  outputs,              \* hikari_server.outputs
  current,              \* workspace->sheet of each output
  sheet_of, group_of,   \* view->sheet, a pair, and view->group, while mapped
  hidden,               \* the flag of a view
  stale,                \* tiled views that were pinned and wait for their client:
                        \* of all views, their lists have them where they were
  sheet_views, output_views, group_views,                 \* of all views
  visible_views, workspace_views, visible_group_views,    \* of those visible
  next, prev,           \* the links of hikari_server.visible_groups
  focus,                \* hikari_server.workspace->focus_view
  cycling, mode,        \* of the server
  typed,                \* hikari_server.group_assign_mode.group
  cut,                  \* history: the list of visible groups was cut off
  fault                 \* how the server crashed

vars == <<outputs, current, sheet_of, group_of, hidden, stale, sheet_views,
          output_views, group_views, visible_views, workspace_views, visible_group_views,
          next, prev, focus, cycling, mode, typed, cut, fault>>

S == [sheet_of |-> sheet_of, group_of |-> group_of, hidden |-> hidden,
      stale |-> stale, sheet_views |-> sheet_views, output_views |-> output_views,
      group_views |-> group_views, visible_views |-> visible_views,
      workspace_views |-> workspace_views, visible_group_views |-> visible_group_views,
      next |-> next, prev |-> prev, current |-> current, focus |-> focus,
      cycling |-> cycling, mode |-> mode, typed |-> typed, cut |-> cut,
      fault |-> fault]

Become(s) ==
  /\ sheet_of' = s.sheet_of /\ group_of' = s.group_of /\ hidden' = s.hidden
  /\ stale' = s.stale
  /\ sheet_views' = s.sheet_views /\ output_views' = s.output_views
  /\ group_views' = s.group_views /\ visible_views' = s.visible_views
  /\ workspace_views' = s.workspace_views /\ visible_group_views' = s.visible_group_views
  /\ next' = s.next /\ prev' = s.prev /\ current' = s.current /\ focus' = s.focus
  /\ cycling' = s.cycling /\ mode' = s.mode /\ typed' = s.typed /\ fault' = s.fault
  /\ cut' = (s.cut /\ \E g \in Group : s.next[g] # NULL)

Runs(s) == s.fault = "none"
Crash(s, how) == IF Runs(s) THEN [s EXCEPT !.fault = how] ELSE s

Mapped(s) == {v \in View : s.group_of[v] # NULL}
OutputOf(s, v) == s.sheet_of[v][1]
SheetIsVisible(s, sheet) == sheet[2] \in {0, s.current[sheet[1]]}

(* An operation on each element of a list, until the server crashes.       *)
Each(Op(_, _), s, list) ==
  FoldLeft(LAMBDA t, v : IF Runs(t) THEN Op(t, v) ELSE t, s, list)

--------------------------------------------------------------------------------
(* Lists of views.  wl_list_remove takes a view out of the list that it is *)
(* in, of those of one kind; wl_list_insert puts it where it belongs now.  *)

Out(lists, v) == [i \in DOMAIN lists |-> RemoveFirst(lists[i], v)]
AtHead(lists, at, v) == [Out(lists, v) EXCEPT ![at] = <<v>> \o @]
AtTail(lists, at, v) == [Out(lists, v) EXCEPT ![at] = Append(@, v)]

(* The part of a list above or below one of its views.                     *)
Above(list, v) == SubSeq(list, 1, SelectInSeq(list, LAMBDA w : w = v) - 1)
Below(list, v) == SubSeq(list, SelectInSeq(list, LAMBDA w : w = v) + 1, Len(list))

(* The list of visible groups.                                             *)
Unlink(s, g) ==
  IF s.next[g] = NULL THEN Crash(s, "null")
  ELSE [s EXCEPT !.next[s.prev[g]] = s.next[g], !.prev[s.next[g]] = s.prev[g],
                 !.next[g] = NULL, !.prev[g] = NULL]

LinkAfter(s, at, g) ==
  [s EXCEPT !.prev[g] = at, !.next[g] = s.next[at],
            !.next[at] = g, !.prev[s.next[at]] = g]

--------------------------------------------------------------------------------
(* view.c                                                                  *)

MoveToTopOfSheet(s, v) ==
  [s EXCEPT !.sheet_views = AtHead(@, s.sheet_of[v], v),
            !.group_views = AtHead(@, s.group_of[v], v),
            !.stale       = @ \ {v}]

MoveToTop(s, v) ==
  [s EXCEPT !.sheet_views  = AtHead(@, s.sheet_of[v], v),
            !.group_views  = AtHead(@, s.group_of[v], v),
            !.output_views = AtHead(@, OutputOf(s, v), v),
            !.stale        = @ \ {v}]

PlaceVisiblyAbove(s, v, o) ==
  LET g == s.group_of[v]
  IN  IF v \in s.hidden THEN Crash(s, "assert")
      ELSE [LinkAfter(Unlink(s, g), Root, g) EXCEPT
              !.visible_views       = <<v>> \o RemoveFirst(@, v),
              !.visible_group_views = AtHead(@, g, v),
              !.workspace_views     = AtHead(@, o, v)]

RaiseView(s, v) == PlaceVisiblyAbove(MoveToTop(s, v), v, OutputOf(s, v))

Raise(s, v) ==
  IF v \in s.hidden THEN Crash(s, "assert")
  ELSE IF s.visible_views[1] = v THEN s
  ELSE RaiseView(s, v)

Lower(s, v) ==
  IF v \in s.hidden THEN Crash(s, "assert")
  ELSE IF Last(s.visible_views) = v THEN s
  ELSE LET g == s.group_of[v]
           t == Unlink(s, g)
       IN  [LinkAfter(t, t.prev[Root], g) EXCEPT
              !.sheet_views         = AtTail(@, s.sheet_of[v], v),
              !.group_views         = AtTail(@, g, v),
              !.output_views        = AtTail(@, OutputOf(s, v), v),
              !.stale               = @ \ {v},
              !.visible_views       = Append(RemoveFirst(@, v), v),
              !.visible_group_views = AtTail(@, g, v),
              !.workspace_views     = AtTail(@, OutputOf(s, v), v)]

IncreaseGroupVisibility(s, v) ==
  LET g == s.group_of[v]
  IN  IF s.visible_group_views[g] = <<>> THEN LinkAfter(s, Root, g) ELSE s

DecreaseGroupVisibilityKeeps(s, v) == [s EXCEPT !.visible_group_views = Out(@, v)]

DecreaseGroupVisibility(s, v) ==
  LET t == [s EXCEPT !.visible_group_views = Out(@, v)]
  IN  IF t.visible_group_views[s.group_of[v]] = <<>> THEN Unlink(t, s.group_of[v]) ELSE t

HideInLists(s, v) ==
  [DecreaseGroupVisibility(s, v) EXCEPT
     !.workspace_views = Out(@, v), !.visible_views = RemoveFirst(@, v), !.hidden = @ \cup {v}]

(* The dialogue ends: it damages the borders of the group that was typed.  *)
EnterNormal(s) ==
  IF s.typed = Freed THEN Crash(s, "freed")
  ELSE [s EXCEPT !.mode = "normal", !.typed = NULL]

ClearFocus(s, v) == IF s.focus = v THEN [EnterNormal(s) EXCEPT !.focus = NULL] ELSE s

Hide(s, v) ==
  IF v \in s.hidden THEN Crash(s, "assert") ELSE HideInLists(ClearFocus(s, v), v)

Show(s, v) ==
  IF v \notin s.hidden THEN Crash(s, "assert")
  ELSE RaiseView(IncreaseGroupVisibility([s EXCEPT !.hidden = @ \ {v}], v), v)

(* A group that loses its last view is freed, whoever still points to it.  *)
DetachFromGroup(s, v) ==
  LET g == s.group_of[v]
      t == [s EXCEPT !.group_views = Out(@, v)]
  IN  IF t.group_views[g] = <<>> /\ s.typed = g THEN [t EXCEPT !.typed = Freed] ELSE t

SetGroup(s, v, g) ==
  IF s.group_of[v] = g THEN s
  ELSE IF v \in s.hidden THEN Crash(s, "assert")
  ELSE LET t == [DetachFromGroup(DecreaseGroupVisibility(s, v), v) EXCEPT !.group_of[v] = g]
       IN  RaiseView(IncreaseGroupVisibility(t, v), v)

Evacuate(s, v, sheet) ==
  LET t == [ClearFocus(s, v) EXCEPT !.sheet_of[v] = sheet]
  IN  IF v \in s.hidden THEN MoveToTop(t, v)
      ELSE IF SheetIsVisible(s, sheet) THEN RaiseView(t, v)
      ELSE Hide(RaiseView(t, v), v)

--------------------------------------------------------------------------------
(* group.c, sheet.c, workspace.c                                           *)

GroupRaiseOnce(s, top) ==
  LET t == Raise(s, top)
  IN  Each(Raise, t, Reverse(Below(t.visible_group_views[t.group_of[top]], top)))

GroupRaise(s, top) ==
  LET t == Raise(s, top)
  IN  Each(Raise, t, Reverse(Below(t.visible_group_views[t.group_of[top]], top)) \o <<top>>)

GroupLower(s, top) ==
  LET t == Lower(s, top)
  IN  Each(Lower, t, Above(t.visible_group_views[t.group_of[top]], top))

ShowIfChosen(chosen, s, v) == IF v \in chosen THEN Show(s, v) ELSE s

ShowViewsDown(s, list, chosen) ==
  Each(LAMBDA t, v : ShowIfChosen(chosen, t, v), s, list)

(* SHOW_VIEWS and hikari_group_show: from the bottom up, until a view is   *)
(* met that is visible.                                                    *)
ShowViews(s, list, chosen) ==
  LET up      == Reverse(list)
      visible == {i \in DOMAIN up : up[i] \in chosen \ s.hidden}
  IN  Each(LAMBDA t, v : ShowIfChosen(chosen, t, v), s,
           IF visible = {} THEN up ELSE SubSeq(up, 1, Min(visible) - 1))

Clear(s, o) == Each(Hide, s, Reverse(s.workspace_views[o]))

(* Hiding views leaves them in the lists of all views, and in their order. *)
ShowOnWorkspace(s, o, list, chosen) == ShowViews(Clear(s, o), list, chosen)

ShowOnlyGroup(s, g) ==
  ShowViews(Each(Clear, s, SetToSeq(outputs)), s.group_views[g], View)

Display(s, o, n, invisible) ==
  LET t == [Clear(s, o) EXCEPT !.current[o] = n]
      u == ShowViews(t, t.sheet_views[<<o, 0>>], View \ invisible)
  IN  IF n = 0 THEN u ELSE ShowViews(u, u.sheet_views[<<o, n>>], View \ invisible)

EvacuateSheet(s, o, into, n) ==
  IF n \notin Sheet THEN s
  ELSE Each(LAMBDA t, v : Evacuate(t, v, <<into, n>>), s, Reverse(s.sheet_views[<<o, n>>]))

Merge(s, o, into) ==
  FoldLeft(LAMBDA t, n : EvacuateSheet(t, o, into, n), s, [i \in 1 .. 10 |-> i - 1])

--------------------------------------------------------------------------------
(* Cycling (server.c, workspace.c): up is towards the top of the stack, and *)
(* a list wraps around at its ends.                                        *)

Neighbour(list, v, up) ==
  LET i == SelectInSeq(list, LAMBDA w : w = v)
  IN  IF up THEN IF i = 1 THEN Last(list) ELSE list[i - 1]
      ELSE IF i = Len(list) THEN list[1] ELSE list[i + 1]

Link(s, up) == IF up THEN s.prev ELSE s.next

(* The group that cycling comes to: the head of the list, which is no      *)
(* group, if its link leads to itself.                                     *)
CycledGroup(s, up) ==
  LET link == Link(s, up)
      near == IF s.focus = NULL THEN Root ELSE link[s.group_of[s.focus]]
  IN  IF near = Root THEN link[Root] ELSE near

CycleToGroup(s, up) ==
  LET g == CycledGroup(s, up)
  IN  IF s.next[Root] = Root THEN s
      ELSE IF g = Root \/ g = NULL THEN Crash(s, "garbage")
      ELSE IF s.focus # NULL /\ s.group_of[s.focus] = g THEN s
      ELSE IF s.visible_group_views[g] = <<>> THEN Crash(s, "garbage")
      ELSE [s EXCEPT !.focus = s.visible_group_views[g][1]]

--------------------------------------------------------------------------------
(* Actions                                                                 *)

Init ==
  /\ outputs \in SUBSET Output \ {{}} /\ current = [o \in Output |-> 1]
  /\ sheet_of = [v \in View |-> NULL] /\ group_of = [v \in View |-> NULL]
  /\ hidden = View /\ stale = {}
  /\ sheet_views = [s \in Output \X Sheet |-> <<>>]
  /\ output_views = [o \in Output |-> <<>>] /\ workspace_views = [o \in Output |-> <<>>]
  /\ group_views = [g \in Group |-> <<>>] /\ visible_group_views = [g \in Group |-> <<>>]
  /\ visible_views = <<>>
  /\ next = [g \in Group \cup {Root} |-> IF g = Root THEN Root ELSE NULL] /\ prev = next
  /\ focus = NULL /\ cycling = FALSE /\ mode = "normal" /\ typed = NULL
  /\ cut = FALSE /\ fault = "none"

(* hikari_server_cursor_focus, in normal mode: the focus goes to the view  *)
(* that lies under the pointer; on another output that shows none of the   *)
(* views in the list of its current sheet it goes to no view.              *)
Refocused(s) ==
  LET bare == {o \in outputs : Range(s.sheet_views[<<o, s.current[o]>>]) \subseteq s.hidden}
  IN  IF ~Runs(s) \/ s.mode # "normal" THEN {s}
      ELSE {s} \cup {[s EXCEPT !.focus = v] : v \in Mapped(s) \ s.hidden}
               \cup {[s EXCEPT !.focus = NULL] :
                       o \in {p \in bare : s.focus # NULL => p # OutputOf(s, s.focus)}}

BecomeFocused(s) == \E t \in Refocused(s) : Become(t)

(* A client has done what an operation asked of it, and that is applied.   *)
Committed(s, v) ==
  IF v \notin s.hidden THEN Refocused(RaiseView(s, v))
  ELSE IF SheetIsVisible(s, s.sheet_of[v]) THEN Refocused(Show(s, v))
  ELSE {MoveToTop(s, v)}

(* The end of pinning: a view that is not tiled is moved in the lists of   *)
(* all views.  One that is tiled is reset, which leaves it in them where   *)
(* it was, and is applied at once or when the client has answered.         *)
Settled(s, v) ==
  LET left == [s EXCEPT !.stale = @ \cup {v}]
  IN  {MoveToTop(s, v), left} \cup Committed(left, v)

Running == fault = "none"
Normal == Running /\ mode = "normal"
Focused == Normal /\ focus # NULL
Workspaces == IF focus = NULL THEN outputs ELSE {OutputOf(S, focus)}

(* Clients                                                                 *)

Map(v, o, n, g) ==
  /\ Running /\ group_of[v] = NULL /\ o \in outputs
  /\ LET t == [S EXCEPT !.sheet_of[v] = <<o, n>>, !.group_of[v] = g]
     IN  BecomeFocused(Show(MoveToTop(t, v), v))
  /\ UNCHANGED outputs

Unmap(v) ==
  /\ Running /\ group_of[v] # NULL
  /\ \E t \in IF v \in hidden THEN {S} ELSE Refocused(Hide(S, v)) :
       Become([DetachFromGroup(t, v) EXCEPT
                 !.sheet_views = Out(@, v), !.output_views = Out(@, v),
                 !.stale = @ \ {v}, !.sheet_of[v] = NULL, !.group_of[v] = NULL])
  /\ UNCHANGED outputs

(* A client commits what a pending operation asked of it (Tiling).         *)
Commit(v) ==
  /\ Running /\ group_of[v] # NULL
  /\ \E t \in Committed(S, v) : Become(t)
  /\ UNCHANGED outputs

(* Requests of a task bar                                                  *)
Minimize(v) ==
  /\ Running /\ group_of[v] # NULL /\ v \notin hidden
  /\ Become(Hide(S, v))
  /\ UNCHANGED outputs

(* The pointer moves, or a task bar activates a view.                      *)
MoveFocus == Normal /\ BecomeFocused(S) /\ UNCHANGED outputs

(* Keys, about the view that has the focus                                 *)

RaiseFocus == Focused /\ Become(Raise(S, focus)) /\ UNCHANGED outputs
LowerFocus ==
  Focused /\ BecomeFocused(Lower([S EXCEPT !.cycling = FALSE], focus)) /\ UNCHANGED outputs

RaiseGroup == Focused /\ Become(GroupRaise(S, focus)) /\ UNCHANGED outputs
LowerGroup == Focused /\ BecomeFocused(GroupLower(S, focus)) /\ UNCHANGED outputs

HideView == Focused /\ BecomeFocused(Hide(S, focus)) /\ UNCHANGED outputs
HideGroup ==
  /\ Focused /\ BecomeFocused(Each(Hide, S, visible_group_views[group_of[focus]]))
  /\ UNCHANGED outputs

OnlyView ==
  /\ Focused
  /\ BecomeFocused(Each(Hide, S, RemoveFirst(workspace_views[OutputOf(S, focus)], focus)))
  /\ UNCHANGED outputs

OnlyGroup ==
  /\ Focused
  /\ BecomeFocused(ShowOnlyGroup(S, group_of[focus]))
  /\ UNCHANGED outputs

PinToSheet(n) ==
  /\ Focused
  /\ LET v     == focus
         sheet == <<OutputOf(S, v), n>>
         moved == [S EXCEPT !.sheet_of[v] = sheet]
     IN  IF sheet_of[v] = sheet THEN
           IF SheetIsVisible(S, sheet) THEN Become(Raise(S, v))
           ELSE \E t \in Refocused(Hide(S, v)) : Become(MoveToTop(t, v))
         ELSE IF SheetIsVisible(S, sheet)
           THEN \E t \in Settled(PlaceVisiblyAbove(moved, v, sheet[1]), v) : Become(t)
           ELSE \E t \in Refocused(Hide(S, v)) :
                \E u \in Settled([t EXCEPT !.sheet_of[v] = sheet], v) : Become(u)
  /\ UNCHANGED outputs

Migrate(o) ==
  /\ Focused /\ o \in outputs \ {OutputOf(S, focus)}
  /\ LET t == [HideInLists(S, focus) EXCEPT !.sheet_of[focus] = <<o, current[o]>>]
     IN  Become(Show(MoveToTop(t, focus), focus))
  /\ UNCHANGED outputs

(* Keys, about the workspace.  invisible is the views that have the flag.  *)

ClearWorkspace ==
  \E o \in Workspaces : Normal /\ BecomeFocused(Clear(S, o)) /\ UNCHANGED outputs

DisplaySheet(o, n, invisible) ==
  /\ Normal /\ o \in Workspaces
  /\ BecomeFocused(Display(S, o, n, invisible))
  /\ UNCHANGED outputs

ShowAll(o, chosen) ==
  /\ Normal /\ o \in Workspaces
  /\ BecomeFocused(ShowOnWorkspace(S, o, output_views[o], chosen))
  /\ UNCHANGED outputs

ShowSheet(o, chosen) ==
  /\ Normal /\ o \in Workspaces
  /\ BecomeFocused(ShowOnWorkspace(S, o, sheet_views[<<o, current[o]>>], chosen))
  /\ UNCHANGED outputs

OfGroup(g) == {v \in View : group_of[v] = g}

ShowGroup ==
  /\ Focused
  /\ LET o == OutputOf(S, focus)
     IN  BecomeFocused(ShowOnWorkspace(S, o, output_views[o], OfGroup(group_of[focus])))
  /\ UNCHANGED outputs

ShowGroupOfSheet ==
  /\ Focused
  /\ LET o == OutputOf(S, focus)
         t == Raise(S, focus)
     IN  BecomeFocused(ShowOnWorkspace(t, o, t.sheet_views[<<o, current[o]>>],
                                       OfGroup(group_of[focus])))
  /\ UNCHANGED outputs

(* Cycling: the view is raised when the modifiers are released.            *)

CycleView(up) ==
  /\ Normal
  /\ LET v == IF visible_views = <<>> THEN NULL
              ELSE IF focus # NULL THEN Neighbour(visible_views, focus, up)
              ELSE IF up THEN Last(visible_views) ELSE visible_views[1]
     IN  Become([S EXCEPT !.cycling = TRUE, !.focus = IF v = NULL THEN focus ELSE v])
  /\ UNCHANGED outputs

CycleGroupView ==
  /\ Focused
  /\ LET list == visible_group_views[group_of[focus]]
     IN  \E v \in {list[1], Last(list)} \cup {Neighbour(list, focus, up) : up \in BOOLEAN} :
           Become([S EXCEPT !.cycling = TRUE, !.focus = v])
  /\ UNCHANGED outputs

CycleGroup(up) ==
  /\ Normal /\ Become(CycleToGroup([S EXCEPT !.cycling = TRUE], up))
  /\ UNCHANGED outputs

(* Moving, resizing and snapping count as cycling, too.                    *)
MoveOrResize == Focused /\ Become([S EXCEPT !.cycling = TRUE]) /\ UNCHANGED outputs

ReleaseModifiers ==
  /\ Normal
  /\ IF cycling /\ focus # NULL
       THEN BecomeFocused([Raise(S, focus) EXCEPT !.cycling = FALSE])
       ELSE Become([S EXCEPT !.cycling = FALSE])
  /\ UNCHANGED outputs

(* The dialogue that assigns a group: typed is the group that has the name *)
(* that the user typed, if there is one.                                   *)

Dialogue == Running /\ mode = "group"

EnterGroupAssign ==
  Focused /\ Become([S EXCEPT !.mode = "group", !.typed = group_of[focus]]) /\ UNCHANGED outputs

TypeName(g) ==
  /\ Dialogue
  /\ LET found == IF g # NULL /\ group_views[g] # <<>> THEN g ELSE NULL
     IN  Become(IF typed = Freed THEN Crash(S, "freed") ELSE [S EXCEPT !.typed = found])
  /\ UNCHANGED outputs

ConfirmGroup(g) ==
  /\ Dialogue
  /\ typed \in Group => g = typed
  /\ BecomeFocused(EnterNormal(SetGroup(S, focus, g)))
  /\ UNCHANGED outputs

CancelGroup == Dialogue /\ BecomeFocused(EnterNormal(S)) /\ UNCHANGED outputs

(* Outputs.  hikari_workspace_init initializes the list of visible groups. *)

PlugOutput(o) ==
  /\ Running /\ o \notin outputs
  /\ outputs' = outputs \cup {o}
  /\ Become([S EXCEPT !.current[o] = 1, !.next[Root] = Root, !.prev[Root] = Root,
                      !.cut = TRUE])

UnplugOutput(o, into) ==
  /\ Running /\ {o, into} \subseteq outputs /\ o # into
  /\ outputs' = outputs \ {o}
  /\ Become([EnterNormal(Merge(S, o, into)) EXCEPT !.focus = NULL])

Client ==
  \E v \in View :
    \/ \E o \in Output, n \in Sheet, g \in Group : Map(v, o, n, g)
    \/ Unmap(v) \/ Commit(v) \/ Minimize(v)

ViewKeys ==
  \/ MoveFocus \/ RaiseFocus \/ LowerFocus \/ RaiseGroup \/ LowerGroup
  \/ HideView \/ HideGroup \/ OnlyView \/ OnlyGroup
  \/ \E n \in Sheet : PinToSheet(n)
  \/ \E o \in Output : Migrate(o)

WorkspaceKeys ==
  \/ ClearWorkspace \/ ShowGroup \/ ShowGroupOfSheet
  \/ \E o \in Output, views \in SUBSET Mapped(S) :
       \/ ShowAll(o, views) \/ ShowSheet(o, views)
       \/ \E n \in Sheet : DisplaySheet(o, n, views)

Cycle ==
  \/ CycleGroupView \/ MoveOrResize \/ ReleaseModifiers
  \/ \E up \in BOOLEAN : CycleView(up) \/ CycleGroup(up)

AssignGroup ==
  \/ EnterGroupAssign \/ CancelGroup
  \/ \E g \in Group : ConfirmGroup(g)
  \/ \E g \in Group \cup {NULL} : TypeName(g)

Hotplug == \E o, into \in Output : PlugOutput(o) \/ UnplugOutput(o, into)

Next == Client \/ ViewKeys \/ WorkspaceKeys \/ Cycle \/ AssignGroup \/ Hotplug

Spec == Init /\ [][Next]_vars

--------------------------------------------------------------------------------
(* Whatever raised, lowered, showed, hid, moved and assigned the views,     *)
(* each list has the views that belong in it, and no two lists disagree on *)
(* which of two views is above the other: the views on the screen, those   *)
(* of a workspace, of a sheet, of a group are all parts of one stack.  A   *)
(* tiled view that was pinned to another sheet is an exception until its   *)
(* client answers: the lists of all views, which still do not disagree     *)
(* with each other, have it where it was before, in one list of a sheet of *)
(* its output; the visible lists and all other views are as they should    *)
(* be.  No operation fails an assertion on what is hidden or follows a     *)
(* NULL link.                                                              *)
OneStack ==
  LET shown   == Mapped(S) \ hidden
      all     == Range(sheet_views) \cup Range(output_views) \cup Range(group_views)
      visible == Range(workspace_views) \cup Range(visible_group_views) \cup {visible_views}
      OnTop(lists) ==
        UNION {{p \in Range(l) \X Range(l) : p[1] \in Range(Above(l, p[2]))} : l \in lists}
      onTop   == OnTop(all)
      above   == OnTop(visible) \cup {p \in onTop : {p[1], p[2]} \cap stale = {}}
  IN  /\ fault \notin {"assert", "null"}
      /\ Running =>
         /\ \A p \in onTop : <<p[2], p[1]>> \notin onTop
         /\ \A p \in above : <<p[2], p[1]>> \notin above
         /\ Range(visible_views) = shown
         /\ \A o \in Output :
              /\ Range(output_views[o]) = {v \in Mapped(S) : OutputOf(S, v) = o}
              /\ Range(workspace_views[o]) = Range(output_views[o]) \cap shown
              /\ \A n \in Sheet :
                   Range(sheet_views[<<o, n>>]) \ stale =
                     {v \in Mapped(S) \ stale : sheet_of[v] = <<o, n>>}
         /\ \A v \in stale : \E n \in Sheet :
              {sheet \in Output \X Sheet : v \in Range(sheet_views[sheet])} =
                {<<OutputOf(S, v), n>>}
         /\ \A g \in Group :
              /\ Range(group_views[g]) = OfGroup(g)
              /\ Range(visible_group_views[g]) = OfGroup(g) \cap shown

(* The manual, share/man/man1/hikari.md:206: cycling goes through each      *)
(* group, its topmost view standing for it.  The list that it follows has  *)
(* exactly the groups that have visible views, in either direction.        *)
EachGroupIsReached ==
  Running => \A up \in BOOLEAN :
    LET walk[i \in 0 .. Cardinality(Group) + 1] ==
          IF i = 0 THEN Root
          ELSE IF walk[i - 1] = NULL THEN NULL ELSE Link(S, up)[walk[i - 1]]
    IN  Range(walk) = {Root} \cup {g \in Group : visible_group_views[g] # <<>>}

(* So it is until an output is plugged that cuts the list.  But not even   *)
(* then does a link lead to a group that has no visible view, has left the *)
(* list and may be freed.                                                  *)
GroupsStayLinked ==
  /\ ~cut => EachGroupIsReached
  /\ Running => \A x \in Group \cup {Root} : next[x] # NULL =>
       \A y \in {next[x], prev[x]} \ {Root} : visible_group_views[y] # <<>>

(* Raising a group puts it on top of all others, the view that has the     *)
(* focus first, lowering it below all others, with that view still first;  *)
(* the order of the rest of the group and of the others is kept.           *)
GroupsKeepTheirOrder ==
  Focused =>
    LET group  == visible_group_views[group_of[focus]]
        others == FoldLeft(RemoveFirst, visible_views, group)
        inner  == <<focus>> \o RemoveFirst(group, focus)
    IN  /\ GroupRaise(S, focus).visible_views = inner \o others
        /\ GroupLower(S, focus).visible_views = others \o inner

(* Showing views puts them on the workspace in the order that they had     *)
(* before they were hidden, those of the sheet 0 below those of the current *)
(* one (hikari.md:496); showing only the group of the focus shows all of   *)
(* it, on every output, and nothing else, whatever of it was visible       *)
(* before.  A pinned view that waits for its client is shown with the list *)
(* that it is in, which is that of the sheet it left.  What shows views    *)
(* does not read cycling; the views shown are here all, or that group.     *)
ShowingKeepsOrder ==
  Normal /\ ~cycling =>
    LET groups == {group_of[v] : v \in {focus} \ {NULL}}
    IN  /\ \A o \in outputs, views \in {Mapped(S)} \cup {OfGroup(g) : g \in groups} :
             LET Of(list) == SelectSeq(list, LAMBDA v : v \in views)
             IN  /\ ShowOnWorkspace(S, o, output_views[o], views).workspace_views[o] =
                       Of(output_views[o])
                 /\ \A n \in Sheet \ {0} :
                      Display(S, o, n, Mapped(S) \ views).workspace_views[o] =
                        Of(sheet_views[<<o, n>>]) \o Of(sheet_views[<<o, 0>>])
        /\ \A g \in groups : ShowOnlyGroup(S, g).visible_views = group_views[g]
================================================================================
