------------------------- MODULE DesktopListProofs -------------------------
(***************************************************************************)
(* The lists of visible views and the lock screen's override, for every    *)
(* set of views, outputs, groups and marks in which one output stays.      *)
(* Without one, views may be left on noop when the screen is unlocked, and *)
(* reset_visibility() does not reach them there.                           *)
(*                                                                         *)
(* Then the focus, for every set of views, groups and marks on one output: *)
(* it is on a visible view, and no assertion about it fails.  With two     *)
(* outputs neither is true.                                                *)
(***************************************************************************)
EXTENDS DesktopProofs

(* A place for every listed view that is where its sheet and group are.    *)
SamePlace(v) == view_sheet'[v] = view_sheet[v] /\ view_group'[v] = view_group[v]

-----------------------------------------------------------------------------
(* The helpers that several actions share.                                 *)

(* hide() and place_visibly_above() keep the three lists in step, when the *)
(* views they take out are no longer to be listed, the ones they place     *)
(* are, and the others stay on their sheets and in their groups.           *)
LEMMA RelistFollows ==
    ASSUME ListsFollowFlags, NEW gone, NEW placed, NEW sheet, NEW group,
           Relist(gone, placed, sheet, group),
           Listed' = (Listed \ gone) \cup placed,
           \A v \in placed : view_sheet'[v] = sheet[v] /\ view_group'[v] = group[v],
           \A v \in Listed \ (gone \cup placed) : SamePlace(v)
    PROVE  ListsFollowFlags'
<1>1. visible_server_views' = Listed'
  BY DEF Relist, ListsFollowFlags
<1>2. ASSUME NEW w \in Workspace
      PROVE  workspace_views'[w] = {v \in Listed' : OnWorkspace(v, w)'}
  <2>1. workspace_views'[w] = (workspace_views[w] \ (gone \cup placed))
                                  \cup {v \in placed : IsLive(sheet[v]) /\ sheet[v][1] = w}
    BY DEF Relist
  <2>2. workspace_views[w] = {v \in Listed : OnWorkspace(v, w)}
    BY DEF ListsFollowFlags
  <2>3. \A v \in placed : OnWorkspace(v, w)' <=> IsLive(sheet[v]) /\ sheet[v][1] = w
    BY DEF OnWorkspace, IsLive
  <2>4. \A v \in Listed \ (gone \cup placed) : OnWorkspace(v, w)' <=> OnWorkspace(v, w)
    BY DEF SamePlace, OnWorkspace, IsLive
  <2> QED
    BY <2>1, <2>2, <2>3, <2>4
<1>3. ASSUME NEW g \in Group
      PROVE  visible_group_views'[g] = {v \in Listed' : view_group'[v] = g}
  BY DEF Relist, ListsFollowFlags, SamePlace
<1> QED
  BY <1>1, <1>2, <1>3 DEF ListsFollowFlags

(* A handler that moves no listed view and leaves the lists alone.         *)
LEMMA UnchangedFollows ==
    ASSUME ListsFollowFlags, UNCHANGED lists, Listed' = Listed,
           \A v \in Listed : SamePlace(v)
    PROVE  ListsFollowFlags'
<1>1. \A v \in Listed, w \in Workspace : OnWorkspace(v, w)' <=> OnWorkspace(v, w)
  BY DEF SamePlace, OnWorkspace, IsLive
<1> QED
  BY <1>1 DEF ListsFollowFlags, SamePlace, lists

(* Hiding and showing views, or failing to, keeps the lists in step.       *)
LEMMA HideAndShowFollows ==
    ASSUME ListsFollowFlags, NEW gone, NEW shown, shown \subseteq mapped,
           HideAndShow(gone, shown), UNCHANGED <<mapped, forced, view_sheet, view_group>>
    PROVE  ListsFollowFlags'
<1>1. CASE Failed(gone, shown) = "none"
  <2>1. gone \cap (hidden \cup forced) = {} /\ shown \cap forced = {}
    BY <1>1 DEF Failed
  <2>2. hidden' = (hidden \cup gone) \ shown /\ Relist(gone, shown, view_sheet, view_group)
    BY <1>1 DEF HideAndShow
  <2>3. Listed' = (Listed \ gone) \cup shown
    BY <2>1, <2>2 DEF Listed
  <2> QED
    BY <2>2, <2>3, RelistFollows DEF SamePlace
<1>2. CASE Failed(gone, shown) # "none"
  BY <1>2, UnchangedFollows DEF HideAndShow, Listed, SamePlace
<1> QED
  BY <1>1, <1>2

(* place_visibly_above() of a view that is shown.                          *)
LEMMA PlaceFollows ==
    ASSUME ListsFollowFlags, NEW v \in mapped, NEW sheet, NEW group,
           Place(v, sheet, group), Failed({v}, {}) = "none",
           view_sheet'[v] = sheet[v], view_group'[v] = group[v],
           \A u \in mapped \ {v} : SamePlace(u),
           UNCHANGED <<mapped, hidden, forced>>
    PROVE  ListsFollowFlags'
<1>1. Relist({}, {v}, sheet, group) /\ v \notin hidden /\ v \notin forced
  BY DEF Place, Failed
<1>2. Listed' = (Listed \ {}) \cup {v}
  BY <1>1 DEF Listed
<1>3. \A u \in Listed \ ({} \cup {v}) : SamePlace(u)
  BY DEF Listed
<1> QED
  BY <1>1, <1>2, <1>3, RelistFollows

-----------------------------------------------------------------------------
(* The handlers.  InStep: the lists agree afterwards, and a handler other   *)
(* than the lock's overrides no view unless the screen is locked.  Follows: *)
(* they agree if the process runs on, and did not stop halfway.            *)
InStep ==
    /\ ListsFollowFlags'
    /\ mode # "lock" => forced' \subseteq forced

Follows ==
    /\ Running' => ListsFollowFlags'
    /\ mode # "lock" => forced' \subseteq forced

(* What is in step follows.                                                *)
LEMMA InStepFollows == ASSUME InStep PROVE Follows
BY DEF InStep, Follows

Agreed == Base /\ Running /\ ListsFollowFlags

(* Handlers that touch neither lists nor places of views.                  *)
LEMMA StillFollows ==
    ASSUME ListsFollowFlags,
           UNCHANGED <<lists, mapped, hidden, forced, view_sheet, view_group>>
    PROVE  InStep
BY UnchangedFollows DEF Listed, SamePlace, InStep

(* Handlers that hide and show views.                                      *)
LEMMA VisibilityFollows ==
    ASSUME Agreed, NEW gone, NEW shown, shown \subseteq mapped,
           HideAndShow(gone, shown), VisibilityOnly
    PROVE  InStep
BY HideAndShowFollows DEF VisibilityOnly, InStep, Agreed

(* map_handler(): the view is listed, whether the lock screen conceals it  *)
(* or not.                                                                 *)
LEMMA MapFollows ==
    ASSUME Agreed, NEW v \in View, NEW c \in ViewConfig, NEW p \in Pointer, Map(v, c, p)
    PROVE  InStep
<1>1. v \notin mapped /\ v \in hidden /\ v \notin forced
  BY DEF Map, Agreed, Base, Around, UnmappedAtRest
<1>2. /\ Relist({}, {v}, view_sheet', view_group')
      /\ mapped' = mapped \cup {v}
      /\ \/ hidden' = hidden \ {v} /\ forced' = forced
         \/ hidden' = hidden /\ forced' = forced \cup {v} /\ mode = "lock"
  BY DEF Map
<1>3. Listed' = (Listed \ {}) \cup {v}
  BY <1>1, <1>2 DEF Listed
<1>4. \A u \in Listed \ ({} \cup {v}) : SamePlace(u)
  <2>1. \A u \in View \ {v} : view_sheet'[u] = view_sheet[u] /\ view_group'[u] = view_group[u]
    BY DEF Map, Configure, Agreed, Base, Around, ViewType
  <2> QED
    BY <2>1 DEF Listed, SamePlace, Agreed, Base, Around, ViewType
<1> QED
  BY <1>2, <1>3, <1>4, RelistFollows DEF InStep, Agreed

(* unmap_handler(): a listed view leaves the lists.                        *)
LEMMA UnmapFollows ==
    ASSUME Agreed, NEW v \in View, NEW p \in Pointer, Unmap(v, p)
    PROVE  InStep
<1>1. /\ mapped' = mapped \ {v} /\ hidden' = hidden \cup {v} /\ forced' = forced \ {v}
      /\ \A u \in View \ {v} : SamePlace(u)
  BY DEF Unmap, SamePlace, Agreed, Base, Around, ViewType
<1>2. Listed' = (Listed \ {v}) \cup {} /\ Listed \subseteq View
  BY <1>1 DEF Listed, Agreed, Base, Around, ViewType
<1>3. CASE v \in Listed
  <2>1. Relist({v}, {}, view_sheet, view_group)
    BY <1>3 DEF Unmap
  <2> QED
    BY <1>1, <1>2, <2>1, RelistFollows DEF InStep, Agreed
<1>4. CASE v \notin Listed
  <2>1. UNCHANGED lists
    BY <1>4 DEF Unmap
  <2> QED
    BY <1>1, <1>2, <1>4, <2>1, UnchangedFollows DEF InStep, Agreed
<1> QED
  BY <1>3, <1>4

(* commit_pending_operation() lists the view it shows, and raises the one  *)
(* that is shown.                                                          *)
LEMMA CommitFollows ==
    ASSUME Agreed, NEW v \in View, NEW center \in BOOLEAN, NEW p \in Pointer,
           Commit(v, center, p)
    PROVE  InStep
<1>1. PICK shown : /\ shown \subseteq {v} \ forced
                   /\ hidden' = hidden \ shown
                   /\ Relist({}, shown \cup ({v} \cap Listed), view_sheet, view_group)
  BY DEF Commit
<1>2. v \in mapped /\ UNCHANGED <<mapped, forced, view_sheet, view_group>>
  BY DEF Commit, Agreed, Base, Around, UnmappedAtRest
<1>3. Listed' = (Listed \ {}) \cup (shown \cup ({v} \cap Listed))
  BY <1>1, <1>2 DEF Listed
<1> QED
  BY <1>1, <1>2, <1>3, RelistFollows DEF InStep, Agreed, SamePlace

(* Nothing that a client does puts the lists out of step.                  *)
LEMMA ClientFollows ==
    ASSUME Agreed, NEW p \in Pointer, ClientNext(p) PROVE InStep
<1>1. CASE \E v \in View, c \in ViewConfig : Map(v, c, p)
  BY <1>1, MapFollows
<1>2. CASE \E v \in View : Unmap(v, p) \/ \E center \in BOOLEAN : Commit(v, center, p)
  BY <1>2, UnmapFollows, CommitFollows
<1>3. CASE \E v \in View : MapOnFreedSheet(v) \/ RequestActivate(v) \/ QueueOperation(v)
  <2>1. UNCHANGED <<lists, mapped, hidden, forced, view_sheet, view_group>>
    BY <1>3 DEF MapOnFreedSheet, RequestActivate, QueueOperation, FocusOnly
  <2> QED
    BY <2>1, StillFollows DEF Agreed
<1>4. CASE \E v \in View : RequestMinimize(v, p)
  <2>1. PICK v \in View : HideAndShow({v}, {}) /\ VisibilityOnly
    BY <1>4 DEF RequestMinimize
  <2> QED
    BY <2>1, VisibilityFollows
<1>5. CASE \E v \in View : Destroy(v)
  <2>1. PICK v \in View : Destroy(v)
    BY <1>5
  <2>2. /\ UNCHANGED <<lists, mapped, hidden, forced, view_group>>
        /\ Listed \subseteq View \ {v}
        /\ \A u \in View \ {v} : view_sheet'[u] = view_sheet[u]
    BY <2>1 DEF Destroy, Agreed, Base, Around, ViewType, Listed
  <2> QED
    BY <2>2, UnchangedFollows DEF Agreed, InStep, SamePlace, Listed
<1> QED
  BY <1>1, <1>2, <1>3, <1>4, <1>5 DEF ClientNext

(* hikari_view_pin_to_sheet() replaces the view on a sheet that is visible *)
(* and hides it on another.                                                *)
LEMMA PinFollows ==
    ASSUME Agreed, NEW v \in mapped, NEW s, Pin(v, s), OnWorkspace(v, s[1]),
           Failed({v}, {}) = "none", UNCHANGED <<mapped, forced, view_group>>
    PROVE  InStep
<1>1. view_sheet' = [view_sheet EXCEPT ![v] = s] /\ v \in View
  BY DEF Pin, Agreed, Base, Around, ViewType
<1>2. view_sheet'[v] = s /\ \A u \in View \ {v} : SamePlace(u)
  BY <1>1 DEF SamePlace, Agreed, Base, Around, ViewType
<1>3. mapped \subseteq View
  BY DEF Agreed, Base, Around, ViewType
<1>4. CASE SheetIsVisible(s)
  <2>1. Place(v, view_sheet', view_group) /\ UNCHANGED hidden
    BY <1>4 DEF Pin
  <2>2. \A u \in mapped \ {v} : SamePlace(u)
    BY <1>2, <1>3
  <2>3. view_sheet'[v] = view_sheet'[v] /\ view_group'[v] = view_group[v]
    OBVIOUS
  <2> QED
    BY <2>1, <2>2, <2>3, PlaceFollows DEF InStep, Agreed
<1>5. CASE ~SheetIsVisible(s)
  <2>1. hidden' = hidden \cup {v} /\ Relist({v}, {}, view_sheet, view_group)
    BY <1>5 DEF Pin, HideAndShow
  <2>2. v \notin forced
    BY DEF Failed
  <2>3. Listed' = (Listed \ {v}) \cup {}
    BY <2>1, <2>2 DEF Listed
  <2>4. \A u \in Listed \ ({v} \cup {}) : SamePlace(u)
    BY <1>2, <1>3 DEF Listed
  <2> QED
    BY <2>1, <2>3, <2>4, RelistFollows DEF InStep, Agreed
<1> QED
  BY <1>4, <1>5

(* hikari_server_migrate_focus_view() keeps the view in the lists.         *)
LEMMA MigrateFollows ==
    ASSUME Agreed, NEW v \in mapped, NEW o, Migrate(v, o), Failed({v}, {}) = "none",
           UNCHANGED <<mapped, forced, view_group>>
    PROVE  InStep
<1>1. mapped \subseteq View
  BY DEF Agreed, Base, Around, ViewType
<1>2. /\ Place(v, view_sheet', view_group) /\ UNCHANGED hidden
      /\ \A u \in mapped \ {v} : SamePlace(u)
  BY <1>1 DEF Migrate, SamePlace, Agreed, Base, Around, ViewType
<1> QED
  BY <1>2, PlaceFollows DEF InStep, Agreed

(* Nothing that the user does in normal mode puts the lists out of step.   *)
LEMMA UserFollows ==
    ASSUME Agreed, NEW p \in Pointer, UserNext(p) PROVE Follows
<1>1. CASE PointerMotion(p) \/ (\E o \in Output : CycleWorkspace(o)) \/ CycleFromNoop
              \/ UseStaleFocus \/ ToggleInvisible \/ TogglePublic \/ (\E v \in View : CycleView(v))
  <2>1. UNCHANGED <<lists, mapped, hidden, forced, view_sheet, view_group>>
    BY <1>1 DEF PointerMotion, CycleWorkspace, CycleFromNoop, UseStaleFocus, ToggleInvisible,
                TogglePublic, CycleView, FocusOnly
  <2> QED
    BY <2>1, StillFollows, InStepFollows DEF Agreed
<1>2. CASE (\E nr \in SheetNr : DisplaySheet(nr, p)) \/ WorkspaceClear(p)
              \/ \E scope \in {"workspace", "sheet"}, what \in {"all", "invisible", "group"} :
                    ShowViews(scope, what, p)
  <2>1. VisibilityOnly
    BY <1>2 DEF DisplaySheet, WorkspaceClear, ShowViews
  <2>2. PICK shown : shown \subseteq mapped /\ ClearAndShow(workspace, shown)
    BY <1>2, ShownAreMapped DEF DisplaySheet, WorkspaceClear, ShowViews, Agreed
  <2>3. shown \cap (hidden \cup workspace_views[workspace]) \subseteq mapped
    BY <2>2
  <2> QED
    BY <2>1, <2>2, <2>3, VisibilityFollows, InStepFollows DEF ClearAndShow
<1>3. CASE HideView(p) \/ OnlyView(p) \/ HideGroup(p)
  <2>1. PICK gone : HideAndShow(gone, {}) /\ VisibilityOnly
    BY <1>3 DEF HideView, OnlyView, HideGroup, HideViews
  <2> QED
    BY <2>1, VisibilityFollows, InStepFollows
<1>4. CASE \E first \in Pointer : OnlyGroup(first, p)
  <2>1. PICK gone \in SUBSET View, shown \in SUBSET mapped :
           /\ HideAndShow(gone, shown)
           /\ aborted' = "none" => Failed(gone, shown) = "none"
    BY <1>4, OnlyGroupKept DEF Agreed
  <2>2. VisibilityOnly
    BY <1>4 DEF OnlyGroup
  <2> QED
    BY <2>1, <2>2, VisibilityFollows, InStepFollows
<1>5. CASE \E m \in Mark, q \in Pointer : ShowMark(m, p, q)
  <2>1. PICK m \in Mark, q \in Pointer : ShowMark(m, p, q)
    BY <1>5
  <2>2. {mark_view[m]} \cap hidden \subseteq mapped
    BY <2>1, MarkedIsMapped DEF ShowMark, Agreed, Base
  <2> QED
    BY <2>1, <2>2, VisibilityFollows, InStepFollows DEF ShowMark
<1>6. CASE \E m \in Mark, q \in Pointer : SwitchToMark(m, p, q)
  <2>1. PICK m \in Mark, q \in Pointer : SwitchToMark(m, p, q)
    BY <1>6
  <2>2. PICK w \in Workspace, shown \in SUBSET mapped :
           /\ ClearAndShow(w, shown)
           /\ aborted' = "none" =>
                 Failed(workspace_views[w], shown \cap (hidden \cup workspace_views[w])) = "none"
    BY <2>1, SwitchToMarkKept DEF Agreed
  <2>3. shown \cap (hidden \cup workspace_views[w]) \subseteq mapped
    OBVIOUS
  <2> QED
    BY <2>1, <2>2, <2>3, VisibilityFollows, InStepFollows DEF ClearAndShow, SwitchToMark
<1>7. CASE \E nr \in SheetNr : PinToSheet(nr, p)
  <2>1. PICK nr \in SheetNr : PinToSheet(nr, p)
    BY <1>7
  <2>2. FOCUS \in mapped /\ UNCHANGED <<mapped, forced, view_group>>
        /\ Pin(FOCUS, <<workspace, nr>>)
    BY <2>1 DEF PinToSheet, HasFocus
  <2>3. aborted' = "none" => OnWorkspace(FOCUS, workspace) /\ Failed({FOCUS}, {}) = "none"
    BY <2>1, PinToSheetKept DEF Agreed
  <2>4. CASE aborted' = "none"
    BY <2>2, <2>3, <2>4, PinFollows, InStepFollows
  <2>5. CASE aborted' # "none"
    BY <2>2, <2>5 DEF Follows, Running
  <2> QED
    BY <2>4, <2>5
<1>8. CASE \E o \in Output : MoveToOutput(o)
  <2>1. PICK o \in Output : MoveToOutput(o)
    BY <1>8
  <2>2. FOCUS \in mapped /\ UNCHANGED <<mapped, forced, view_group>> /\ Migrate(FOCUS, o)
    BY <2>1 DEF MoveToOutput, HasFocus
  <2>3. aborted' = "none" => Failed({FOCUS}, {}) = "none"
    BY <2>1, MoveToOutputKept DEF Agreed
  <2>4. CASE aborted' = "none"
    BY <2>2, <2>3, <2>4, MigrateFollows, InStepFollows
  <2>5. CASE aborted' # "none"
    BY <2>2, <2>5 DEF Follows, Running
  <2> QED
    BY <2>4, <2>5
<1> QED
  BY <1>1, <1>2, <1>3, <1>4, <1>5, <1>6, <1>7, <1>8 DEF UserNext

(* Neither do the dialogues and the drag.                                  *)
LEMMA ModeFollows ==
    ASSUME Agreed, NEW p \in Pointer, ModeNext(p), ~Lock, ~Unlock(p) PROVE Follows
<1>1. CASE \/ \E m \in Mode : EnterMode(m)
           \/ EnterMarkSelect \/ LeaveMode(p)
           \/ \E m \in Mark \cup {NULL} : AssignMark(m, p)
  <2>1. UNCHANGED <<lists, mapped, hidden, forced, view_sheet, view_group>>
    BY <1>1 DEF EnterMode, EnterMarkSelect, LeaveMode, AssignMark, FocusOnly
  <2> QED
    BY <2>1, StillFollows, InStepFollows DEF Agreed
<1>2. CASE \E g \in Group : AssignGroup(g, p)
  <2>1. PICK g \in Group : AssignGroup(g, p)
    BY <1>2
  <2>2. /\ FOCUS \in mapped /\ mapped \subseteq View
        /\ UNCHANGED <<mapped, hidden, forced, view_sheet>>
        /\ view_group' = [view_group EXCEPT ![FOCUS] = g]
    BY <2>1 DEF AssignGroup, HasFocus, Agreed, Base, Around, ViewType
  <2>3. \A u \in mapped \ {FOCUS} : SamePlace(u)
    BY <2>2 DEF SamePlace, Agreed, Base, Around, ViewType
  <2>4. CASE view_group[FOCUS] = g
    <3>1. UNCHANGED <<lists, view_group>>
      BY <2>1, <2>2, <2>4 DEF AssignGroup, Agreed, Base, Around, ViewType
    <3> QED
      BY <2>2, <3>1, StillFollows, InStepFollows DEF Agreed
  <2>5. CASE view_group[FOCUS] # g /\ Failed({FOCUS}, {}) = "none"
    <3>1. Place(FOCUS, view_sheet, view_group')
      BY <2>1, <2>5 DEF AssignGroup
    <3>2. view_sheet'[FOCUS] = view_sheet[FOCUS] /\ view_group'[FOCUS] = view_group'[FOCUS]
      BY <2>2
    <3> QED
      BY <2>2, <2>3, <2>5, <3>1, <3>2, PlaceFollows DEF Follows, Agreed
  <2>6. CASE view_group[FOCUS] # g /\ Failed({FOCUS}, {}) # "none"
    BY <2>1, <2>2, <2>6, AssignGroupKept DEF Follows, Running, Agreed
  <2> QED
    BY <2>4, <2>5, <2>6
<1>3. CASE \E s \in Sheet : AssignSheet(s, p)
  <2>1. PICK s \in Sheet : AssignSheet(s, p)
    BY <1>3
  <2>2. /\ FOCUS \in mapped /\ UNCHANGED <<mapped, forced, view_group>>
        /\ \/ OnWorkspace(FOCUS, s[1]) /\ Pin(FOCUS, s)
           \/ Migrate(FOCUS, s[1])
    BY <2>1 DEF AssignSheet, HasFocus
  <2>3. aborted' = "none" => Failed({FOCUS}, {}) = "none"
    BY <2>1, AssignSheetKept DEF Agreed
  <2>4. CASE aborted' = "none"
    BY <2>2, <2>3, <2>4, PinFollows, MigrateFollows, InStepFollows
  <2>5. CASE aborted' # "none"
    BY <2>2, <2>5 DEF Follows, Running
  <2> QED
    BY <2>4, <2>5
<1> QED
  BY <1>1, <1>2, <1>3 DEF ModeNext

-----------------------------------------------------------------------------
(* The lock screen.                                                        *)

(* Every mapped view is on an output, because one output stays.            *)
LEMMA AllOnOutputs ==
    ASSUME Base, Staying # {}
    PROVE  OnOutputs = mapped /\ outputs # {}
<1>1. Refuge = outputs /\ outputs # {}
  BY DEF Refuge, Base, Around, ViewsAreLive
<1>2. ASSUME NEW v \in mapped PROVE \E o \in outputs : OnWorkspace(v, o)
  BY <1>1 DEF Base, Around, MappedHavePlace, ViewsAreLive, ViewType, OnWorkspace, IsLive
<1> QED
  BY <1>1, <1>2 DEF OnOutputs

(* override_visibility() overrides views that were not, so that what is    *)
(* hidden and overridden stays listed.                                     *)
LEMMA LockFollows ==
    ASSUME Agreed, forced = {}, Lock
    PROVE  ListsFollowFlags' /\ Listed' = Listed /\ UNCHANGED <<lists, view_sheet, current_sheet>>
<1>1. PICK conceal, reveal : /\ conceal \cap hidden = {} /\ reveal \subseteq hidden
                             /\ forced' = forced \cup conceal \cup reveal
                             /\ hidden' = (hidden \ reveal) \cup conceal
  BY DEF Lock
<1>2. UNCHANGED <<screen, mapped, view_sheet, view_group, lists>>
  BY DEF Lock
<1>3. Listed' = Listed
  BY <1>1, <1>2 DEF Listed
<1> QED
  BY <1>2, <1>3, UnchangedFollows DEF Agreed, SamePlace, screen

(* reset_visibility() restores what override_visibility() changed.         *)
LEMMA UnlockFollows ==
    ASSUME Agreed, Staying # {}, NEW p \in Pointer, Unlock(p)
    PROVE  /\ ListsFollowFlags' /\ Listed' = Listed /\ forced' = {}
           /\ UNCHANGED <<lists, view_sheet, current_sheet>>
<1>1. forced \subseteq mapped
  BY DEF Agreed, Base, Around, UnmappedAtRest, ViewType
<1>2. /\ UNCHANGED <<mapped, view_sheet, view_group, lists, current_sheet>>
      /\ forced' = forced \ (mapped \cap forced)
      /\ hidden' = (hidden \ (mapped \cap forced)) \cup ((mapped \cap forced) \ hidden)
  BY AllOnOutputs DEF Unlock, Agreed
<1>3. Listed' = Listed /\ forced' = {}
  BY <1>1, <1>2 DEF Listed
<1> QED
  BY <1>2, <1>3, UnchangedFollows DEF Agreed, SamePlace

-----------------------------------------------------------------------------
(* Outputs come and go.                                                    *)

(* hikari_workspace_merge() takes the listed views of the output that goes *)
(* to the lists of the one that stays, or hides them there.                *)
LEMMA MergeFollows ==
    ASSUME Agreed, NEW from \in Workspace, NEW to \in Workspace, Merge(from, to),
           UNCHANGED <<mapped, forced, view_group>>
    PROVE  Follows
<1>1. PICK sunk : /\ sunk \subseteq OutputViews(from) \ (hidden \cup forced)
                  /\ hidden' = hidden \cup sunk
                  /\ Relist(sunk, (OutputViews(from) \cap Listed) \ sunk, view_sheet', view_group)
  BY DEF Merge
<1>2. Listed' = (Listed \ sunk) \cup ((OutputViews(from) \cap Listed) \ sunk)
  BY <1>1 DEF Listed
<1>3. \A v \in Listed \ OutputViews(from) : SamePlace(v)
  BY DEF Merge, SamePlace, Listed, OutputViews, Agreed, Base, Around, ViewType
<1>4. \A v \in Listed \ (sunk \cup ((OutputViews(from) \cap Listed) \ sunk)) : SamePlace(v)
  BY <1>3
<1> QED
  BY <1>1, <1>2, <1>4, RelistFollows DEF Follows, Agreed

(* An output that is added finds the one that stays, and takes no views.   *)
LEMMA OutputsFollow ==
    ASSUME Agreed, Staying # {}, NEW p \in Output \cup {NULL}, OutputNext(p)
    PROVE  Follows /\ UNCHANGED forced
<1>1. CASE \E o \in Output : OutputAdd(o, p)
  <2>1. PICK o \in Output : OutputAdd(o, p)
    BY <1>1
  <2>2. UNCHANGED <<lists, mapped, hidden, forced, view_sheet, view_group>>
    BY <2>1, AllOnOutputs DEF OutputAdd, Agreed
  <2> QED
    BY <2>2, StillFollows, InStepFollows DEF Agreed
<1>2. CASE \E o \in Output, to \in Workspace : OutputRemove(o, to, p)
  <2>1. PICK o \in Output, to \in Workspace : OutputRemove(o, to, p)
    BY <1>2
  <2>2. Merge(o, to) /\ UNCHANGED <<mapped, forced, view_group>> /\ o \in Workspace
    BY <2>1 DEF OutputRemove, Workspace
  <2> QED
    BY <2>2, MergeFollows
<1> QED
  BY <1>1, <1>2 DEF OutputNext

-----------------------------------------------------------------------------
(* The whole of Desktop.                                                   *)

(* The inductive invariant.  The lists are part of it while the process    *)
(* runs: a handler that ends in a failed assertion stops halfway.          *)
ListBase == Base /\ ForcedOnlyWhileLocked /\ (Running => ListsFollowFlags)

(* Only the lock screen leaves the mode that it found, and a handler of    *)
(* another mode leaves a locked screen locked.                             *)
LEMMA LockedOnlyByLock ==
    ASSUME Base, [Next]_vars
    PROVE  \/ Lock
           \/ \E p \in Pointer : Unlock(p)
           \/ mode = "lock" <=> mode' = "lock"
<1>1. ASSUME NEW p \in Pointer, ClientNext(p) \/ UserNext(p) PROVE mode = "lock" <=> mode' = "lock"
  BY <1>1, ClientKept, UserKept DEF FocusKept
<1>2. ASSUME NEW p \in Pointer, ModeNext(p), ~Lock, ~Unlock(p)
      PROVE  mode = "lock" <=> mode' = "lock"
  BY <1>2, EnterModeKept, EnterMarkSelectKept, LeaveModeKept, AssignGroupKept, AssignMarkKept,
     AssignSheetKept DEF ModeNext, FocusKept
<1>3. ASSUME NEW p \in Output \cup {NULL}, OutputNext(p) PROVE mode = "lock" <=> mode' = "lock"
  BY <1>3, OutputAddKept, OutputRemoveKept DEF OutputNext
<1>4. CASE UNCHANGED vars
  BY <1>4 DEF vars, focus
<1> QED
  BY <1>1, <1>2, <1>3, <1>4 DEF Next

(* While the process runs, every step keeps the invariant.                 *)
LEMMA NextLists ==
    ASSUME ListBase, Staying # {}, [Next]_vars
    PROVE  /\ ListBase'
           /\ (mode = "lock") # (mode' = "lock") =>
                 Listed' = Listed /\ UNCHANGED <<lists, view_sheet, current_sheet>>
<1>1. Base'
  BY NextBase DEF ListBase
<1>2. CASE Lock
  <2>1. Agreed /\ forced = {} /\ mode = "normal"
    BY <1>2 DEF Lock, Acting, ListBase, ForcedOnlyWhileLocked, Agreed
  <2>2. mode' = "lock"
    BY <1>2, LockKept DEF ListBase
  <2> QED
    BY <1>1, <1>2, <2>1, <2>2, LockFollows DEF ListBase, ForcedOnlyWhileLocked
<1>3. CASE \E p \in Pointer : Unlock(p)
  <2>1. PICK p \in Pointer : Unlock(p)
    BY <1>3
  <2>2. Agreed
    BY <2>1 DEF Unlock, ListBase, Agreed
  <2> QED
    BY <1>1, <2>1, <2>2, UnlockFollows DEF ListBase, ForcedOnlyWhileLocked
<1>4. CASE ~Lock /\ ~(\E p \in Pointer : Unlock(p)) /\ Next
  <2>1. mode = "lock" <=> mode' = "lock"
    BY <1>4, LockedOnlyByLock DEF ListBase
  <2>2. Agreed
    BY <1>4, NextRuns DEF ListBase, Agreed
  <2>3. Follows
    BY <1>4, <2>2, ClientFollows, InStepFollows, UserFollows, ModeFollows, OutputsFollow DEF Next
  <2> QED
    BY <1>1, <2>1, <2>3 DEF ListBase, ForcedOnlyWhileLocked, Follows
<1>5. CASE UNCHANGED vars
  <2>1. UNCHANGED <<lists, mapped, hidden, forced, view_sheet, view_group, mode, aborted>>
    BY <1>5 DEF vars, focus
  <2>2. ListsFollowFlags => ListsFollowFlags'
    BY <2>1, UnchangedFollows DEF Listed, SamePlace
  <2> QED
    BY <1>1, <2>1, <2>2 DEF ListBase, ForcedOnlyWhileLocked, Running
<1> QED
  BY <1>2, <1>3, <1>4, <1>5

(* Everything is hidden at the start, and nothing listed.                  *)
LEMMA InitLists == ASSUME Init PROVE ListBase
<1>1. Base
  BY InitBase
<1>2. ForcedOnlyWhileLocked /\ ListsFollowFlags
  BY DEF Init, ForcedOnlyWhileLocked, ListsFollowFlags, Listed
<1> QED
  BY <1>1, <1>2 DEF ListBase

(* With an output that stays, the invariant holds of every behaviour.      *)
THEOREM ListInvariant ==
    ASSUME Staying # {} PROVE Spec => []ListBase
<1>1. Init => ListBase
  BY InitLists
<1>2. ListBase /\ [Next]_vars => ListBase'
  BY NextLists
<1> QED
  BY <1>1, <1>2, PTL DEF Spec

(* As long as the process runs, the lists of visible views of the server,  *)
(* the workspaces and the groups are those that the flags, the sheets and  *)
(* the groups of the views say, through every handler.                     *)
THEOREM ListsStayInStep ==
    ASSUME Staying # {} PROVE Spec => [](Running => VisibleListsAgree)
<1>1. ListBase => (Running => VisibleListsAgree)
  BY DEF ListBase, Base, Around, VisibleListsAgree
<1> QED
  BY <1>1, ListInvariant, PTL

(* reset_visibility() leaves no override behind.                           *)
THEOREM OverrideEndsWithLock ==
    ASSUME Staying # {} PROVE Spec => []ForcedOnlyWhileLocked
<1>1. ListBase => ForcedOnlyWhileLocked
  BY DEF ListBase
<1> QED
  BY <1>1, ListInvariant, PTL

(* Locking and unlocking the screen change nothing of what the user chose  *)
(* to show: the lists, the sheets of the views and the current sheets.     *)
THEOREM LockIsTransparent ==
    ASSUME Staying # {} PROVE Spec => LockPreservesChoice
<1>1. ListBase /\ [Next]_vars =>
         [(mode = "lock") # (mode' = "lock")
             => /\ Listed' = Listed /\ lists' = lists
                /\ view_sheet' = view_sheet /\ current_sheet' = current_sheet]_vars
  BY NextLists
<1> QED
  BY <1>1, ListInvariant, PTL DEF Spec, LockPreservesChoice
-----------------------------------------------------------------------------
(* One output, and no other to come: the pointer is where the focus is.     *)

OnlyOutput(o) == Output = {o} /\ Initial = {o} /\ Pluggable = {}

(* The workspace of the output o, while a handler runs: the view that has   *)
(* the focus is one of those in the list views.                             *)
Aims(k, views, o) ==
    /\ k \in Outcome /\ k.aborted = "none" /\ k.workspace = o
    /\ k.focus_view[o] # NULL => k.focus_view[o] \in views

(* No view that the pointer can be on is hidden.                           *)
Clear(s, o) ==
    /\ s.views[o] \subseteq View /\ s.views[o] \cap s.hidden = {}
    /\ s.hidden \subseteq View

(* The same of the state: the focus view is in the list of its workspace.  *)
Aimed(o) ==
    /\ aborted = "none" /\ workspace = o
    /\ focus_view[o] # NULL => focus_view[o] \in workspace_views[o]

(* Nothing is on a freed sheet, because no output goes.                    *)
NoneFreed == \A v \in View : view_sheet[v] # Freed

(* What a handler finds, when o is the only output.                        *)
At(o) ==
    /\ Agreed /\ Aimed(o) /\ NoneFreed /\ ForcedOnlyWhileLocked
    /\ outputs = {o} /\ Pointer = {o, NULL} /\ o \in Workspace /\ o \in Output
    /\ \A v \in mapped : v \in View /\ OnWorkspace(v, o) /\ view_sheet[v][1] = o
    /\ workspace_views[o] = Listed /\ Listed \subseteq mapped
    /\ Aims(Focus("none"), workspace_views[o], o)
    /\ mode = "lock" => focus_view[o] = NULL
    /\ mode # "lock" => forced = {} /\ Listed = mapped \ hidden /\ Clear(Before, o)

(* The output that stays is the only one, and every mapped view is on it.  *)
LEMMA OutputIsThere ==
    ASSUME Base, NEW o, OnlyOutput(o)
    PROVE  /\ outputs = {o} /\ Pointer = {o, NULL} /\ o \in Workspace /\ o \in Output
           /\ Refuge = {o}
           /\ \A v \in mapped : v \in View /\ OnWorkspace(v, o) /\ view_sheet[v][1] = o
<1>1. Staying = {o} /\ o \in Workspace /\ o \in Output
  BY DEF OnlyOutput, Staying, Workspace
<1>2. outputs = {o}
  BY <1>1 DEF OnlyOutput, Base, Around, ViewsAreLive, ScreenType
<1>3. Refuge = {o} /\ Pointer = {o, NULL}
  BY <1>1, <1>2 DEF Refuge, Pointer
<1>4. ASSUME NEW v \in mapped PROVE v \in View /\ OnWorkspace(v, o) /\ view_sheet[v][1] = o
  BY <1>3 DEF Base, Around, ViewType, MappedHavePlace, ViewsAreLive, OnWorkspace, IsLive
<1> QED
  BY <1>1, <1>2, <1>3, <1>4

(* Every handler starts from what At says.                                 *)
LEMMA HandlerStartsAt ==
    ASSUME ListBase, Running, NEW o, OnlyOutput(o), Aimed(o), NoneFreed
    PROVE  At(o)
<1>1. Agreed /\ ForcedOnlyWhileLocked
  BY DEF ListBase, Agreed
<1>2. /\ outputs = {o} /\ Pointer = {o, NULL} /\ o \in Workspace /\ o \in Output
      /\ \A v \in mapped : v \in View /\ OnWorkspace(v, o) /\ view_sheet[v][1] = o
  BY <1>1, OutputIsThere DEF Agreed
<1>3. workspace_views[o] = Listed /\ Listed \subseteq mapped
  BY <1>1, <1>2 DEF Agreed, ListsFollowFlags, Listed
<1>4. Aims(Focus("none"), workspace_views[o], o)
  BY <1>1, FocusOutcome DEF Agreed, Base, Focused, Aimed, Aims, Focus, Failure
<1>5. mode = "lock" => focus_view[o] = NULL
  BY <1>1 DEF Agreed, Base, Focused, LockHasNoFocus, FOCUS, Aimed
<1>6. ASSUME mode # "lock"
      PROVE  forced = {} /\ Listed = mapped \ hidden /\ Clear(Before, o)
  <2>1. forced = {} /\ Listed = mapped \ hidden
    BY <1>1, <1>6 DEF ForcedOnlyWhileLocked, Listed
  <2>2. hidden \subseteq View /\ mapped \subseteq View
    BY <1>1 DEF Agreed, Base, Around, ViewType
  <2> QED
    BY <1>3, <2>1, <2>2 DEF Clear, Before, Screen
<1> QED
  BY <1>1, <1>2, <1>3, <1>4, <1>5, <1>6 DEF At

(* What it leaves behind, once its lists are in step.                      *)
LEMMA AfterIsClear ==
    ASSUME NEW o, At(o), mode # "lock", InStep, Around'
    PROVE  Clear(After, o)
<1>1. forced' = {} /\ hidden' \subseteq View /\ mapped' \subseteq View
  BY DEF At, InStep, Around, ViewType
<1>2. workspace_views'[o] \subseteq Listed'
  BY DEF At, InStep, ListsFollowFlags
<1> QED
  BY <1>1, <1>2 DEF Listed, Clear, After, Screen

-----------------------------------------------------------------------------
(* The functions that move the focus.                                      *)

(* A focus that is in a list is in a longer one.                           *)
LEMMA AimsHigher ==
    ASSUME NEW k, NEW views, NEW o, Aims(k, views, o), NEW more, views \subseteq more
    PROVE  Aims(k, more, o)
BY DEF Aims

(* hikari_workspace_focus_view() of a listed view fails no assertion.      *)
LEMMA FocusViewAims ==
    ASSUME NEW k, NEW old, NEW o \in Workspace, Aims(k, old, o), k.mode = "normal",
           NEW s, Clear(s, o), NEW v \in s.views[o] \cup {NULL}
    PROVE  Aims(FocusView(k, o, v, s), s.views[o], o) /\ FocusView(k, o, v, s).mode = "normal"
<1>1. v \notin s.hidden /\ v # Freed /\ v \in Focusable
  BY NamesAssumption DEF Clear, Focusable
<1> DEFINE j == FocusView(k, o, v, s)
<1>2. j = [k EXCEPT !.workspace = o, !.focus_view[o] = v]
  BY <1>1 DEF FocusView, Aims
<1> HIDE DEF j
<1>3. j \in Outcome /\ j.aborted = "none" /\ j.workspace = o /\ j.mode = "normal"
      /\ j.focus_view[o] = v
  BY <1>1, <1>2 DEF Aims, Outcome
<1>4. Aims(j, s.views[o], o)
  BY <1>3 DEF Aims
<1> QED
  BY <1>3, <1>4 DEF j

(* hikari_server_cursor_focus() moves the focus to a listed view or        *)
(* leaves it where it is.                                                  *)
LEMMA CursorFocusAims ==
    ASSUME NEW k, NEW o \in Workspace, NEW s, Aims(k, s.views[o], o),
           k.mode = "normal" => Clear(s, o),
           NEW p \in {o, NULL}, NEW j \in CursorFocus(k, p, s)
    PROVE  Aims(j, s.views[o], o) /\ j.mode = k.mode
<1>1. CASE k.mode # "normal" \/ p = NULL
  BY <1>1 DEF CursorFocus
<1>2. CASE k.mode = "normal" /\ p # NULL
  <2>1. \/ \E v \in s.views[o] : j = FocusView(k, o, v, s)
        \/ j = k
    BY <1>2 DEF CursorFocus, Aims
  <2> QED
    BY <1>2, <2>1, FocusViewAims
<1> QED
  BY <1>1, <1>2

(* So does hikari_server_enter_normal_mode(), out of any mode.             *)
LEMMA EnterNormalModeAims ==
    ASSUME NEW k, NEW o \in Workspace, NEW s, Aims(k, s.views[o], o), Clear(s, o),
           NEW p \in {o, NULL}, NEW j \in EnterNormalMode(k, p, s)
    PROVE  Aims(j, s.views[o], o) /\ j.mode = "normal"
<1> DEFINE n == [k EXCEPT !.mode = "normal"]
<1>1. Aims(n, s.views[o], o) /\ n.mode = "normal"
  BY DEF Aims, Outcome, Mode
<1>2. j \in CursorFocus(n, p, s)
  BY DEF EnterNormalMode
<1> HIDE DEF n
<1> QED
  BY <1>1, <1>2, CursorFocusAims

(* clear_focus() of a view: the focus is not on it, or on another view that *)
(* is listed before.                                                       *)
LEMMA ClearFocusAims ==
    ASSUME NEW o, At(o), mode # "lock", NEW v \in mapped, NEW p \in {o, NULL},
           NEW j \in ClearFocus(Focus("none"), v, p, Before)
    PROVE  Aims(j, workspace_views[o] \ {v}, o) /\ j.mode \in {mode, "normal"}
<1> DEFINE k == Focus("none")
<1>1. k.aborted = "none" /\ k.workspace = o /\ k.mode = mode /\ k.focus_view = focus_view
  BY DEF Focus, At, Aimed
<1>2. Aims(k, Before.views[o], o) /\ Clear(Before, o) /\ o \in Workspace
      /\ Before.views[o] = workspace_views[o]
  BY DEF At, Before, Screen
<1>3. view_sheet[v][1] = o
  BY DEF At
<1>4. CASE k.focus_view[o] # v
  <2>1. j = k
    BY <1>1, <1>3, <1>4 DEF ClearFocus
  <2> QED
    BY <1>1, <1>2, <1>4, <2>1 DEF Aims
<1>5. CASE k.focus_view[o] = v
  <2> HIDE DEF k
  <2>1. PICK i \in IF k.mode = "normal" THEN {k} ELSE EnterNormalMode(k, p, Before) :
           j = FocusView(i, i.workspace, NULL, Before)
    BY <1>1, <1>3, <1>5 DEF ClearFocus, k
  <2>2. Aims(i, Before.views[o], o) /\ i.mode = "normal"
    BY <1>2, <2>1, EnterNormalModeAims
  <2>3. j = [i EXCEPT !.workspace = o, !.focus_view[o] = NULL]
    BY <1>2, <2>1, <2>2, NamesAssumption DEF FocusView, Aims, Clear
  <2> QED
    BY <1>2, <2>2, <2>3 DEF Aims, Outcome, Focusable
<1> QED
  BY <1>4, <1>5

(* clear_focus() of many views takes it from them.                         *)
LEMMA UnfocusAims ==
    ASSUME NEW k, NEW views, NEW o \in Workspace, Aims(k, views, o), k.mode = "normal",
           NEW gone, \A v \in gone \cap views : view_sheet[v][1] = o
    PROVE  Aims(Unfocus(k, gone), views \ gone, o) /\ Unfocus(k, gone).mode = "normal"
<1> DEFINE u == Unfocus(k, gone)
<1>1. u \in Outcome /\ u.mode = "normal" /\ u.aborted = "none" /\ u.workspace = o
  BY DEF Unfocus, Aims, Outcome, Focusable
<1>2. CASE k.focus_view[o] \in gone /\ k.focus_view[o] # NULL
  <2>1. view_sheet[k.focus_view[o]][1] = o
    BY <1>2 DEF Aims
  <2>2. u.focus_view[o] = NULL
    BY <1>2, <2>1 DEF Unfocus, Aims, Outcome
  <2> QED
    BY <1>1, <2>2 DEF Aims
<1>3. CASE k.focus_view[o] \notin gone \/ k.focus_view[o] = NULL
  <2>1. u.focus_view[o] = k.focus_view[o]
    BY <1>3 DEF Unfocus, Aims, Outcome
  <2> QED
    BY <1>1, <1>3, <2>1 DEF Aims
<1> QED
  BY <1>2, <1>3

-----------------------------------------------------------------------------
(* The handlers.                                                           *)

(* The outcome of a handler is a focus on a view that is listed            *)
(* afterwards.                                                             *)
LEMMA FocusLands ==
    ASSUME NEW o, NEW k, NEW views, Aims(k, views, o), views \subseteq workspace_views'[o],
           Refocus(k)
    PROVE  Aimed(o)'
BY DEF Aims, Refocus, Aimed

(* A handler that leaves the focus alone may not unlist its view.          *)
LEMMA FocusStays ==
    ASSUME NEW o, At(o), UNCHANGED <<workspace, focus_view, aborted>>,
           focus_view[o] # NULL => focus_view[o] \in workspace_views'[o]
    PROVE  Aimed(o)'
BY DEF At, Aimed

(* Nothing but the focus moves, or not even that.                          *)
LEMMA MovedFocusAims ==
    ASSUME NEW o, At(o), NEW p \in Pointer,
           \/ PointerMotion(p) \/ LeaveMode(p) \/ EnterMarkSelect \/ Lock
           \/ \E m \in Mark \cup {NULL} : AssignMark(m, p)
           \/ \E v \in View : RequestActivate(v) \/ CycleView(v)
    PROVE  Aimed(o)'
<1> DEFINE k == Focus("none")
           views == workspace_views[o]
<1>1. /\ Aims(k, views, o) /\ mode # "lock" /\ o \in Workspace /\ p \in {o, NULL}
      /\ Clear(Before, o) /\ views = Before.views[o] /\ views = mapped \ hidden
      /\ workspace = o /\ k.mode = mode
  BY DEF At, Aimed, PointerMotion, LeaveMode, EnterMarkSelect, Lock, AssignMark, RequestActivate,
         CycleView, Acting, Focus, Before, Screen
<1>2. views = workspace_views'[o]
  BY DEF PointerMotion, LeaveMode, EnterMarkSelect, Lock, AssignMark, RequestActivate,
         CycleView, FocusOnly, lists
<1> HIDE DEF k, views
<1>3. CASE PointerMotion(p)
  <2>1. PICK j \in CursorFocus(k, p, Before) : Refocus(j)
    BY <1>3 DEF PointerMotion, k
  <2> QED
    BY <1>1, <1>2, <2>1, CursorFocusAims, FocusLands
<1>4. CASE LeaveMode(p) \/ \E m \in Mark \cup {NULL} : AssignMark(m, p)
  <2>1. PICK j \in EnterNormalMode(k, p, Before) : Refocus(j)
    BY <1>4 DEF LeaveMode, AssignMark, k
  <2> QED
    BY <1>1, <1>2, <2>1, EnterNormalModeAims, FocusLands
<1>5. CASE EnterMarkSelect \/ Lock
  <2> DEFINE j == FocusView(k, o, NULL, Before)
  <2>1. Aims(j, views, o)
    <3>1. k.mode = "normal"
      BY <1>1, <1>5 DEF EnterMarkSelect, Lock, Acting
    <3>2. NULL \in Before.views[o] \cup {NULL}
      OBVIOUS
    <3>3. Aims(k, Before.views[o], o) /\ o \in Workspace /\ Clear(Before, o)
      BY <1>1
    <3>4. Aims(FocusView(k, o, NULL, Before), Before.views[o], o)
      BY <3>1, <3>2, <3>3, FocusViewAims
    <3> QED
      BY <1>1, <3>4
  <2>2. PICK m \in {"select", "lock"} : Refocus([j EXCEPT !.mode = m])
    BY <1>1, <1>5 DEF EnterMarkSelect, Lock, k
  <2> HIDE DEF j
  <2>3. Aims([j EXCEPT !.mode = m], views, o)
    BY <2>1 DEF Aims, Outcome, Mode
  <2> QED
    BY <1>2, <2>2, <2>3, FocusLands
<1>6. CASE \E v \in View : RequestActivate(v) \/ CycleView(v)
  <2>1. PICK v \in View : RequestActivate(v) \/ CycleView(v)
    BY <1>6
  <2>2. v \in views /\ view_sheet[v][1] = o /\ IsLive(view_sheet[v])
    <3>1. v \in Listed
      BY <1>1, <2>1 DEF RequestActivate, CycleView, At, Agreed, ListsFollowFlags
    <3> QED
      BY <3>1 DEF At, views, OnWorkspace
  <2>3. Refocus(FocusView(k, o, v, Before)) /\ mode = "normal"
    BY <2>1, <2>2 DEF RequestActivate, CycleView, k, Acting
  <2>4. Aims(FocusView(k, o, v, Before), views, o)
    <3>1. Aims(k, views, o) /\ k.mode = "normal" /\ Clear(Before, o) /\ v \in Before.views[o] \cup {NULL}
      BY <1>1, <2>2, <2>3
    <3>2. Aims(FocusView(k, o, v, Before), Before.views[o], o)
      BY <1>1, <3>1, FocusViewAims
    <3> QED
      BY <1>1, <3>2, Zenon
  <2> QED
    BY <1>2, <2>3, <2>4, FocusLands
<1> QED
  BY <1>3, <1>4, <1>5, <1>6

(* The handlers that touch neither the focus nor the lists; the view that  *)
(* destroy_handler() frees is unmapped and has no focus to lose.           *)
LEMMA SameFocusAims ==
    ASSUME NEW o, At(o),
           \/ \E v \in View : QueueOperation(v) \/ Destroy(v)
           \/ ToggleInvisible \/ TogglePublic
           \/ \E m \in Mode : EnterMode(m)
    PROVE  Aimed(o)'
<1>1. UNCHANGED <<workspace, aborted, lists>>
  BY DEF QueueOperation, Destroy, ToggleInvisible, TogglePublic, EnterMode, FocusOnly, focus
<1>2. focus_view'[o] = focus_view[o]
  <2>1. CASE \E v \in View : Destroy(v)
    <3>1. PICK v \in View : Destroy(v)
      BY <2>1
    <3>2. focus_view[o] # v
      BY <3>1, NamesAssumption DEF Destroy, At, Aimed
    <3> QED
      BY <3>1, <3>2 DEF Destroy, At
  <2>2. CASE ~(\E v \in View : Destroy(v))
    BY <2>2 DEF QueueOperation, ToggleInvisible, TogglePublic, EnterMode, focus
  <2> QED
    BY <2>1, <2>2
<1> QED
  BY <1>1, <1>2 DEF At, Aimed, lists

(* One output has no other, its sheets are not freed and its focus view is  *)
(* mapped.                                                                 *)
LEMMA NotWithOneOutput ==
    ASSUME NEW o, OnlyOutput(o), At(o)
    PROVE  /\ \A v \in View : ~MapOnFreedSheet(v)
           /\ ~CycleFromNoop /\ ~UseStaleFocus
           /\ \A w \in Output : ~CycleWorkspace(w) /\ ~MoveToOutput(w)
           /\ \A p : ~OutputNext(p)
<1>1. workspace = o /\ o # Noop /\ Output = {o} /\ Pluggable = {} /\ outputs = {o}
  BY NamesAssumption DEF At, Aimed, OnlyOutput
<1>2. FOCUS # NULL => HasFocus
  BY <1>1 DEF At, Aimed, FOCUS, HasFocus
<1>3. HasFocus => OnWorkspace(FOCUS, o)
  BY DEF At, HasFocus
<1> QED
  BY <1>1, <1>2, <1>3
     DEF MapOnFreedSheet, At, NoneFreed, CycleFromNoop, UseStaleFocus, CycleWorkspace,
         MoveToOutput, OutputNext, OutputAdd, OutputRemove

(* A cursor_focus() after the lists grew.                                  *)
LEMMA ThenCursorFocusAims ==
    ASSUME NEW o, At(o), InStep, Around', NEW k, Aims(k, workspace_views'[o], o),
           k.mode = "normal" => mode # "lock",
           NEW p \in Pointer, NEW j \in CursorFocus(k, p, After)
    PROVE  Aims(j, workspace_views'[o], o) /\ j.mode = k.mode
<1>1. After.views[o] = workspace_views'[o] /\ o \in Workspace /\ p \in {o, NULL}
  BY DEF After, Screen, At
<1>2. k.mode = "normal" => Clear(After, o)
  BY AfterIsClear
<1> QED
  BY <1>1, <1>2, CursorFocusAims

(* A dialogue that ends after the lists changed.                           *)
LEMMA ThenNormalModeAims ==
    ASSUME NEW o, At(o), InStep, Around', mode # "lock", NEW k, Aims(k, workspace_views'[o], o),
           NEW p \in Pointer, NEW j \in EnterNormalMode(k, p, After)
    PROVE  Aims(j, workspace_views'[o], o) /\ j.mode = "normal"
<1>1. After.views[o] = workspace_views'[o] /\ o \in Workspace /\ p \in {o, NULL}
  BY DEF After, Screen, At
<1> QED
  BY <1>1, AfterIsClear, EnterNormalModeAims

(* map_handler() lists a view, and the focus may go to it.                 *)
LEMMA MapAims ==
    ASSUME NEW o, At(o), NEW v \in View, NEW c \in ViewConfig, NEW p \in Pointer, Map(v, c, p)
    PROVE  Aimed(o)'
<1>1. Agreed /\ Base /\ o \in Workspace /\ Aims(Focus("none"), workspace_views[o], o)
  BY DEF At, Agreed
<1>2. InStep /\ Around'
  BY <1>1, MapFollows, MapKept
<1>3. workspace_views[o] \subseteq workspace_views'[o]
  BY <1>1 DEF Map, Relist, Agreed, ListsFollowFlags, Listed
<1>4. CASE \E k \in CursorFocus(Focus("none"), p, After) : Refocus(k)
  BY <1>1, <1>2, <1>3, <1>4, AimsHigher, ThenCursorFocusAims, FocusLands DEF Focus
<1>5. CASE UNCHANGED focus
  BY <1>3, <1>5, FocusStays DEF focus, At, Aimed
<1> QED
  BY <1>4, <1>5 DEF Map

(* commit_handler() raises or lists the view and unlists none.             *)
LEMMA CommitAims ==
    ASSUME NEW o, At(o), NEW v \in View, NEW center \in BOOLEAN, NEW p \in Pointer,
           Commit(v, center, p)
    PROVE  Aimed(o)'
<1>1. Agreed /\ Base /\ o \in Workspace /\ Aims(Focus("none"), workspace_views[o], o)
  BY DEF At, Agreed
<1>2. InStep /\ Around'
  BY <1>1, CommitFollows, CommitKept
<1>3. workspace_views[o] \subseteq workspace_views'[o]
  <2>1. PICK placed : /\ Relist({}, placed, view_sheet, view_group) /\ placed \subseteq {v}
    BY DEF Commit
  <2>2. v \in mapped
    BY <1>1 DEF Commit, Base, Around, UnmappedAtRest
  <2> QED
    BY <1>1, <2>1, <2>2 DEF Relist, At, OnWorkspace
<1>4. CASE \E k \in CursorFocus(Focus("none"), p, After) : Refocus(k)
  BY <1>1, <1>2, <1>3, <1>4, AimsHigher, ThenCursorFocusAims, FocusLands DEF Focus
<1>5. CASE UNCHANGED focus
  BY <1>3, <1>5, FocusStays DEF focus, At, Aimed
<1> QED
  BY <1>4, <1>5 DEF Commit

(* unmap_handler() takes the focus off the view before it leaves the       *)
(* lists.                                                                  *)
LEMMA UnmapAims ==
    ASSUME NEW o, At(o), NEW v \in View, NEW p \in Pointer, Unmap(v, p)
    PROVE  Aimed(o)'
<1>1. /\ Agreed /\ Base /\ o \in Workspace /\ v \in mapped /\ p \in {o, NULL}
      /\ view_sheet[v][1] = o
  BY DEF At, Agreed, Unmap
<1>2. InStep /\ Around'
  BY <1>1, UnmapFollows, UnmapKept
<1>3. workspace_views[o] \ {v} \subseteq workspace_views'[o]
  BY <1>1 DEF Unmap, Relist, lists
<1>4. CASE UNCHANGED focus /\ (v \in hidden \/ v \in forced)
  <2>1. mode # "lock" => v \notin workspace_views[o]
    BY <1>4 DEF At
  <2> QED
    BY <1>3, <1>4, <2>1, FocusStays DEF focus, At, Aimed
<1>5. CASE v \notin hidden /\ v \notin forced
  <2>1. PICK l \in ClearFocus(Focus("none"), v, p, Before) :
           \E k \in CursorFocus(l, p, After) : Refocus(k)
    BY <1>5 DEF Unmap, CursorFocusAll
  <2>2. Aims(l, workspace_views[o] \ {v}, o) /\ (l.mode = "normal" => mode # "lock")
    <3>1. CASE mode # "lock"
      BY <1>1, <2>1, <3>1, ClearFocusAims
    <3>2. CASE mode = "lock"
      <4>1. focus_view[o] = NULL /\ NULL \notin View
        BY <3>2, NamesAssumption DEF At
      <4>2. l = Focus("none")
        BY <1>1, <2>1, <4>1 DEF ClearFocus, Focus
      <4> QED
        BY <3>2, <4>1, <4>2 DEF At, Aims, Focus
    <3> QED
      BY <3>1, <3>2
  <2>3. Aims(l, workspace_views'[o], o)
    BY <1>3, <2>2, AimsHigher
  <2> QED
    BY <1>2, <2>1, <2>2, <2>3, ThenCursorFocusAims, FocusLands
<1> QED
  BY <1>4, <1>5 DEF Unmap

(* The request of a task bar, on the screen that is not locked.            *)
LEMMA RequestMinimizeAims ==
    ASSUME NEW o, At(o), mode # "lock", NEW v \in View, NEW p \in Pointer, RequestMinimize(v, p)
    PROVE  Aimed(o)'
<1>1. v \in mapped /\ p \in {o, NULL} /\ Failed({v}, {}) = "none" /\ o \in Workspace
  BY DEF At, RequestMinimize, Failed
<1>2. workspace_views[o] \ {v} \subseteq workspace_views'[o]
  BY <1>1 DEF RequestMinimize, HideAndShow, Relist
<1>3. PICK k \in ClearFocus(Focus("none"), v, p, Before) : Refocus(k)
  BY <1>1 DEF RequestMinimize
<1> QED
  BY <1>1, <1>2, <1>3, ClearFocusAims, FocusLands

(* On the lock screen nobody has the focus, and the assertion may fail.    *)
LEMMA MinimizedWhileLocked ==
    ASSUME NEW o, At(o), mode = "lock", NEW v \in View, NEW p \in Pointer, RequestMinimize(v, p)
    PROVE  /\ mode' = "lock" /\ workspace' = o /\ focus_view'[o] = NULL
           /\ aborted' \in {"none", "view_state"}
<1>1. v \in mapped /\ view_sheet[v][1] = o /\ focus_view[o] = NULL /\ NULL \notin View
      /\ workspace = o
  BY NamesAssumption DEF At, RequestMinimize, Aimed
<1>2. PICK k \in ClearFocus(Focus(Failed({v}, {})), v, p, Before) : Refocus(k)
  BY DEF RequestMinimize
<1>3. k = Focus(Failed({v}, {}))
  BY <1>1, <1>2 DEF ClearFocus, Focus
<1> QED
  BY <1>1, <1>2, <1>3 DEF Refocus, Focus, Failed

-----------------------------------------------------------------------------
(* What the user hides and shows.                                          *)

(* Views that are listed can be hidden, and hidden ones shown.             *)
LEMMA NothingFails ==
    ASSUME NEW o, At(o), mode # "lock", NEW gone, gone \subseteq Listed, NEW shown
    PROVE  Failed(gone, shown) = "none"
BY DEF At, Failed

(* What the list of the workspace holds after views were hidden and        *)
(* shown.                                                                  *)
LEMMA HideAndShowViews ==
    ASSUME NEW o, At(o), mode # "lock", NEW gone, gone \subseteq Listed,
           NEW shown, shown \subseteq mapped, HideAndShow(gone, shown)
    PROVE  workspace_views'[o] = (workspace_views[o] \ gone) \cup shown
<1>1. Relist(gone, shown, view_sheet, view_group) /\ o \in Workspace
  BY NothingFails DEF HideAndShow, At
<1>2. \A v \in shown : IsLive(view_sheet[v]) /\ view_sheet[v][1] = o
  BY DEF At, OnWorkspace
<1> QED
  BY <1>1, <1>2 DEF Relist

(* hikari_workspace_clear() takes the focus off everything, so that the    *)
(* two cursor_focus() that follow find no view or one that is shown.       *)
LEMMA CursorFocusTwiceAims ==
    ASSUME NEW o, At(o), mode # "lock", InStep, Around',
           NEW shown, shown \subseteq mapped, ClearAndShow(o, shown),
           NEW K, \A k \in K : Aims(k, workspace_views[o], o) /\ k.mode = "normal",
           NEW p \in Pointer, NEW j \in CursorFocusTwice(K, o, shown, p)
    PROVE  Aims(j, workspace_views'[o], o) /\ j.mode = "normal"
<1> DEFINE gone == workspace_views[o]
           more == shown \cap (hidden \cup gone)
           failed(k) == IF k.aborted = "none" THEN [k EXCEPT !.aborted = Failed(gone, more)] ELSE k
<1>1. gone = Listed /\ Failed(gone, more) = "none" /\ o \in Workspace /\ p \in {o, NULL}
  BY NothingFails DEF At
<1>2. j \in CursorFocusAll(CursorFocusAll({Unfocus(failed(k), gone) : k \in K}, p, Cleared(gone)),
                           p, After)
  BY DEF CursorFocusTwice
<1>3. PICK k \in K : \E i \in CursorFocus(Unfocus(failed(k), gone), p, Cleared(gone)) :
                        j \in CursorFocus(i, p, After)
  BY <1>2 DEF CursorFocusAll
<1>4. failed(k) = k
  BY <1>1 DEF Aims, Outcome
<1>5. PICK i \in CursorFocus(Unfocus(k, gone), p, Cleared(gone)) : j \in CursorFocus(i, p, After)
  BY <1>3, <1>4
<1> HIDE DEF gone, failed
<1>6. Aims(Unfocus(k, gone), {}, o) /\ Unfocus(k, gone).mode = "normal"
  <2>1. \A v \in gone : view_sheet[v][1] = o
    BY <1>1 DEF At
  <2>2. Aims(Unfocus(k, gone), gone \ gone, o) /\ Unfocus(k, gone).mode = "normal"
    BY <1>1, <1>3, <2>1, UnfocusAims DEF gone
  <2>3. gone \ gone = {}
    OBVIOUS
  <2> QED
    BY <2>2, <2>3
<1>7. Cleared(gone).views[o] = {} /\ Clear(Cleared(gone), o)
  <2>1. Cleared(gone).views[o] = {}
    BY <1>1 DEF Cleared, Screen, gone
  <2>2. hidden \cup gone \subseteq View
    BY <1>1 DEF At, Clear, Before, Screen
  <2> QED
    BY <2>1, <2>2 DEF Clear, Cleared, Screen
<1>8. Aims(i, {}, o) /\ i.mode = "normal"
  <2> DEFINE s == Cleared(gone)
             u == Unfocus(k, gone)
  <2>1. Aims(u, s.views[o], o) /\ Clear(s, o) /\ u.mode = "normal"
    BY <1>6, <1>7
  <2>2. i \in CursorFocus(u, p, s)
    BY <1>5
  <2> HIDE DEF s, u
  <2>3. Aims(i, s.views[o], o) /\ i.mode = u.mode
    BY <1>1, <2>1, <2>2, CursorFocusAims
  <2> QED
    BY <1>7, <2>1, <2>3 DEF s
<1>9. Aims(i, workspace_views'[o], o)
  BY <1>8, AimsHigher
<1> QED
  BY <1>5, <1>8, <1>9, ThenCursorFocusAims

(* hikari_workspace_clear(), then views are shown.                         *)
LEMMA ClearAndShowAims ==
    ASSUME NEW o, At(o), Acting, Around', NEW p \in Pointer,
           NEW shown, shown \subseteq mapped, ClearAndShow(workspace, shown), VisibilityOnly,
           NEW j \in CursorFocusTwice({Focus("none")}, workspace, shown, p), Refocus(j)
    PROVE  Aimed(o)'
<1>1. mode # "lock" /\ workspace = o /\ Agreed
  BY DEF At, Acting, Aimed
<1>2. shown \cap (hidden \cup workspace_views[o]) \subseteq mapped
  OBVIOUS
<1>3. InStep
  BY <1>1, <1>2, VisibilityFollows DEF ClearAndShow
<1>4. \A k \in {Focus("none")} : Aims(k, workspace_views[o], o) /\ k.mode = "normal"
  BY DEF At, Acting, Focus
<1>5. Aims(j, workspace_views'[o], o)
  BY <1>1, <1>3, <1>4, CursorFocusTwiceAims
<1> QED
  BY <1>5, FocusLands

(* display_sheet, the show actions and clear.                              *)
LEMMA ShowingAims ==
    ASSUME NEW o, At(o), NEW p \in Pointer,
           \/ \E nr \in SheetNr : DisplaySheet(nr, p)
           \/ \E scope \in {"workspace", "sheet"}, what \in {"all", "invisible", "group"} :
                 ShowViews(scope, what, p)
           \/ WorkspaceClear(p)
    PROVE  Aimed(o)'
<1>1. Base
  BY DEF At, Agreed
<1>2. CASE \E nr \in SheetNr : DisplaySheet(nr, p)
  <2>1. PICK nr \in SheetNr : DisplaySheet(nr, p)
    BY <1>2
  <2>2. Around' /\ Displayed(workspace, nr) \subseteq mapped
    BY <1>1, <2>1, DisplaySheetKept, ShownAreMapped
  <2>3. PICK j \in CursorFocusTwice({Focus("none")}, workspace, Displayed(workspace, nr), p) :
           Refocus(j)
    BY <2>1 DEF DisplaySheet
  <2> QED
    BY <2>1, <2>2, <2>3, ClearAndShowAims DEF DisplaySheet
<1>3. CASE \E scope \in {"workspace", "sheet"}, what \in {"all", "invisible", "group"} :
              ShowViews(scope, what, p)
  <2>1. PICK scope \in {"workspace", "sheet"}, what \in {"all", "invisible", "group"} :
           ShowViews(scope, what, p)
    BY <1>3
  <2>2. Around' /\ Candidates(scope, what) \subseteq mapped
    BY <1>1, <2>1, ShowKept, ShownAreMapped
  <2>3. PICK j \in CursorFocusTwice({Focus("none")}, workspace, Candidates(scope, what), p) :
           Refocus(j)
    BY <2>1 DEF ShowViews
  <2> QED
    BY <2>1, <2>2, <2>3, ClearAndShowAims DEF ShowViews
<1>4. CASE WorkspaceClear(p)
  <2>1. Around'
    BY <1>1, <1>4, ClearKept
  <2>2. PICK j \in CursorFocusTwice({Focus("none")}, workspace, {}, p) : Refocus(j)
    BY <1>4 DEF WorkspaceClear
  <2> QED
    BY <1>4, <2>1, <2>2, ClearAndShowAims DEF WorkspaceClear
<1> QED
  BY <1>2, <1>3, <1>4

(* hikari_view_hide() of listed views.                                     *)
LEMMA HideViewsAims ==
    ASSUME NEW o, At(o), NEW gone, gone \subseteq Listed, NEW p \in Pointer, HideViews(gone, p)
    PROVE  Aimed(o)'
<1>1. /\ Base /\ Agreed /\ mode = "normal" /\ o \in Workspace
      /\ Aims(Focus("none"), workspace_views[o], o)
      /\ gone \in SUBSET View /\ (\A v \in gone : view_sheet[v][1] = o)
  BY DEF At, Agreed, HideViews, Acting
<1>2. InStep /\ Around'
  BY <1>1, HideViewsKept, VisibilityFollows DEF HideViews
<1>3. Failed(gone, {}) = "none" /\ workspace_views[o] \ gone \subseteq workspace_views'[o]
  BY <1>1, NothingFails, HideAndShowViews DEF HideViews
<1>4. PICK k \in CursorFocus(Unfocus(Focus("none"), gone), p, After) : Refocus(k)
  BY <1>3 DEF HideViews
<1>5. Focus("none").mode = "normal"
  BY <1>1 DEF Focus
<1>6. /\ Aims(Unfocus(Focus("none"), gone), workspace_views[o] \ gone, o)
      /\ Unfocus(Focus("none"), gone).mode = "normal"
  BY <1>1, <1>5, UnfocusAims
<1>7. Aims(Unfocus(Focus("none"), gone), workspace_views'[o], o)
  BY <1>3, <1>6, AimsHigher
<1>8. Aims(k, workspace_views'[o], o)
  BY <1>1, <1>2, <1>4, <1>6, <1>7, ThenCursorFocusAims
<1> QED
  BY <1>4, <1>8, FocusLands

(* hide_view, only_view and hide_group: all of the views are listed.       *)
LEMMA HidingAims ==
    ASSUME NEW o, At(o), NEW p \in Pointer, HideView(p) \/ OnlyView(p) \/ HideGroup(p)
    PROVE  Aimed(o)'
<1>1. workspace = o /\ workspace_views[o] = Listed /\ ListsFollowFlags
  BY DEF At, Aimed, Agreed
<1>2. HasFocus => FOCUS \in Listed
  BY <1>1, NamesAssumption DEF At, Aimed, FOCUS, HasFocus
<1>3. \A g \in Group : visible_group_views[g] \subseteq Listed
  BY <1>1 DEF ListsFollowFlags
<1>4. CASE HideView(p)
  BY <1>2, <1>4, HideViewsAims DEF HideView, HideViews
<1>5. CASE OnlyView(p)
  BY <1>1, <1>5, HideViewsAims DEF OnlyView
<1>6. CASE HideGroup(p)
  BY <1>3, <1>6, HideViewsAims DEF HideGroup
<1> QED
  BY <1>4, <1>5, <1>6

(* hikari_server_only_group() clears the workspace before it shows the     *)
(* group.                                                                  *)
LEMMA OnlyGroupAims ==
    ASSUME NEW o, At(o), NEW first \in Pointer, NEW p \in Pointer, OnlyGroup(first, p)
    PROVE  Aimed(o)'
<1> DEFINE gone == UNION {workspace_views[w] : w \in outputs}
           members == {v \in mapped : view_group[v] = view_group[FOCUS]}
           absent == members \cap (hidden \cup gone)
           views == workspace_views[first]
           started == IF outputs = {} THEN {Focus("none")}
                      ELSE CursorFocus(Unfocus(Focus("none"), views), p, Cleared(views))
           record(j, f) == [Unfocus(j, gone) EXCEPT !.aborted = IF @ = "none" THEN f ELSE @]
<1>1. PICK shown \in IF absent = members THEN {members} ELSE SUBSET absent :
         /\ HideAndShow(gone, shown)
         /\ \E k \in CursorFocusAll({record(j, Failed(gone, shown)) : j \in started}, p, After) :
               Refocus(k)
  BY DEF OnlyGroup
<1>2. /\ Base /\ Agreed /\ mode = "normal" /\ o \in Workspace /\ p \in {o, NULL}
      /\ outputs # {} /\ gone = workspace_views[o] /\ first = o /\ gone = Listed
      /\ shown \subseteq mapped /\ VisibilityOnly
  BY <1>1 DEF At, Agreed, OnlyGroup, Acting
<1>3. Aims(Focus("none"), gone, o) /\ Focus("none").mode = "normal"
  BY <1>2 DEF At, Focus
<1>4. \A v \in gone : view_sheet[v][1] = o
  BY <1>2 DEF At
<1>5. Failed(gone, shown) = "none"
  BY <1>2, NothingFails
<1>6. InStep
  BY <1>1, <1>2, VisibilityFollows
<1>7. Around'
  BY <1>2, OnlyGroupKept
<1>8. PICK j \in started :
         \E k \in CursorFocus(record(j, Failed(gone, shown)), p, After) : Refocus(k)
  <2> DEFINE all == {record(j, Failed(gone, shown)) : j \in started}
  <2>1. PICK k \in CursorFocusAll(all, p, After) : Refocus(k)
    BY <1>1
  <2>2. PICK f \in all : k \in CursorFocus(f, p, After)
    <3> HIDE DEF all
    <3> QED
      BY <2>1 DEF CursorFocusAll
  <2>3. PICK j \in started : f = record(j, Failed(gone, shown))
    <3> HIDE DEF gone, started, record
    <3> QED
      BY <2>2
  <2> HIDE DEF gone, started, record, all
  <2> QED
    BY <2>1, <2>2, <2>3
<1>9. j \in CursorFocus(Unfocus(Focus("none"), gone), p, Cleared(gone))
  BY <1>2, <1>8
<1> HIDE DEF gone, started, record
<1>10. Aims(Unfocus(Focus("none"), gone), {}, o) /\ Unfocus(Focus("none"), gone).mode = "normal"
  <2>1. gone \ gone = {}
    OBVIOUS
  <2>2. /\ Aims(Unfocus(Focus("none"), gone), gone \ gone, o)
        /\ Unfocus(Focus("none"), gone).mode = "normal"
    BY <1>2, <1>3, <1>4, UnfocusAims
  <2> QED
    BY <2>1, <2>2
<1>11. Aims(j, {}, o) /\ j.mode = "normal"
  <2> DEFINE s == Cleared(gone)
             u == Unfocus(Focus("none"), gone)
  <2>1. s.views[o] = {}
    BY <1>2 DEF Cleared, Screen
  <2>2. hidden \cup gone \subseteq View
    BY <1>2 DEF At, Clear, Before, Screen
  <2>3. Aims(u, s.views[o], o) /\ Clear(s, o) /\ u.mode = "normal" /\ j \in CursorFocus(u, p, s)
    BY <1>9, <1>10, <2>1, <2>2 DEF Clear, Cleared, Screen
  <2> HIDE DEF s, u
  <2>4. Aims(j, s.views[o], o) /\ j.mode = u.mode
    BY <1>2, <2>3, CursorFocusAims
  <2> QED
    BY <2>1, <2>3, <2>4
<1>12. Aims(Unfocus(j, gone), {}, o) /\ Unfocus(j, gone).mode = "normal"
  <2>1. {} \ gone = {} /\ gone \cap {} = {}
    OBVIOUS
  <2>2. Aims(Unfocus(j, gone), {} \ gone, o) /\ Unfocus(j, gone).mode = "normal"
    BY <1>2, <1>11, <2>1, UnfocusAims
  <2> QED
    BY <2>1, <2>2
<1>13. record(j, Failed(gone, shown)) = Unfocus(j, gone)
  BY <1>5, <1>12 DEF Aims, Outcome, record
<1>14. Aims(Unfocus(j, gone), workspace_views'[o], o)
  BY <1>12, AimsHigher
<1>15. PICK k \in CursorFocus(Unfocus(j, gone), p, After) : Refocus(k)
  BY <1>8, <1>13
<1>16. Aims(k, workspace_views'[o], o)
  BY <1>2, <1>6, <1>7, <1>12, <1>14, <1>15, ThenCursorFocusAims
<1> QED
  BY <1>15, <1>16, FocusLands

-----------------------------------------------------------------------------
(* The keys of the marks.                                                  *)

(* The key of a mark ends the mark select mode first.                      *)
LEMMA MarkKeyAims ==
    ASSUME NEW o, At(o), mode \in {"normal", "select"}, NEW p \in Pointer, NEW j \in MarkKey(p)
    PROVE  Aims(j, workspace_views[o], o) /\ j.mode = "normal"
<1>1. /\ Aims(Focus("none"), Before.views[o], o) /\ Clear(Before, o) /\ o \in Workspace
      /\ p \in {o, NULL} /\ Before.views[o] = workspace_views[o]
  BY DEF At, Before, Screen
<1>2. \A k \in EnterNormalMode(Focus("none"), p, Before) :
         Aims(k, Before.views[o], o) /\ k.mode = "normal"
  BY <1>1, EnterNormalModeAims
<1> QED
  BY <1>1, <1>2 DEF MarkKey, Focus

(* hikari_server_show_mark() shows the marked view if it was hidden.       *)
LEMMA ShowMarkAims ==
    ASSUME NEW o, At(o), NEW m \in Mark, NEW p \in Pointer, NEW q \in Pointer, ShowMark(m, p, q)
    PROVE  Aimed(o)'
<1> DEFINE shown == {mark_view[m]} \cap hidden
           record(j, f) == [j EXCEPT !.aborted = IF @ = "none" THEN f ELSE @]
<1>1. /\ Base /\ Agreed /\ mode \in {"normal", "select"} /\ VisibilityOnly
      /\ HideAndShow({}, shown) /\ {} \subseteq Listed
  BY DEF At, Agreed, ShowMark
<1>2. shown \subseteq mapped
  BY <1>1, MarkedIsMapped DEF ShowMark, Base
<1>3. Failed({}, shown) = "none"
  BY <1>1, NothingFails
<1>4. PICK j \in MarkKey(p) :
         \E k \in CursorFocus(record(j, Failed({}, shown)), q, After) : Refocus(k)
  BY DEF ShowMark, CursorFocusAll
<1>5. InStep
  BY <1>1, <1>2, VisibilityFollows
<1>6. Around'
  BY <1>1, ShowMarkKept
<1>7. workspace_views[o] \subseteq workspace_views'[o]
  BY <1>1, <1>2, HideAndShowViews
<1>8. Aims(j, workspace_views[o], o) /\ j.mode = "normal"
  BY <1>1, <1>4, MarkKeyAims
<1>9. Aims(j, workspace_views'[o], o)
  BY <1>7, <1>8, AimsHigher
<1>10. record(j, Failed({}, shown)) = j
  BY <1>3, <1>8 DEF Aims, Outcome
<1>11. PICK k \in CursorFocus(j, q, After) : Refocus(k)
  BY <1>4, <1>10
<1>12. Aims(k, workspace_views'[o], o)
  BY <1>1, <1>5, <1>6, <1>8, <1>9, <1>11, ThenCursorFocusAims
<1> QED
  BY <1>11, <1>12, FocusLands

(* hikari_server_switch_to_mark() displays the sheet of the marked view.   *)
LEMMA SwitchToMarkAims ==
    ASSUME NEW o, At(o), NEW m \in Mark, NEW p \in Pointer, NEW q \in Pointer,
           SwitchToMark(m, p, q)
    PROVE  Aimed(o)'
<1> DEFINE v == mark_view[m]
           nr == view_sheet[v][2]
           shown == Displayed(view_sheet[v][1], nr) \cup {v}
<1>1. /\ Base /\ Agreed /\ mode \in {"normal", "select"} /\ VisibilityOnly
      /\ ClearAndShow(view_sheet[v][1], shown)
  BY DEF At, Agreed, SwitchToMark
<1>2. v \in mapped
  BY <1>1, MarkedIsMapped DEF SwitchToMark, Base
<1>3. view_sheet[v][1] = o
  BY <1>2 DEF At
<1>4. shown \subseteq mapped
  BY <1>2 DEF Displayed, SheetViews
<1>5. PICK j \in CursorFocusTwice(MarkKey(p), view_sheet[v][1], shown, p) :
         \E k \in CursorFocus(j, q, After) : Refocus(k)
  BY DEF SwitchToMark, CursorFocusAll
<1>6. Around'
  BY <1>1, SwitchToMarkKept
<1>7. ClearAndShow(o, shown) /\ j \in CursorFocusTwice(MarkKey(p), o, shown, p)
  BY <1>1, <1>3, <1>5
<1> HIDE DEF shown
<1>8. InStep
  <2>1. shown \cap (hidden \cup workspace_views[o]) \subseteq mapped
    BY <1>4
  <2> QED
    BY <1>1, <1>7, <2>1, VisibilityFollows DEF ClearAndShow
<1>9. \A k \in MarkKey(p) : Aims(k, workspace_views[o], o) /\ k.mode = "normal"
  BY <1>1, MarkKeyAims
<1>10. Aims(j, workspace_views'[o], o) /\ j.mode = "normal"
  BY <1>1, <1>4, <1>6, <1>7, <1>8, <1>9, CursorFocusTwiceAims
<1>11. PICK k \in CursorFocus(j, q, After) : Refocus(k)
  BY <1>5
<1>12. Aims(k, workspace_views'[o], o)
  BY <1>1, <1>6, <1>8, <1>10, <1>11, ThenCursorFocusAims
<1> QED
  BY <1>11, <1>12, FocusLands

-----------------------------------------------------------------------------
(* The focus view goes to another sheet or into another group.             *)

(* A focus view that is mapped is shown, so that place_visibly_above()     *)
(* and hikari_view_hide() may be called for it.                            *)
LEMMA FocusIsShown ==
    ASSUME NEW o, At(o), mode # "lock", HasFocus
    PROVE  /\ FOCUS \in mapped /\ FOCUS \in View /\ FOCUS \in Listed /\ Failed({FOCUS}, {}) = "none"
           /\ \A w : OnWorkspace(FOCUS, w) <=> w = o
<1>1. FOCUS \in mapped /\ FOCUS \in View /\ OnWorkspace(FOCUS, o) /\ FOCUS # NULL
  BY NamesAssumption DEF At, HasFocus
<1>2. FOCUS \in Listed
  BY <1>1 DEF At, Aimed, FOCUS
<1> QED
  BY <1>1, <1>2, NothingFails DEF OnWorkspace, Failed, At

(* hikari_view_pin_to_sheet() of the focus view keeps it in the list, or   *)
(* takes its focus away before it hides it.                                *)
LEMMA PinAims ==
    ASSUME NEW o, At(o), mode # "lock", HasFocus, NEW s \in Sheet, s[1] = o, NEW p \in Pointer,
           Pin(FOCUS, s), UNCHANGED <<mapped, forced, view_group>>, Around',
           NEW k \in PinFocus(FOCUS, s, p)
    PROVE  /\ InStep /\ Aims(k, workspace_views'[o], o)
           /\ k.mode \in {mode, "normal"}
<1>1. /\ FOCUS \in mapped /\ FOCUS \in View /\ FOCUS \in Listed /\ Failed({FOCUS}, {}) = "none"
      /\ OnWorkspace(FOCUS, s[1])
  BY FocusIsShown
<1>2. /\ Agreed /\ Aims(Focus("none"), workspace_views[o], o) /\ o \in Workspace
      /\ p \in {o, NULL} /\ Focus("none").mode = mode
  BY DEF At, Focus
<1>3. InStep
  BY <1>1, <1>2, PinFollows
<1>4. CASE SheetIsVisible(s)
  <2>1. k = Focus("none")
    BY <1>1, <1>4 DEF PinFocus
  <2>2. Relist({}, {FOCUS}, view_sheet', view_group) /\ view_sheet'[FOCUS] = s
    BY <1>1, <1>2, <1>4 DEF Pin, Place, Agreed, Base, Around, ViewType
  <2>3. workspace_views[o] \subseteq workspace_views'[o]
    BY <1>2, <2>2 DEF Relist, IsLive
  <2> QED
    BY <1>2, <1>3, <2>1, <2>3, AimsHigher
<1>5. CASE ~SheetIsVisible(s)
  <2>1. PICK l \in ClearFocus(Focus("none"), FOCUS, p, Before) : k \in CursorFocus(l, p, After)
    BY <1>1, <1>5 DEF PinFocus, CursorFocusAll
  <2>2. Relist({FOCUS}, {}, view_sheet, view_group)
    BY <1>1, <1>5 DEF Pin, HideAndShow
  <2>3. workspace_views[o] \ {FOCUS} \subseteq workspace_views'[o]
    BY <1>2, <2>2 DEF Relist
  <2>4. Aims(l, workspace_views[o] \ {FOCUS}, o) /\ l.mode \in {mode, "normal"}
    BY <1>1, <1>2, <2>1, ClearFocusAims
  <2>5. Aims(l, workspace_views'[o], o)
    BY <2>3, <2>4, AimsHigher
  <2>6. Aims(k, workspace_views'[o], o) /\ k.mode = l.mode
    BY <1>3, <2>1, <2>5, ThenCursorFocusAims
  <2> QED
    BY <1>3, <2>4, <2>6
<1> QED
  BY <1>4, <1>5

(* The action that pins the focus view.                                    *)
LEMMA PinToSheetAims ==
    ASSUME NEW o, At(o), NEW nr \in SheetNr, NEW p \in Pointer, PinToSheet(nr, p)
    PROVE  Aimed(o)'
<1>1. /\ Base /\ mode # "lock" /\ HasFocus /\ workspace = o
      /\ <<workspace, nr>> \in Sheet /\ <<workspace, nr>>[1] = o
  BY DEF At, Agreed, Aimed, PinToSheet, Acting, Sheet
<1>2. Around'
  BY <1>1, PinToSheetKept
<1>3. PICK k \in PinFocus(FOCUS, <<workspace, nr>>, p) : Refocus(k)
  BY DEF PinToSheet
<1>4. Pin(FOCUS, <<workspace, nr>>) /\ UNCHANGED <<mapped, forced, view_group>>
  BY DEF PinToSheet
<1> DEFINE s == <<workspace, nr>>
<1>5. s \in Sheet /\ s[1] = o /\ Pin(FOCUS, s) /\ k \in PinFocus(FOCUS, s, p)
  BY <1>1, <1>3, <1>4
<1> HIDE DEF s
<1>6. Aims(k, workspace_views'[o], o)
  BY <1>1, <1>2, <1>4, <1>5, PinAims
<1> QED
  BY <1>3, <1>6, FocusLands

(* confirm_sheet_assign(): the sheet can only be one of the same output.   *)
LEMMA AssignSheetAims ==
    ASSUME NEW o, At(o), NEW s \in Sheet, NEW p \in Pointer, AssignSheet(s, p)
    PROVE  Aimed(o)'
<1>1. Base /\ mode # "lock" /\ HasFocus /\ s[1] = o
  BY DEF At, Agreed, Aimed, AssignSheet
<1>2. Around'
  BY <1>1, AssignSheetKept
<1>3. OnWorkspace(FOCUS, s[1])
  BY <1>1, FocusIsShown
<1>4. Pin(FOCUS, s) /\ UNCHANGED <<mapped, forced, view_group>>
  BY <1>3 DEF AssignSheet
<1>5. PICK j \in PinFocus(FOCUS, s, p) : \E k \in EnterNormalMode(j, p, After) : Refocus(k)
  BY <1>3 DEF AssignSheet
<1>6. InStep /\ Aims(j, workspace_views'[o], o)
  BY <1>1, <1>2, <1>4, <1>5, PinAims
<1>7. PICK k \in EnterNormalMode(j, p, After) : Refocus(k)
  BY <1>5
<1>8. Aims(k, workspace_views'[o], o)
  BY <1>1, <1>2, <1>6, <1>7, ThenNormalModeAims
<1> QED
  BY <1>7, <1>8, FocusLands

(* confirm_group_assign() raises the view in its new group.                *)
LEMMA AssignGroupAims ==
    ASSUME NEW o, At(o), NEW g \in Group, NEW p \in Pointer, AssignGroup(g, p)
    PROVE  Aimed(o)'
<1>1. /\ Base /\ Agreed /\ mode = "assign" /\ HasFocus /\ ~Lock /\ ~Unlock(p)
      /\ Aims(Focus("none"), workspace_views[o], o) /\ o \in Workspace /\ Running
  BY DEF At, Agreed, AssignGroup, Lock, Unlock, Acting
<1>2. /\ FOCUS \in mapped /\ Failed({FOCUS}, {}) = "none"
      /\ IsLive(view_sheet[FOCUS]) /\ view_sheet[FOCUS][1] = o
  BY <1>1, FocusIsShown DEF OnWorkspace
<1>3. Around'
  BY <1>1, AssignGroupKept
<1>4. workspace_views[o] \subseteq workspace_views'[o]
  <2>1. UNCHANGED lists \/ Place(FOCUS, view_sheet, view_group')
    BY DEF AssignGroup
  <2> QED
    BY <1>1, <1>2, <2>1 DEF Place, Relist, lists
<1>5. PICK k \in EnterNormalMode(Focus("none"), p, After) : Refocus(k)
  BY <1>2 DEF AssignGroup
<1>6. Aims(Focus("none"), workspace_views'[o], o)
  BY <1>1, <1>4, AimsHigher
<1>7. InStep
  <2>1. CASE view_group[FOCUS] = g
    <3>1. UNCHANGED <<lists, mapped, hidden, forced, view_sheet, view_group>>
      BY <1>1, <2>1 DEF AssignGroup, Agreed, Base, Around, ViewType
    <3> QED
      BY <1>1, <3>1, StillFollows DEF Agreed
  <2>2. CASE view_group[FOCUS] # g
    <3>1. /\ Place(FOCUS, view_sheet, view_group') /\ UNCHANGED <<mapped, hidden, forced>>
          /\ view_sheet'[FOCUS] = view_sheet[FOCUS] /\ view_group'[FOCUS] = view_group'[FOCUS]
          /\ \A u \in mapped \ {FOCUS} : SamePlace(u)
      BY <1>1, <2>2 DEF AssignGroup, SamePlace, Agreed, Base, Around, ViewType
    <3> QED
      BY <1>1, <1>2, <3>1, PlaceFollows DEF InStep, Agreed
  <2> QED
    BY <2>1, <2>2
<1>8. Aims(k, workspace_views'[o], o)
  BY <1>1, <1>3, <1>5, <1>6, <1>7, ThenNormalModeAims
<1> QED
  BY <1>5, <1>8, FocusLands

(* The password was right: what is listed is shown again.                  *)
LEMMA UnlockAims ==
    ASSUME NEW o, At(o), OnlyOutput(o), NEW p \in Pointer, Unlock(p)
    PROVE  Aimed(o)'
<1>1. /\ Agreed /\ Base /\ Staying # {} /\ o \in Workspace /\ p \in {o, NULL}
      /\ Aims(Focus("none"), workspace_views[o], o)
  BY DEF At, Agreed, OnlyOutput, Staying
<1>2. ListsFollowFlags' /\ forced' = {} /\ UNCHANGED lists /\ Around'
  BY <1>1, UnlockFollows, UnlockKept
<1>3. After.views[o] = workspace_views[o] /\ workspace_views' = workspace_views
  BY <1>2 DEF After, Screen, lists
<1>4. Clear(After, o)
  BY <1>1, <1>2 DEF Clear, After, Screen, ListsFollowFlags, Listed, Around, ViewType
<1>5. PICK k \in EnterNormalMode(Focus("none"), p, After) : Refocus(k)
  BY DEF Unlock
<1>6. Aims(k, After.views[o], o)
  BY <1>1, <1>3, <1>4, <1>5, EnterNormalModeAims
<1> QED
  BY <1>3, <1>5, <1>6, FocusLands

-----------------------------------------------------------------------------
(* The whole of Desktop on one output.                                     *)

(* No handler puts a view on a freed sheet, as long as no output goes.     *)
LEMMA NothingIsFreed ==
    ASSUME NEW o, OnlyOutput(o), At(o), [Next]_vars
    PROVE  NoneFreed'
<1>1. ASSUME \A v \in View : view_sheet'[v] \in {view_sheet[v], NULL} \cup Sheet PROVE NoneFreed'
  BY <1>1, NamesAssumption DEF At, NoneFreed
<1>2. view_sheet \in [View -> Sheet \cup {NULL, Freed}] /\ mapped \subseteq View
  BY DEF At, Agreed, Base, Around, ViewType
<1>3. CASE UNCHANGED view_sheet
  BY <1>1, <1>3
<1>4. ASSUME NEW v \in View, NEW c \in ViewConfig, NEW p \in Pointer, Map(v, c, p) PROVE NoneFreed'
  <2>1. IF c.sheet = NULL THEN current_sheet[workspace] \in SheetNr ELSE c.sheet \in SheetNr
    BY NamesAssumption DEF Config, At, Aimed, Agreed, Base, Around, ScreenType
  <2>2. <<workspace, IF c.sheet = NULL THEN current_sheet[workspace] ELSE c.sheet>> \in Sheet
    BY <2>1 DEF At, Aimed, Sheet
  <2> QED
    BY <1>1, <1>2, <1>4, <2>2 DEF Map, Configure
<1>5. ASSUME NEW v \in View, Destroy(v) PROVE NoneFreed'
  BY <1>1, <1>2, <1>5 DEF Destroy
<1>6. ASSUME NEW s \in Sheet, HasFocus, Pin(FOCUS, s) PROVE NoneFreed'
  BY <1>1, <1>2, <1>6 DEF Pin
<1>7. ASSUME NEW p \in Pointer, ClientNext(p) PROVE NoneFreed'
  <2>1. \/ \E v \in View, c \in ViewConfig : Map(v, c, p)
        \/ \E v \in View : Destroy(v)
        \/ UNCHANGED view_sheet
    BY <1>7 DEF ClientNext, MapOnFreedSheet, Unmap, RequestMinimize, RequestActivate,
                QueueOperation, Commit, FocusOnly, VisibilityOnly
  <2> QED
    BY <1>3, <1>4, <1>5, <2>1
<1>8. ASSUME NEW p \in Pointer, UserNext(p) PROVE NoneFreed'
  <2>1. CASE \E nr \in SheetNr : PinToSheet(nr, p)
    <3>1. PICK nr \in SheetNr : HasFocus /\ Pin(FOCUS, <<workspace, nr>>)
      BY <2>1 DEF PinToSheet
    <3>2. <<workspace, nr>> \in Sheet
      BY DEF At, Aimed, Sheet
    <3> QED
      BY <1>6, <3>1, <3>2
  <2>2. CASE ~(\E nr \in SheetNr : PinToSheet(nr, p))
    <3>1. \A w \in Output : ~MoveToOutput(w)
      BY NotWithOneOutput
    <3>2. UNCHANGED view_sheet
      BY <1>8, <2>2, <3>1
         DEF UserNext, PointerMotion, DisplaySheet, ShowViews, WorkspaceClear,
             HideView, OnlyView, HideGroup, HideViews, OnlyGroup, CycleWorkspace, CycleFromNoop,
             UseStaleFocus, ToggleInvisible, TogglePublic, CycleView, ShowMark, SwitchToMark,
             FocusOnly, VisibilityOnly
    <3> QED
      BY <1>3, <3>2
  <2> QED
    BY <2>1, <2>2
<1>9. ASSUME NEW p \in Pointer, ModeNext(p) PROVE NoneFreed'
  <2>1. CASE \E s \in Sheet : AssignSheet(s, p)
    <3>1. PICK s \in Sheet : AssignSheet(s, p)
      BY <2>1
    <3>2. HasFocus /\ mode # "lock" /\ s[1] = o
      BY <3>1 DEF AssignSheet, At, Aimed
    <3>3. OnWorkspace(FOCUS, s[1])
      BY <3>2, FocusIsShown
    <3>4. Pin(FOCUS, s)
      BY <3>1, <3>3 DEF AssignSheet
    <3> QED
      BY <1>6, <3>2, <3>4
  <2>2. CASE ~(\E s \in Sheet : AssignSheet(s, p))
    <3>1. UNCHANGED view_sheet
      BY <1>9, <2>2 DEF ModeNext, EnterMode, EnterMarkSelect, LeaveMode, AssignGroup,
                        AssignMark, Lock, Unlock, FocusOnly
    <3> QED
      BY <1>3, <3>1
  <2> QED
    BY <2>1, <2>2
<1> QED
  BY <1>3, <1>7, <1>8, <1>9, NotWithOneOutput DEF Next, vars

(* What clients do leaves the focus on a listed view, except that the       *)
(* assertion of hikari_view_hide() may fail on the lock screen.            *)
LEMMA ClientAims ==
    ASSUME NEW o, OnlyOutput(o), At(o), NEW p \in Pointer, ClientNext(p)
    PROVE  \/ Aimed(o)'
           \/ /\ mode' = "lock" /\ workspace' = o /\ focus_view'[o] = NULL
              /\ aborted' = "view_state"
<1>1. CASE \E v \in View, c \in ViewConfig : Map(v, c, p)
  BY <1>1, MapAims
<1>2. CASE \E v \in View : Unmap(v, p) \/ \E center \in BOOLEAN : Commit(v, center, p)
  BY <1>2, UnmapAims, CommitAims
<1>3. CASE \E v \in View : Destroy(v) \/ QueueOperation(v)
  BY <1>3, SameFocusAims
<1>4. CASE \E v \in View : RequestActivate(v)
  BY <1>4, MovedFocusAims
<1>5. CASE \E v \in View : RequestMinimize(v, p)
  <2>1. PICK v \in View : RequestMinimize(v, p)
    BY <1>5
  <2>2. CASE mode = "lock"
    BY <2>1, <2>2, MinimizedWhileLocked DEF Aimed
  <2> QED
    BY <2>1, <2>2, RequestMinimizeAims
<1> QED
  BY <1>1, <1>2, <1>3, <1>4, <1>5, NotWithOneOutput DEF ClientNext

(* So does what the user does in normal mode.                              *)
LEMMA UserAims ==
    ASSUME NEW o, OnlyOutput(o), At(o), NEW p \in Pointer, UserNext(p)
    PROVE  Aimed(o)'
<1>1. CASE PointerMotion(p) \/ \E v \in View : CycleView(v)
  BY <1>1, MovedFocusAims
<1>2. CASE \/ \E nr \in SheetNr : DisplaySheet(nr, p)
           \/ \E scope \in {"workspace", "sheet"}, what \in {"all", "invisible", "group"} :
                 ShowViews(scope, what, p)
           \/ WorkspaceClear(p)
  BY <1>2, ShowingAims
<1>3. CASE HideView(p) \/ OnlyView(p) \/ HideGroup(p)
  BY <1>3, HidingAims
<1>4. CASE (\E first \in Pointer : OnlyGroup(first, p)) \/ \E nr \in SheetNr : PinToSheet(nr, p)
  BY <1>4, OnlyGroupAims, PinToSheetAims
<1>5. CASE ToggleInvisible \/ TogglePublic
  BY <1>5, SameFocusAims
<1>6. CASE \E m \in Mark, q \in Pointer : ShowMark(m, p, q) \/ SwitchToMark(m, p, q)
  BY <1>6, ShowMarkAims, SwitchToMarkAims
<1> QED
  BY <1>1, <1>2, <1>3, <1>4, <1>5, <1>6, NotWithOneOutput DEF UserNext

(* And so do the dialogues, the drag and the lock screen.                  *)
LEMMA ModeAims ==
    ASSUME NEW o, OnlyOutput(o), At(o), NEW p \in Pointer, ModeNext(p)
    PROVE  Aimed(o)'
<1>1. CASE (\E m \in Mode : EnterMode(m))
  BY <1>1, SameFocusAims
<1>2. CASE EnterMarkSelect \/ LeaveMode(p) \/ Lock \/ \E m \in Mark \cup {NULL} : AssignMark(m, p)
  BY <1>2, MovedFocusAims
<1>3. CASE \/ \E g \in Group : AssignGroup(g, p)
           \/ \E s \in Sheet : AssignSheet(s, p)
           \/ Unlock(p)
  BY <1>3, AssignGroupAims, AssignSheetAims, UnlockAims
<1> QED
  BY <1>1, <1>2, <1>3 DEF ModeNext

(* The inductive invariant, and that it is one.  Once the process has      *)
(* stopped there are no more steps.                                        *)
ScreenBase(o) ==
    /\ ListBase /\ NoneFreed /\ NoAssertionFails
    /\ workspace = o
    /\ focus_view[o] # NULL => focus_view[o] \in workspace_views[o]

(* Every step keeps the invariant.                                         *)
LEMMA NextScreen ==
    ASSUME NEW o, OnlyOutput(o), ScreenBase(o), [Next]_vars
    PROVE  ScreenBase(o)'
<1>1. ListBase'
  BY NextLists DEF ScreenBase, OnlyOutput, Staying
<1>2. CASE Next
  <2>1. Running
    BY <1>2, NextRuns
  <2>2. At(o)
    BY <2>1, HandlerStartsAt DEF ScreenBase, Aimed, Running
  <2>3. \/ Aimed(o)'
        \/ /\ mode' = "lock" /\ workspace' = o /\ focus_view'[o] = NULL
           /\ aborted' = "view_state"
    BY <1>2, <2>2, ClientAims, UserAims, ModeAims, NotWithOneOutput DEF Next
  <2> QED
    BY <1>1, <2>2, <2>3, NothingIsFreed DEF ScreenBase, Aimed, NoAssertionFails
<1>3. CASE UNCHANGED vars
  BY <1>1, <1>3 DEF vars, focus, lists, ScreenBase, NoneFreed, NoAssertionFails
<1> QED
  BY <1>2, <1>3

(* At the start no view has the focus.                                     *)
LEMMA InitScreen ==
    ASSUME NEW o, OnlyOutput(o), Init
    PROVE  ScreenBase(o)
<1>1. ListBase
  BY InitLists
<1>2. workspace = o /\ focus_view[o] = NULL /\ NoneFreed /\ NoAssertionFails
  BY NamesAssumption DEF Init, OnlyOutput, Workspace, NoneFreed, NoAssertionFails
<1> QED
  BY <1>1, <1>2 DEF ScreenBase

(* With one output, whatever views there are and whatever clients and the   *)
(* user do, the view that has the focus is a visible one: clear_focus()    *)
(* and its callers take the focus off every view that leaves the screen.   *)
THEOREM FocusStaysVisible ==
    ASSUME NEW o, OnlyOutput(o) PROVE Spec => []FocusIsVisible
<1>1. ScreenBase(o) => FocusIsVisible
  BY OutputIsThere DEF ScreenBase, ListBase, FocusIsVisible
<1>2. Init => ScreenBase(o)
  BY InitScreen
<1>3. ScreenBase(o) /\ [Next]_vars => ScreenBase(o)'
  BY NextScreen
<1> QED
  BY <1>1, <1>2, <1>3, PTL DEF Spec

(* With one output no assertion of the view and focus code fails and        *)
(* nothing freed is used, except when a task bar minimizes a view that only *)
(* the lock screen shows.                                                  *)
THEOREM AssertionsHold ==
    ASSUME NEW o, OnlyOutput(o) PROVE Spec => []NoAssertionFails
<1>1. ScreenBase(o) => NoAssertionFails
  BY DEF ScreenBase
<1>2. Init => ScreenBase(o)
  BY InitScreen
<1>3. ScreenBase(o) /\ [Next]_vars => ScreenBase(o)'
  BY NextScreen
<1> QED
  BY <1>1, <1>2, <1>3, PTL DEF Spec
=============================================================================
