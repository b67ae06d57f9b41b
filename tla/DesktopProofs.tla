--------------------------- MODULE DesktopProofs ---------------------------
(***************************************************************************)
(* What holds of Desktop for every set of views, outputs, groups and       *)
(* marks.                                                                  *)
(***************************************************************************)
EXTENDS Desktop, TLAPS

-----------------------------------------------------------------------------
(* The functions that move the focus: what every outcome of theirs keeps.  *)

Focusable == View \cup {NULL, Freed}

Outcome == [workspace : Workspace, focus_view : [Workspace -> Focusable],
            mode : Mode, aborted : Failure]

(* A dialogue or a drag has the view that it is about.                     *)
Attends(k) == k.mode \in {"assign", "move"} => k.focus_view[k.workspace] # NULL

(* What the functions that move the focus keep, whatever they do: they     *)
(* neither lock nor unlock the screen, leave a locked one where it is and  *)
(* give no workspace of it a focus, go to workspaces of outs only, leave   *)
(* no mode for a dialogue and no dialogue without its view, and do not     *)
(* undo a failure.                                                         *)
Keeps(j, k, outs) ==
    /\ k \in Outcome
    /\ j.mode = "lock" <=> k.mode = "lock"
    /\ j.mode = "lock" =>
          /\ k.workspace = j.workspace
          /\ \A w \in Workspace : j.focus_view[w] = NULL => k.focus_view[w] = NULL
    /\ k.workspace \in outs \cup {j.workspace}
    /\ j.mode = "normal" => k.mode = "normal"
    /\ Attends(j) => Attends(k)
    /\ k.aborted = "none" => j.aborted = "none"

ScreenTypes(s) == s.views \in [Workspace -> SUBSET View]

(* Doing nothing keeps what Keeps says, and so do two steps that keep it.   *)
LEMMA KeepsReflexive ==
    ASSUME NEW j \in Outcome, NEW outs PROVE Keeps(j, j, outs)
BY DEF Keeps

(* Keeps is transitive: a handler that moves the focus several times.      *)
LEMMA KeepsTransitive ==
    ASSUME NEW i, NEW j, NEW k, NEW outs, Keeps(i, j, outs), Keeps(j, k, outs)
    PROVE  Keeps(i, k, outs)
BY DEF Keeps, Outcome

(* hikari_workspace_focus_view() goes to the workspace it is told, and only *)
(* in normal mode.                                                         *)
LEMMA FocusViewKeeps ==
    ASSUME NEW k \in Outcome, NEW w \in Workspace, NEW v \in Focusable, NEW s,
           NEW outs, w \in outs \cup {k.workspace}
    PROVE  Keeps(k, FocusView(k, w, v, s), outs)
BY DEF Keeps, Attends, FocusView, Outcome, Mode, Failure

(* hikari_workspace_first_view() returns a view, or none.                  *)
LEMMA FirstViewType ==
    ASSUME NEW k \in Outcome, NEW w \in Workspace, NEW s
    PROVE  FirstView(k, w, s) \subseteq Focusable
BY DEF FirstView, Outcome, Focusable

(* The focus that follows the pointer goes to the output of the pointer.   *)
LEMMA CursorFocusKeeps ==
    ASSUME NEW k \in Outcome, NEW s, ScreenTypes(s), NEW outs, outs \subseteq Workspace,
           NEW p \in outs \cup {NULL}, NEW j \in CursorFocus(k, p, s)
    PROVE  Keeps(k, j, outs)
<1>1. CASE k.aborted # "none" \/ k.mode # "normal" \/ p = NULL
  BY <1>1, KeepsReflexive DEF CursorFocus
<1>2. CASE ~(k.aborted # "none" \/ k.mode # "normal" \/ p = NULL)
  <2>1. p \in Workspace /\ p \in outs
    BY <1>2
  <2>2. s.views[p] \subseteq View
    BY <2>1 DEF ScreenTypes
  <2>3. \/ \E v \in s.views[p] : j = FocusView(k, p, v, s)
        \/ j = k
        \/ \E v \in FirstView(k, p, s) : j = FocusView(k, p, v, s)
    BY <1>2 DEF CursorFocus
  <2>4. \A v \in Focusable : Keeps(k, FocusView(k, p, v, s), outs)
    BY <2>1, FocusViewKeeps
  <2> QED
    BY <2>1, <2>2, <2>3, <2>4, KeepsReflexive, FirstViewType DEF Focusable
<1> QED
  BY <1>1, <1>2

(* hikari_server_enter_normal_mode() ends in normal mode.                  *)
LEMMA EnterNormalModeKeeps ==
    ASSUME NEW k \in Outcome, NEW s, ScreenTypes(s), NEW outs, outs \subseteq Workspace,
           NEW p \in outs \cup {NULL}, NEW j \in EnterNormalMode(k, p, s)
    PROVE  /\ j \in Outcome /\ j.mode = "normal"
           /\ j.workspace \in outs \cup {k.workspace}
           /\ j.aborted = "none" => k.aborted = "none"
           /\ k.mode # "lock" => Keeps(k, j, outs)
<1> DEFINE n == [k EXCEPT !.mode = "normal"]
<1>1. n \in Outcome /\ n.workspace = k.workspace /\ n.aborted = k.aborted /\ n.mode = "normal"
  BY DEF Outcome, Mode
<1>2. j \in CursorFocus(n, p, s)
  BY DEF EnterNormalMode
<1>3. Keeps(n, j, outs)
  BY <1>1, <1>2, CursorFocusKeeps
<1> QED
  BY <1>1, <1>3 DEF Keeps, Attends

(* clear_focus() keeps the focus out of a locked screen.                   *)
LEMMA ClearFocusKeeps ==
    ASSUME NEW k \in Outcome, NEW v \in View, NEW s, ScreenTypes(s), NEW outs,
           outs \subseteq Workspace, NEW p \in outs \cup {NULL},
           NEW j \in ClearFocus(k, v, p, s)
    PROVE  Keeps(k, j, outs)
<1> DEFINE w == view_sheet[v][1]
<1>1. CASE k.aborted # "none" \/ k.focus_view[w] # v
  BY <1>1, KeepsReflexive DEF ClearFocus
<1>2. CASE k.aborted = "none" /\ k.focus_view[k.workspace] # v
  <2>1. CASE j = [k EXCEPT !.focus_view[w] = NULL]
    <3>1. CASE k.focus_view[w] = v
      BY <1>2, <2>1, <3>1 DEF Keeps, Attends, Outcome, Focusable
    <3> QED
      BY <1>1, <3>1
  <2> QED
    BY <1>1, <1>2, <2>1 DEF ClearFocus
<1>3. CASE k.aborted = "none" /\ k.mode = "lock"
  <2>1. CASE j = [k EXCEPT !.aborted = "clear_focus_locked"]
    BY <2>1, <1>3 DEF Keeps, Attends, Outcome, Failure
  <2> QED
    BY <1>1, <1>2, <1>3, <2>1 DEF ClearFocus
<1>4. CASE k.aborted = "none" /\ k.mode # "lock"
  <2>1. SUFFICES ASSUME NEW i \in IF k.mode = "normal" THEN {k} ELSE EnterNormalMode(k, p, s),
                        j = FocusView(i, i.workspace, NULL, s)
                 PROVE  Keeps(k, j, outs)
    BY <1>1, <1>2, <1>4 DEF ClearFocus
  <2>2. Keeps(k, i, outs)
    BY <1>4, <2>1, KeepsReflexive, EnterNormalModeKeeps
  <2>3. i \in Outcome /\ i.workspace \in Workspace
    BY <2>2 DEF Keeps, Outcome
  <2>4. Keeps(i, j, outs)
    BY <2>1, <2>3, FocusViewKeeps DEF Focusable
  <2> QED
    BY <2>2, <2>4, KeepsTransitive
<1> QED
  BY <1>3, <1>4, <1>1

(* clear_focus() of many views only takes the focus away.                  *)
LEMMA UnfocusKeeps ==
    ASSUME NEW k \in Outcome, k.mode = "normal", NEW gone, NEW outs
    PROVE  Keeps(k, Unfocus(k, gone), outs)
BY DEF Unfocus, Keeps, Attends, Outcome, Focusable

(* Several outcomes, each followed by a cursor_focus().                    *)
LEMMA CursorFocusAllKeeps ==
    ASSUME NEW j, NEW K, NEW outs, outs \subseteq Workspace,
           \A k \in K : Keeps(j, k, outs),
           NEW p \in outs \cup {NULL}, NEW s, ScreenTypes(s),
           NEW i \in CursorFocusAll(K, p, s)
    PROVE  Keeps(j, i, outs)
<1>1. PICK k \in K : i \in CursorFocus(k, p, s)
  BY DEF CursorFocusAll
<1>2. k \in Outcome
  BY DEF Keeps
<1>3. Keeps(k, i, outs)
  BY <1>1, <1>2, CursorFocusKeeps
<1> QED
  BY <1>3, KeepsTransitive

(* A failure that is recorded in an outcome.                               *)
LEMMA FailKeeps ==
    ASSUME NEW j, NEW k, NEW outs, Keeps(j, k, outs), NEW f \in Failure
    PROVE  Keeps(j, [k EXCEPT !.aborted = IF @ = "none" THEN f ELSE @], outs)
BY DEF Keeps, Attends, Outcome, Failure

(* What lies under the pointer are views: before a step, after it, and     *)
(* with the views of a cleared workspace gone.                             *)
LEMMA ScreensTyped ==
    ASSUME ListType, NEW gone
    PROVE  ScreenTypes(Before) /\ ScreenTypes(Cleared(gone))
BY DEF ScreenTypes, ListType, Before, Cleared, Screen

(* The screen that a handler leaves behind shows views.                    *)
LEMMA AfterTyped ==
    ASSUME ListType' PROVE ScreenTypes(After)
BY DEF ScreenTypes, ListType, After, Screen

(* hikari_workspace_clear() and the views shown after it: the failure of   *)
(* hiding or showing them is not forgotten.                                *)
LEMMA CursorFocusTwiceKeeps ==
    ASSUME ListType, ListType', NEW j, NEW K, NEW outs, outs \subseteq Workspace,
           \A k \in K : Keeps(j, k, outs) /\ k.mode = "normal", NEW w, NEW shown,
           NEW p \in outs \cup {NULL}, NEW i \in CursorFocusTwice(K, w, shown, p)
    PROVE  /\ Keeps(j, i, outs)
           /\ i.aborted = "none" =>
                 Failed(workspace_views[w], shown \cap (hidden \cup workspace_views[w])) = "none"
<1> DEFINE gone == workspace_views[w]
           f == Failed(gone, shown \cap (hidden \cup gone))
           failed(k) == IF k.aborted = "none" THEN [k EXCEPT !.aborted = f] ELSE k
           L == {Unfocus(failed(k), gone) : k \in K}
<1>1. i \in CursorFocusAll(CursorFocusAll(L, p, Cleared(gone)), p, After)
  BY DEF CursorFocusTwice
<1>2. f \in Failure
  BY DEF Failed, Failure
<1>3. ASSUME NEW k \in K
      PROVE  /\ Keeps(j, failed(k), outs) /\ failed(k).mode = "normal"
             /\ failed(k).aborted = "none" => f = "none"
  <2>1. Keeps(j, k, outs) /\ k.mode = "normal"
    BY <1>3
  <2> QED
    BY <1>2, <2>1 DEF Keeps, Attends, Outcome
<1>4. ASSUME NEW l \in L
      PROVE  Keeps(j, l, outs) /\ (l.aborted = "none" => f = "none")
  <2>1. PICK k \in K : l = Unfocus(failed(k), gone)
    BY <1>4
  <2>2. failed(k) \in Outcome /\ failed(k).mode = "normal"
    BY <1>3 DEF Keeps
  <2>3. Keeps(failed(k), l, outs)
    BY <2>1, <2>2, UnfocusKeeps
  <2> HIDE DEF failed
  <2> QED
    BY <1>3, <2>3, KeepsTransitive DEF Keeps
<1> HIDE DEF L
<1>5. PICK l \in L : \E m \in CursorFocus(l, p, Cleared(gone)) : i \in CursorFocus(m, p, After)
  BY <1>1 DEF CursorFocusAll
<1>6. PICK m \in CursorFocus(l, p, Cleared(gone)) : i \in CursorFocus(m, p, After)
  BY <1>5
<1>7. l \in Outcome
  BY <1>4 DEF Keeps
<1>8. Keeps(l, m, outs)
  BY <1>7, CursorFocusKeeps, ScreensTyped
<1>9. Keeps(m, i, outs)
  BY <1>6, <1>8, CursorFocusKeeps, AfterTyped DEF Keeps
<1>10. Keeps(l, i, outs)
  BY <1>8, <1>9, KeepsTransitive
<1> QED
  BY <1>4, <1>10, KeepsTransitive DEF Keeps

-----------------------------------------------------------------------------

(* The outputs that stay.  When there are none, everything may end on the  *)
(* noop output.                                                            *)
Staying == Initial \ Pluggable
Refuge == outputs \cup {w \in {Noop} : Staying = {}}

WorkspaceIsLive == Running => workspace \in Refuge

ViewsAreLive ==
    /\ Staying \subseteq outputs
    /\ \A v \in View : view_sheet[v] \in Sheet => view_sheet[v][1] \in Refuge

(* The inductive invariant, in two parts: what does not depend on the      *)
(* focus, and what does.                                                   *)
Around ==
    /\ ScreenType /\ ViewType /\ ListType /\ MarkType
    /\ MarksAgree /\ UnmappedAtRest /\ MappedHavePlace /\ ViewsAreLive

Focused == FocusType /\ WorkspaceIsLive /\ LockHasNoFocus /\ DialogueHasFocus

Base == Around /\ Focused

(* What every handler but those of the lock and of the outputs does to the *)
(* focus.                                                                  *)
FocusKept ==
    /\ FocusType'
    /\ mode = "lock" <=> mode' = "lock"
    /\ mode = "lock" =>
          /\ workspace' = workspace
          /\ \A w \in Workspace : focus_view[w] = NULL => focus_view'[w] = NULL
    /\ workspace' \in Refuge \cup {workspace}
    /\ DialogueHasFocus => DialogueHasFocus'

-----------------------------------------------------------------------------
(* The helpers that several actions share.                                 *)

(* Moving views between the lists leaves views in them.                    *)
LEMMA RelistType ==
    ASSUME ListType, NEW gone \in SUBSET View, NEW placed \in SUBSET View,
           NEW sheet, NEW group, Relist(gone, placed, sheet, group)
    PROVE  ListType'
BY DEF ListType, Relist

(* place_visibly_above() does, whether it fails or not.                    *)
LEMMA PlaceType ==
    ASSUME ListType, NEW v \in View, NEW sheet, NEW group, Place(v, sheet, group)
    PROVE  ListType'
BY RelistType DEF ListType, Place, lists

(* Hiding and showing mapped views leaves the others hidden.               *)
LEMMA HideAndShowType ==
    ASSUME ListType, ViewType, NEW gone \in SUBSET View, NEW shown \in SUBSET mapped,
           HideAndShow(gone, shown)
    PROVE  ListType' /\ hidden' \subseteq View /\ hidden \ mapped \subseteq hidden'
BY RelistType DEF ListType, ViewType, HideAndShow, lists

(* hikari_mark_set() and hikari_mark_clear() keep marks and views paired.  *)
LEMMA SetMarkKeeps ==
    ASSUME MarkType, MarksAgree, NEW v \in View, NEW m \in Mark \cup {NULL}, SetMark(v, m)
    PROVE  /\ MarkType' /\ MarksAgree'
           /\ \A u \in View \ {v} : view_mark[u] = NULL => view_mark'[u] = NULL
           /\ view_mark'[v] = m
BY NamesAssumption DEF MarkType, MarksAgree, SetMark

(* A step that touches nothing but the focus.                              *)
LEMMA FocusOnlyAround ==
    ASSUME Around, FocusOnly PROVE Around'
BY DEF Around, FocusOnly, ScreenType, ViewType, ListType, MarkType, MarksAgree,
       UnmappedAtRest, MappedHavePlace, ViewsAreLive, Refuge, screen, lists, flags, marks

(* A step that only hides and shows mapped views.                          *)
LEMMA VisibilityAround ==
    ASSUME Around, NEW gone \in SUBSET View, NEW shown \in SUBSET mapped,
           HideAndShow(gone, shown), VisibilityOnly,
           current_sheet' \in [Workspace -> SheetNr]
    PROVE  Around'
<1>1. ListType' /\ hidden' \subseteq View /\ hidden \ mapped \subseteq hidden'
  BY HideAndShowType DEF Around
<1>2. ScreenType' /\ ViewType' /\ MarkType' /\ MarksAgree'
  BY <1>1 DEF Around, VisibilityOnly, ScreenType, ViewType, MarkType, MarksAgree, flags, marks
<1>3. UnmappedAtRest'
  BY <1>1 DEF Around, VisibilityOnly, UnmappedAtRest, marks
<1>4. MappedHavePlace' /\ ViewsAreLive'
  BY DEF Around, VisibilityOnly, MappedHavePlace, ViewsAreLive, Refuge
<1> QED
  BY <1>1, <1>2, <1>3, <1>4 DEF Around

(* The focus that a handler starts from.                                   *)
LEMMA FocusOutcome ==
    ASSUME FocusType, NEW f \in Failure
    PROVE  Focus(f) \in Outcome /\ Keeps(Focus(f), Focus(f), Refuge)
BY KeepsReflexive DEF FocusType, Focus, Outcome, Focusable

(* An outcome that is reached from it keeps the focus where it belongs.    *)
LEMMA RefocusKept ==
    ASSUME FocusType, NEW f, NEW k, Keeps(Focus(f), k, Refuge), Refocus(k)
    PROVE  FocusKept /\ (aborted' = "none" => f = "none")
BY DEF FocusType, Focus, Keeps, Attends, Outcome, Refocus, FocusKept, DialogueHasFocus,
       FOCUS, Focusable

(* What FocusKept keeps of the invariant.                                  *)
LEMMA FocusKeptFocused ==
    ASSUME Focused, Running, FocusKept, outputs \subseteq outputs',
           ScreenType
    PROVE  Focused'
<1>1. FocusType'
  BY DEF FocusKept
<1>2. WorkspaceIsLive'
  BY DEF Focused, FocusKept, WorkspaceIsLive, Refuge
<1>3. LockHasNoFocus' /\ DialogueHasFocus'
  BY DEF Focused, FocusKept, LockHasNoFocus, FocusType, FOCUS
<1> QED
  BY <1>1, <1>2, <1>3 DEF Focused

(* The pointer is on an output, and outputs are workspaces.                *)
LEMMA PointerTyped ==
    ASSUME ScreenType
    PROVE  /\ Refuge \subseteq Workspace /\ outputs \subseteq Refuge
           /\ \A p \in Pointer : p \in Refuge \cup {NULL}
BY DEF ScreenType, Workspace, Refuge, Pointer

(* Failed() says nothing or names the assertion of view.c.                 *)
LEMMA FailureTyped ==
    ASSUME NEW gone, NEW shown PROVE Failed(gone, shown) \in Failure
BY DEF Failed, Failure

(* A cursor_focus() at the end of a handler.                               *)
LEMMA ThenCursorFocus ==
    ASSUME ScreenType, ListType', NEW j, NEW l, Keeps(j, l, Refuge),
           NEW p \in Pointer, NEW k \in CursorFocus(l, p, After)
    PROVE  Keeps(j, k, Refuge) /\ (k.aborted = "none" => l.aborted = "none")
<1>1. l \in Outcome
  BY DEF Keeps
<1>2. Keeps(l, k, Refuge)
  BY <1>1, CursorFocusKeeps, AfterTyped, PointerTyped
<1> QED
  BY <1>2, KeepsTransitive DEF Keeps

(* Giving up the focus in the middle of one.                               *)
LEMMA ThenUnfocus ==
    ASSUME NEW j, NEW l, Keeps(j, l, Refuge), l.mode = "normal", NEW gone
    PROVE  Keeps(j, Unfocus(l, gone), Refuge)
<1>1. l \in Outcome
  BY DEF Keeps
<1> QED
  BY <1>1, UnfocusKeeps, KeepsTransitive

-----------------------------------------------------------------------------
(* The actions that move the focus and touch nothing else.                 *)

(* cursor_focus() on a motion of the pointer touches the focus only.       *)
LEMMA PointerMotionKept ==
    ASSUME Base, NEW p \in Pointer, PointerMotion(p) PROVE Around' /\ FocusKept
<1>1. Around'
  BY FocusOnlyAround DEF PointerMotion, Base
<1>2. PICK k \in CursorFocus(Focus("none"), p, Before) : Refocus(k)
  BY DEF PointerMotion
<1>3. Keeps(Focus("none"), k, Refuge)
  BY <1>2, FocusOutcome, CursorFocusKeeps, ScreensTyped, PointerTyped
     DEF Base, Around, Focused, Failure
<1> QED
  BY <1>1, <1>2, <1>3, RefocusKept DEF Base, Focused

(* request_activate_handler() goes to the view's workspace.                *)
LEMMA RequestActivateKept ==
    ASSUME Base, NEW v \in View, RequestActivate(v) PROVE Around' /\ FocusKept
<1>1. Around'
  BY FocusOnlyAround DEF RequestActivate, Base
<1>2. view_sheet[v][1] \in Refuge
  BY DEF RequestActivate, Base, Around, MappedHavePlace, ViewsAreLive
<1>3. Keeps(Focus("none"), FocusView(Focus("none"), view_sheet[v][1], v, Before), Refuge)
  BY <1>2, FocusOutcome, FocusViewKeeps, PointerTyped
     DEF Base, Around, Focused, Failure, Focusable
<1> QED
  BY <1>1, <1>3, RefocusKept DEF RequestActivate, Base, Focused

(* cycle_view() goes to the workspace of a listed view.                    *)
LEMMA CycleViewKept ==
    ASSUME Base, NEW v \in View, CycleView(v) PROVE Around' /\ FocusKept
<1>1. Around'
  BY FocusOnlyAround DEF CycleView, Base
<1>2. CASE IsLive(view_sheet[v])
  <2>1. view_sheet[v][1] \in Refuge
    BY <1>2 DEF IsLive, Base, Around, ViewsAreLive
  <2>2. Keeps(Focus("none"), FocusView(Focus("none"), view_sheet[v][1], v, Before), Refuge)
    BY <2>1, FocusOutcome, FocusViewKeeps, PointerTyped
       DEF Base, Around, Focused, Failure, Focusable
  <2> QED
    BY <1>1, <1>2, <2>2, RefocusKept DEF CycleView, Base, Focused
<1>3. CASE ~IsLive(view_sheet[v])
  BY <1>1, <1>3, FocusOutcome, RefocusKept DEF CycleView, Base, Focused, Failure
<1> QED
  BY <1>2, <1>3

(* cycle_workspace() goes to an output.                                    *)
LEMMA CycleWorkspaceKept ==
    ASSUME Base, NEW o \in Output, CycleWorkspace(o) PROVE Around' /\ FocusKept
<1>1. Around'
  BY FocusOnlyAround DEF CycleWorkspace, Base
<1>2. PICK v \in FirstView(Focus("none"), o, Before) :
         \E k \in IF v # NULL THEN {FocusView(Focus("none"), o, v, Before)}
                  ELSE CursorFocus(Focus("none"), o, Before) : Refocus(k)
  BY DEF CycleWorkspace
<1>3. PICK k \in IF v # NULL THEN {FocusView(Focus("none"), o, v, Before)}
                 ELSE CursorFocus(Focus("none"), o, Before) : Refocus(k)
  BY <1>2
<1>4. o \in outputs /\ o \in Workspace /\ Focus("none") \in Outcome
  BY FocusOutcome DEF CycleWorkspace, Base, Focused, Failure, Workspace
<1>5. v \in Focusable
  BY <1>4, FirstViewType
<1>6. Keeps(Focus("none"), k, Refuge)
  BY <1>3, <1>4, <1>5, FocusViewKeeps, CursorFocusKeeps, ScreensTyped, PointerTyped
     DEF Base, Around
<1> QED
  BY <1>1, <1>3, <1>6, RefocusKept DEF Base, Focused

(* Entering a dialogue or the drag, and the uses of a focus or of an       *)
(* output that is not there, leave the focus.                              *)
LEMMA EnterModeKept ==
    ASSUME Base, NEW m \in Mode, EnterMode(m) \/ CycleFromNoop \/ UseStaleFocus
    PROVE  Around' /\ FocusKept
<1>1. Around'
  BY FocusOnlyAround DEF EnterMode, CycleFromNoop, UseStaleFocus, Base
<1>2. HasFocus => FOCUS # NULL
  BY NamesAssumption DEF HasFocus, Base, Around, ViewType
<1>3. FocusKept
  BY <1>2 DEF EnterMode, CycleFromNoop, UseStaleFocus, Acting, FocusKept, Base, Focused,
              FocusType, DialogueHasFocus, FOCUS, Mode, Failure
<1> QED
  BY <1>1, <1>3

(* hikari_mark_select_mode_enter() takes the focus away.                   *)
LEMMA EnterMarkSelectKept ==
    ASSUME Base, EnterMarkSelect PROVE Around' /\ FocusKept
<1>1. Around'
  BY FocusOnlyAround DEF EnterMarkSelect, Base
<1>2. Keeps(Focus("none"), FocusView(Focus("none"), workspace, NULL, Before), Refuge)
  BY FocusOutcome, FocusViewKeeps DEF Base, Focused, FocusType, Failure, Focusable, Focus
<1>3. FocusKept
  BY <1>2 DEF EnterMarkSelect, Acting, Running, FocusKept, Keeps, Outcome, Refocus, Focus,
              FocusType, Mode, Focusable, DialogueHasFocus
<1> QED
  BY <1>1, <1>3

(* enter_normal_mode() after a dialogue or a drag.                         *)
LEMMA LeaveModeKept ==
    ASSUME Base, NEW p \in Pointer, LeaveMode(p) PROVE Around' /\ FocusKept
<1>1. Around'
  BY FocusOnlyAround DEF LeaveMode, Base
<1>2. PICK k \in EnterNormalMode(Focus("none"), p, Before) : Refocus(k)
  BY DEF LeaveMode
<1>3. Keeps(Focus("none"), k, Refuge)
  BY <1>2, FocusOutcome, EnterNormalModeKeeps, ScreensTyped, PointerTyped
     DEF Base, Around, Focused, Failure, LeaveMode, Focus
<1> QED
  BY <1>1, <1>2, <1>3, RefocusKept DEF Base, Focused

-----------------------------------------------------------------------------
(* The actions that hide and show views.  Each also says that a failed     *)
(* assertion about them ends the process.                                  *)

(* request_minimize_handler() hides one view.                              *)
LEMMA RequestMinimizeKept ==
    ASSUME Base, NEW v \in View, NEW p \in Pointer, RequestMinimize(v, p)
    PROVE  Around' /\ FocusKept /\ (aborted' = "none" => Failed({v}, {}) = "none")
<1>1. Around'
  BY VisibilityAround DEF RequestMinimize, Base, Around, ScreenType
<1>2. PICK k \in ClearFocus(Focus(Failed({v}, {})), v, p, Before) : Refocus(k)
  BY DEF RequestMinimize
<1>3. Keeps(Focus(Failed({v}, {})), k, Refuge)
  BY <1>2, FocusOutcome, ClearFocusKeeps, ScreensTyped, PointerTyped, FailureTyped
     DEF Base, Around, Focused
<1> QED
  BY <1>1, <1>2, <1>3, RefocusKept DEF Base, Focused

(* The views that an action shows are mapped.                              *)
LEMMA ShownAreMapped ==
    ASSUME Base
    PROVE  /\ \A w, nr : Displayed(w, nr) \subseteq mapped
           /\ \A scope, what : Candidates(scope, what) \subseteq mapped
           /\ \A w \in Workspace : workspace_views[w] \subseteq View
           /\ workspace \in Workspace
           /\ HasFocus => FOCUS \in View
BY DEF Displayed, SheetViews, Candidates, OutputViews, Base, Around, Focused, ListType,
       FocusType, ViewType, HasFocus

(* hikari_workspace_clear() followed by showing views.                     *)
LEMMA ClearAndShowKept ==
    ASSUME Base, NEW w \in Workspace, NEW shown \in SUBSET mapped,
           NEW p \in Pointer, ClearAndShow(w, shown), VisibilityOnly,
           current_sheet' \in [Workspace -> SheetNr],
           NEW K, \A j \in K : Keeps(Focus("none"), j, Refuge) /\ j.mode = "normal",
           NEW k \in CursorFocusTwice(K, w, shown, p)
    PROVE  /\ Around' /\ Keeps(Focus("none"), k, Refuge)
           /\ k.aborted = "none" =>
                 Failed(workspace_views[w], shown \cap (hidden \cup workspace_views[w])) = "none"
<1>1. Around'
  BY VisibilityAround, ShownAreMapped DEF ClearAndShow, Base
<1>2. ListType /\ ListType' /\ Refuge \subseteq Workspace /\ p \in Refuge \cup {NULL}
  BY <1>1, PointerTyped DEF Base, Around
<1> QED
  BY <1>1, <1>2, CursorFocusTwiceKeeps

(* display_sheet() hides a workspace and shows two of its sheets.          *)
LEMMA DisplaySheetKept ==
    ASSUME Base, NEW nr \in SheetNr, NEW p \in Pointer, DisplaySheet(nr, p)
    PROVE  /\ Around' /\ FocusKept
           /\ aborted' = "none" =>
                 Failed(workspace_views[workspace],
                        Displayed(workspace, nr) \cap (hidden \cup workspace_views[workspace])) = "none"
<1> DEFINE shown == Displayed(workspace, nr)
<1>1. PICK k \in CursorFocusTwice({Focus("none")}, workspace, shown, p) : Refocus(k)
  BY DEF DisplaySheet
<1>2. current_sheet' \in [Workspace -> SheetNr]
  BY DEF DisplaySheet, Base, Around, ScreenType
<1>3. /\ Around' /\ Keeps(Focus("none"), k, Refuge)
      /\ k.aborted = "none" =>
            Failed(workspace_views[workspace],
                   shown \cap (hidden \cup workspace_views[workspace])) = "none"
  <2>1. \A j \in {Focus("none")} : Keeps(Focus("none"), j, Refuge) /\ j.mode = "normal"
    BY FocusOutcome DEF DisplaySheet, Acting, Focus, Base, Focused, Failure
  <2>2. ClearAndShow(workspace, shown) /\ VisibilityOnly /\ shown \subseteq mapped
        /\ workspace \in Workspace
    BY ShownAreMapped DEF DisplaySheet
  <2> HIDE DEF shown
  <2>3. k \in CursorFocusTwice({Focus("none")}, workspace, shown, p)
    BY <1>1
  <2> QED
    BY <1>2, <2>1, <2>2, <2>3, ClearAndShowKept
<1> QED
  BY <1>1, <1>3, RefocusKept DEF Base, Focused, Refocus

(* Clearing the workspace and showing some of its views.                   *)
LEMMA ShowViewsKept ==
    ASSUME Base, Acting, NEW p \in Pointer, NEW shown \in SUBSET mapped,
           ClearAndShow(workspace, shown), VisibilityOnly, UNCHANGED current_sheet,
           NEW k \in CursorFocusTwice({Focus("none")}, workspace, shown, p), Refocus(k)
    PROVE  /\ Around' /\ FocusKept
           /\ aborted' = "none" =>
                 Failed(workspace_views[workspace],
                        shown \cap (hidden \cup workspace_views[workspace])) = "none"
<1>1. \A j \in {Focus("none")} : Keeps(Focus("none"), j, Refuge) /\ j.mode = "normal"
  BY FocusOutcome DEF Acting, Focus, Base, Focused, Failure
<1>2. workspace \in Workspace /\ current_sheet' \in [Workspace -> SheetNr]
  BY DEF Base, Around, Focused, FocusType, ScreenType
<1>3. /\ Around' /\ Keeps(Focus("none"), k, Refuge)
      /\ k.aborted = "none" =>
            Failed(workspace_views[workspace],
                   shown \cap (hidden \cup workspace_views[workspace])) = "none"
  BY <1>1, <1>2, ClearAndShowKept
<1> QED
  BY <1>3, RefocusKept DEF Base, Focused, Refocus

(* hide_view, only_view and hide_group.                                    *)
LEMMA HideViewsKept ==
    ASSUME Base, NEW gone \in SUBSET View, NEW p \in Pointer, HideViews(gone, p)
    PROVE  Around' /\ FocusKept /\ (aborted' = "none" => Failed(gone, {}) = "none")
<1>1. Around'
  BY VisibilityAround DEF HideViews, Base, Around, ScreenType
<1> DEFINE f == Failed(gone, {})
           j == Unfocus(Focus(f), gone)
<1>2. PICK k \in CursorFocus(j, p, After) : Refocus(k)
  BY DEF HideViews
<1>3. Keeps(Focus(f), j, Refuge)
  BY FocusOutcome, UnfocusKeeps, FailureTyped DEF HideViews, Acting, Focus, Base, Focused
<1>4. Keeps(j, k, Refuge)
  BY <1>1, <1>2, <1>3, CursorFocusKeeps, AfterTyped, PointerTyped DEF Base, Around, Keeps
<1>5. Keeps(Focus(f), k, Refuge)
  BY <1>3, <1>4, KeepsTransitive
<1> QED
  BY <1>1, <1>2, <1>5, RefocusKept DEF Base, Focused

(* What hide_view, only_view and hide_group hide are views.                *)
LEMMA HiddenAreViews ==
    ASSUME Base, HasFocus
    PROVE  /\ {FOCUS} \subseteq View
           /\ workspace_views[workspace] \ {FOCUS} \subseteq View
           /\ UNION {visible_group_views[g] : g \in {view_group[FOCUS]} \cap Group} \subseteq View
BY ShownAreMapped DEF Base, Around, ListType

(* hikari_server_only_group() hides and shows views as one HideAndShow().  *)
LEMMA OnlyGroupKept ==
    ASSUME Base, NEW first, NEW p \in Pointer, OnlyGroup(first, p)
    PROVE  /\ Around' /\ FocusKept
           /\ \E gone \in SUBSET View, shown \in SUBSET mapped :
                 /\ HideAndShow(gone, shown)
                 /\ aborted' = "none" => Failed(gone, shown) = "none"
<1> DEFINE gone == UNION {workspace_views[o] : o \in outputs}
           members == {v \in mapped : view_group[v] = view_group[FOCUS]}
           absent == members \cap (hidden \cup gone)
           started == IF outputs = {} THEN {Focus("none")}
                      ELSE CursorFocus(Unfocus(Focus("none"), workspace_views[first]), p,
                                       Cleared(workspace_views[first]))
           record(j, f) == [Unfocus(j, gone) EXCEPT !.aborted = IF @ = "none" THEN f ELSE @]
<1>1. PICK shown \in IF absent = members THEN {members} ELSE SUBSET absent :
         /\ HideAndShow(gone, shown)
         /\ \E k \in CursorFocusAll({record(j, Failed(gone, shown)) : j \in started}, p, After) :
               Refocus(k)
  BY DEF OnlyGroup
<1> DEFINE f == Failed(gone, shown)
           K == {record(j, f) : j \in started}
<1>2. PICK k \in CursorFocusAll(K, p, After) : Refocus(k)
  BY <1>1
<1>3. gone \in SUBSET View /\ shown \in SUBSET mapped
  BY DEF Base, Around, ListType, ScreenType, Workspace
<1>4. Around'
  BY <1>1, <1>3, VisibilityAround DEF OnlyGroup, Base, Around, ScreenType
<1>5. \A j \in started : Keeps(Focus("none"), j, Refuge) /\ j.mode = "normal"
  <2>1. /\ Focus("none") \in Outcome /\ Keeps(Focus("none"), Focus("none"), Refuge)
        /\ Focus("none").mode = "normal"
    BY FocusOutcome DEF OnlyGroup, Acting, Focus, Base, Focused, Failure
  <2> DEFINE u == Unfocus(Focus("none"), workspace_views[first])
  <2>2. Keeps(Focus("none"), u, Refuge) /\ u \in Outcome
    BY <2>1, UnfocusKeeps DEF Keeps
  <2>3. \A j \in CursorFocus(u, p, Cleared(workspace_views[first])) : Keeps(u, j, Refuge)
    BY <2>2, CursorFocusKeeps, ScreensTyped, PointerTyped DEF Base, Around
  <2>4. \A j \in started : Keeps(Focus("none"), j, Refuge)
    BY <2>1, <2>2, <2>3, KeepsTransitive
  <2> QED
    BY <2>1, <2>4 DEF Keeps
<1>6. \A l \in K : Keeps(Focus("none"), l, Refuge) /\ (l.aborted = "none" => f = "none")
  <2>1. SUFFICES ASSUME NEW j \in started
                 PROVE  /\ Keeps(Focus("none"), record(j, f), Refuge)
                        /\ record(j, f).aborted = "none" => f = "none"
    OBVIOUS
  <2>2. f \in Failure
    BY FailureTyped
  <2>3. Keeps(Focus("none"), Unfocus(j, gone), Refuge)
    BY <1>5, ThenUnfocus
  <2> QED
    BY <2>2, <2>3, FailKeeps DEF Keeps, Outcome
<1>7. Keeps(Focus("none"), k, Refuge) /\ (k.aborted = "none" => f = "none")
  <2>1. PICK l \in K : k \in CursorFocus(l, p, After)
    BY <1>2 DEF CursorFocusAll
  <2>2. Keeps(Focus("none"), l, Refuge) /\ (l.aborted = "none" => f = "none")
    BY <1>6
  <2> HIDE DEF f
  <2> QED
    BY <1>4, <2>1, <2>2, ThenCursorFocus DEF Base, Around
<1>8. FocusKept /\ (aborted' = "none" => f = "none")
  BY <1>2, <1>7, RefocusKept DEF Base, Focused, Refocus
<1> QED
  BY <1>1, <1>3, <1>4, <1>8

(* The key of a mark, with the pointer on p.                               *)
LEMMA MarkKeyKeeps ==
    ASSUME Base, mode \in {"normal", "select"}, NEW p \in Pointer, NEW j \in MarkKey(p)
    PROVE  Keeps(Focus("none"), j, Refuge) /\ j.mode = "normal"
<1>1. Focus("none") \in Outcome /\ Keeps(Focus("none"), Focus("none"), Refuge)
  BY FocusOutcome DEF Base, Focused, Failure
<1>2. \A i \in EnterNormalMode(Focus("none"), p, Before) :
         Keeps(Focus("none"), i, Refuge) /\ i.mode = "normal"
  BY <1>1, EnterNormalModeKeeps, ScreensTyped, PointerTyped DEF Base, Around, Focus
<1> QED
  BY <1>1, <1>2 DEF MarkKey, Focus

(* A marked view is mapped, so it has a sheet.                             *)
LEMMA MarkedIsMapped ==
    ASSUME Around, NEW m \in Mark, mark_view[m] # NULL
    PROVE  /\ mark_view[m] \in mapped /\ mark_view[m] \in View
           /\ view_sheet[mark_view[m]] \in Sheet
BY NamesAssumption DEF Around, MarkType, MarksAgree, UnmappedAtRest, MappedHavePlace

(* hikari_server_show_mark() shows the marked view, which is mapped.       *)
LEMMA ShowMarkKept ==
    ASSUME Base, NEW m \in Mark, NEW p \in Pointer, NEW q \in Pointer, ShowMark(m, p, q)
    PROVE  /\ Around' /\ FocusKept
           /\ aborted' = "none" => Failed({}, {mark_view[m]} \cap hidden) = "none"
<1> DEFINE shown == {mark_view[m]} \cap hidden
           f == Failed({}, shown)
           K == {[j EXCEPT !.aborted = IF @ = "none" THEN f ELSE @] : j \in MarkKey(p)}
<1>1. PICK k \in CursorFocusAll(K, q, After) : Refocus(k)
  BY DEF ShowMark
<1>2. shown \subseteq mapped
  BY MarkedIsMapped DEF ShowMark, Base
<1>3. Around'
  BY <1>2, VisibilityAround DEF ShowMark, Base, Around, ScreenType
<1>4. \A l \in K : Keeps(Focus("none"), l, Refuge) /\ (l.aborted = "none" => f = "none")
  <2>1. SUFFICES ASSUME NEW j \in MarkKey(p),
                        NEW l, l = [j EXCEPT !.aborted = IF @ = "none" THEN f ELSE @]
                 PROVE  Keeps(Focus("none"), l, Refuge) /\ (l.aborted = "none" => f = "none")
    OBVIOUS
  <2>2. f \in Failure
    BY FailureTyped
  <2>3. Keeps(Focus("none"), j, Refuge)
    BY MarkKeyKeeps DEF ShowMark
  <2> QED
    BY <2>1, <2>2, <2>3, FailKeeps DEF Keeps, Outcome
<1>5. Keeps(Focus("none"), k, Refuge) /\ (k.aborted = "none" => f = "none")
  <2>1. PICK l \in K : k \in CursorFocus(l, q, After)
    BY <1>1 DEF CursorFocusAll
  <2>2. Keeps(Focus("none"), l, Refuge) /\ (l.aborted = "none" => f = "none")
    BY <1>4
  <2> HIDE DEF f
  <2> QED
    BY <1>3, <2>1, <2>2, ThenCursorFocus DEF Base, Around
<1> QED
  BY <1>1, <1>3, <1>5, RefocusKept DEF Base, Focused, Refocus

(* hikari_server_switch_to_mark() is a display_sheet() that shows one view *)
(* more.                                                                   *)
LEMMA SwitchToMarkKept ==
    ASSUME Base, NEW m \in Mark, NEW p \in Pointer, NEW q \in Pointer,
           SwitchToMark(m, p, q)
    PROVE  /\ Around' /\ FocusKept
           /\ \E w \in Workspace, shown \in SUBSET mapped :
                 /\ ClearAndShow(w, shown)
                 /\ aborted' = "none" =>
                       Failed(workspace_views[w], shown \cap (hidden \cup workspace_views[w])) = "none"
<1> DEFINE v == mark_view[m]
           w == view_sheet[v][1]
           nr == view_sheet[v][2]
           shown == Displayed(w, nr) \cup {v}
           f == Failed(workspace_views[w], shown \cap (hidden \cup workspace_views[w]))
<1>1. PICK k \in CursorFocusAll(CursorFocusTwice(MarkKey(p), w, shown, p), q, After) :
         Refocus(k)
  BY DEF SwitchToMark
<1>2. v \in mapped /\ w \in Workspace /\ nr \in SheetNr /\ shown \in SUBSET mapped
  BY MarkedIsMapped, ShownAreMapped DEF SwitchToMark, Base, Sheet
<1>3. current_sheet' \in [Workspace -> SheetNr] /\ ClearAndShow(w, shown) /\ VisibilityOnly
  BY <1>2 DEF SwitchToMark, Base, Around, ScreenType
<1>4. PICK l \in CursorFocusTwice(MarkKey(p), w, shown, p) : k \in CursorFocus(l, q, After)
  BY <1>1 DEF CursorFocusAll
<1>5. \A j \in MarkKey(p) : Keeps(Focus("none"), j, Refuge) /\ j.mode = "normal"
  BY MarkKeyKeeps DEF SwitchToMark
<1>6. Around' /\ Keeps(Focus("none"), l, Refuge) /\ (l.aborted = "none" => f = "none")
  <2> HIDE DEF w, shown
  <2> QED
    BY <1>2, <1>3, <1>4, <1>5, ClearAndShowKept DEF f
<1>7. Keeps(l, k, Refuge)
  BY <1>4, <1>6, CursorFocusKeeps, AfterTyped, PointerTyped DEF Keeps, Base, Around
<1>8. Keeps(Focus("none"), k, Refuge) /\ (k.aborted = "none" => f = "none")
  BY <1>6, <1>7, KeepsTransitive DEF Keeps
<1>9. FocusKept /\ (aborted' = "none" => f = "none")
  BY <1>1, <1>8, RefocusKept DEF Base, Focused, Refocus
<1> QED
  BY <1>2, <1>3, <1>6, <1>9

-----------------------------------------------------------------------------
(* What clients do.                                                        *)

(* map_handler() puts a view on the current workspace, or leaves it on its *)
(* former one.                                                             *)
LEMMA MapKept ==
    ASSUME Base, NEW v \in View, NEW c \in ViewConfig, NEW p \in Pointer, Map(v, c, p)
    PROVE  Around' /\ FocusKept
<1>1. ScreenType'
  BY DEF Map, Base, Around, ScreenType, screen
<1>2. c \in Config
  BY NamesAssumption
<1>3. ViewType'
  BY <1>2, SheetNrAssumption
     DEF Base, Around, Focused, ScreenType, FocusType, ViewType, Config, Map, Configure,
         flags, Sheet, focus
<1>4. ListType'
  BY RelistType DEF Map, Base, Around
<1>5. MarkType' /\ MarksAgree' /\ \A u \in View \ {v} : view_mark[u] = NULL => view_mark'[u] = NULL
  BY <1>2, SetMarkKeeps DEF Map, Base, Around, Config, marks, MarkType, MarksAgree
<1>6. UnmappedAtRest'
  BY <1>5, NamesAssumption DEF Map, Base, Around, ViewType, UnmappedAtRest
<1>7. MappedHavePlace'
  BY <1>2, NamesAssumption, SheetNrAssumption
     DEF Map, Base, Around, Focused, ScreenType, ViewType, FocusType, MappedHavePlace,
         Configure, Config, Sheet, flags
<1>8. ViewsAreLive'
  BY <1>2, NamesAssumption, SheetNrAssumption
     DEF Map, Base, Around, Focused, ScreenType, ViewType, FocusType, ViewsAreLive, Refuge,
         Configure, Config, Sheet, flags, screen, WorkspaceIsLive
<1>9. FocusKept
  <2>1. CASE UNCHANGED focus
    BY <2>1 DEF focus, FocusKept, Base, Focused, FocusType, DialogueHasFocus, FOCUS
  <2>2. CASE \E k \in CursorFocus(Focus("none"), p, After) : Refocus(k)
    BY <1>4, <2>2, FocusOutcome, ThenCursorFocus, RefocusKept
       DEF Base, Around, Focused, Failure
  <2> QED
    BY <2>1, <2>2 DEF Map
<1> QED
  BY <1>1, <1>3, <1>4, <1>5, <1>6, <1>7, <1>8, <1>9 DEF Around

(* A view that is mapped on a sheet that was freed ends the process.       *)
LEMMA MapOnFreedSheetKept ==
    ASSUME Base, NEW v \in View, MapOnFreedSheet(v) PROVE Around' /\ FocusKept
<1>1. Around'
  BY FocusOnlyAround DEF MapOnFreedSheet, Base, FocusOnly, lists, flags, marks
<1>2. FocusKept
  BY DEF MapOnFreedSheet, FocusKept, Base, Focused, FocusType, Failure, DialogueHasFocus,
         FOCUS
<1> QED
  BY <1>1, <1>2

(* unmap_handler() leaves the view at rest.                                *)
LEMMA UnmapKept ==
    ASSUME Base, NEW v \in View, NEW p \in Pointer, Unmap(v, p)
    PROVE  Around' /\ FocusKept
<1>1. ScreenType' /\ ViewType'
  BY DEF Unmap, Base, Around, ScreenType, ViewType, screen, flags
<1>2. ListType'
  BY RelistType DEF Unmap, Base, Around, ListType, lists
<1>3. /\ MarkType' /\ MarksAgree' /\ view_mark'[v] = NULL
      /\ \A u \in View \ {v} : view_mark[u] = NULL => view_mark'[u] = NULL
  BY SetMarkKeeps DEF Unmap, Base, Around
<1>4. UnmappedAtRest'
  BY <1>3 DEF Unmap, Base, Around, ViewType, UnmappedAtRest
<1>5. MappedHavePlace' /\ ViewsAreLive'
  BY DEF Unmap, Base, Around, ViewType, MappedHavePlace, ViewsAreLive, Refuge, screen
<1>6. FocusKept
  <2>1. CASE UNCHANGED focus
    BY <2>1 DEF focus, FocusKept, Base, Focused, FocusType, DialogueHasFocus, FOCUS
  <2>2. CASE \E k \in CursorFocusAll(ClearFocus(Focus("none"), v, p, Before), p, After) :
               Refocus(k)
    <3>1. PICK l \in ClearFocus(Focus("none"), v, p, Before) :
             \E k \in CursorFocus(l, p, After) : Refocus(k)
      BY <2>2 DEF CursorFocusAll
    <3>2. Keeps(Focus("none"), l, Refuge)
      BY <3>1, FocusOutcome, ClearFocusKeeps, ScreensTyped, PointerTyped
         DEF Base, Around, Focused, Failure
    <3> QED
      BY <1>2, <3>1, <3>2, ThenCursorFocus, RefocusKept DEF Base, Around, Focused
  <2> QED
    BY <2>1, <2>2 DEF Unmap
<1> QED
  BY <1>1, <1>2, <1>3, <1>4, <1>5, <1>6 DEF Around

(* destroy_handler() concerns a view at rest; the focus on it is no        *)
(* view's.                                                                 *)
LEMMA DestroyKept ==
    ASSUME Base, NEW v \in View, Destroy(v) PROVE Around' /\ FocusKept
<1>1. ScreenType' /\ ViewType' /\ ListType' /\ MarkType' /\ MarksAgree'
  BY DEF Destroy, Base, Around, ScreenType, ViewType, ListType, MarkType, MarksAgree,
         screen, lists, marks
<1>2. UnmappedAtRest' /\ MappedHavePlace' /\ ViewsAreLive'
  BY NamesAssumption
     DEF Destroy, Base, Around, ViewType, UnmappedAtRest, MappedHavePlace, ViewsAreLive,
         Refuge, screen, marks
<1>3. FocusKept
  BY NamesAssumption DEF Destroy, FocusKept, Base, Focused, FocusType, DialogueHasFocus, FOCUS
<1> QED
  BY <1>1, <1>2, <1>3 DEF Around

(* A pending operation is one of a mapped view.                            *)
LEMMA QueueOperationKept ==
    ASSUME Base, NEW v \in View, QueueOperation(v) PROVE Around' /\ FocusKept
BY DEF QueueOperation, Base, Around, Focused, FocusKept, ScreenType, ViewType, ListType,
       MarkType, MarksAgree, FocusType, UnmappedAtRest, MappedHavePlace, ViewsAreLive,
       Refuge, screen, focus, flags, lists, marks, DialogueHasFocus, FOCUS

(* commit_pending_operation() shows a mapped view.                         *)
LEMMA CommitKept ==
    ASSUME Base, NEW v \in View, NEW center \in BOOLEAN, NEW p \in Pointer,
           Commit(v, center, p)
    PROVE  Around' /\ FocusKept
<1>1. v \in mapped
  BY DEF Commit, Base, Around, UnmappedAtRest
<1>2. ScreenType' /\ ViewType' /\ MarkType' /\ MarksAgree' /\ MappedHavePlace' /\ ViewsAreLive'
  BY DEF Commit, Base, Around, ScreenType, ViewType, MarkType, MarksAgree, MappedHavePlace,
         ViewsAreLive, Refuge, screen, flags, marks
<1>3. ListType'
  BY RelistType DEF Commit, Base, Around
<1>4. UnmappedAtRest'
  BY <1>1 DEF Commit, Base, Around, UnmappedAtRest, marks
<1>5. FocusKept
  <2>1. CASE UNCHANGED focus
    BY <2>1 DEF focus, FocusKept, Base, Focused, FocusType, DialogueHasFocus, FOCUS
  <2>2. CASE \E k \in CursorFocus(Focus("none"), p, After) : Refocus(k)
    BY <1>3, <2>2, FocusOutcome, ThenCursorFocus, RefocusKept
       DEF Base, Around, Focused, Failure
  <2> QED
    BY <2>1, <2>2 DEF Commit
<1> QED
  BY <1>2, <1>3, <1>4, <1>5 DEF Around

-----------------------------------------------------------------------------
(* The actions that give the focus view another sheet, group, mark or flag.*)

(* hikari_view_pin_to_sheet() and hikari_view_group() leave everything     *)
(* else alone.                                                             *)
PlacementOnly == UNCHANGED <<screen, mapped, forced, flags, marks>>

(* Giving a mapped view another live sheet or another group.               *)
LEMMA PlacementAround ==
    ASSUME Around, PlacementOnly, ListType', NEW v \in mapped,
           dirty' \in {dirty, dirty \cup {v}},
           hidden' \subseteq View, hidden \ mapped \subseteq hidden',
           NEW s \in Sheet, s[1] \in Refuge,
           view_sheet' \in {view_sheet, [view_sheet EXCEPT ![v] = s]},
           NEW g \in Group,
           view_group' \in {view_group, [view_group EXCEPT ![v] = g]}
    PROVE  Around'
<1>1. ScreenType' /\ MarkType' /\ MarksAgree'
  BY DEF Around, PlacementOnly, ScreenType, MarkType, MarksAgree, screen, marks
<1>2. ViewType'
  BY DEF Around, PlacementOnly, ViewType, flags
<1>3. UnmappedAtRest'
  BY DEF Around, PlacementOnly, UnmappedAtRest, ViewType, marks
<1>4. MappedHavePlace'
  BY DEF Around, PlacementOnly, MappedHavePlace, ViewType
<1>5. ViewsAreLive'
  BY DEF Around, PlacementOnly, ViewsAreLive, ViewType, Refuge, screen
<1> QED
  BY <1>1, <1>2, <1>3, <1>4, <1>5 DEF Around

(* hikari_view_pin_to_sheet() leaves the view on its workspace.            *)
LEMMA PinKept ==
    ASSUME Around, NEW v \in mapped, NEW s \in Sheet, s[1] \in Refuge, Pin(v, s),
           PlacementOnly, UNCHANGED <<dirty, view_group>>
    PROVE  Around'
<1>1. v \in View /\ view_group[v] \in Group
  BY DEF Around, ViewType, MappedHavePlace
<1>2. ListType' /\ hidden' \subseteq View /\ hidden \ mapped \subseteq hidden'
  <2>1. CASE UNCHANGED <<hidden, lists>>
    BY <2>1 DEF Around, ListType, ViewType, lists
  <2>2. CASE Place(v, view_sheet', view_group) /\ UNCHANGED hidden
    BY <1>1, <2>2, PlaceType DEF Around, ViewType
  <2>3. CASE HideAndShow({v}, {})
    BY <1>1, <2>3, HideAndShowType DEF Around
  <2> QED
    BY <2>1, <2>2, <2>3 DEF Pin
<1>3. view_sheet' \in {view_sheet, [view_sheet EXCEPT ![v] = s]}
  BY DEF Pin
<1> QED
  BY <1>1, <1>2, <1>3, PlacementAround

(* If it hides the view it takes its focus away.                           *)
LEMMA PinFocusKeeps ==
    ASSUME Base, NEW v \in mapped, NEW s, NEW p \in Pointer, ListType',
           NEW k \in PinFocus(v, s, p)
    PROVE  /\ \E f : Keeps(Focus(f), k, Refuge)
           /\ k.aborted = "none" => OnWorkspace(v, s[1]) /\ Failed({v}, {}) = "none"
<1> DEFINE f == Failed({v}, {})
<1>1. v \in View /\ f \in Failure
  BY FailureTyped DEF Base, Around, ViewType
<1>2. CASE ~OnWorkspace(v, s[1])
  <2>1. k = Focus("view_state")
    BY <1>2 DEF PinFocus
  <2> QED
    BY <2>1, FocusOutcome DEF Base, Focused, Failure, Focus
<1>3. CASE OnWorkspace(v, s[1]) /\ SheetIsVisible(s)
  <2>1. k = Focus(f)
    BY <1>3 DEF PinFocus
  <2> HIDE DEF f
  <2>2. Keeps(Focus(f), k, Refuge) /\ (k.aborted = "none" => f = "none")
    BY <1>1, <2>1, FocusOutcome DEF Base, Focused, Focus
  <2> QED
    BY <1>3, <2>2 DEF f
<1>4. CASE OnWorkspace(v, s[1]) /\ ~SheetIsVisible(s)
  <2>1. PICK l \in ClearFocus(Focus(f), v, p, Before) : k \in CursorFocus(l, p, After)
    BY <1>4 DEF PinFocus, CursorFocusAll
  <2> HIDE DEF f
  <2>2. Keeps(Focus(f), l, Refuge)
    BY <1>1, <2>1, FocusOutcome, ClearFocusKeeps, ScreensTyped, PointerTyped
       DEF Base, Around, Focused
  <2>3. Keeps(Focus(f), k, Refuge) /\ (k.aborted = "none" => f = "none")
    BY <2>1, <2>2, ThenCursorFocus DEF Base, Around, Keeps, Focus
  <2> QED
    BY <1>4, <2>3 DEF f
<1> QED
  BY <1>2, <1>3, <1>4

(* The action that pins the focus view.                                    *)
LEMMA PinToSheetKept ==
    ASSUME Base, NEW nr \in SheetNr, NEW p \in Pointer, PinToSheet(nr, p)
    PROVE  /\ Around' /\ FocusKept
           /\ aborted' = "none" =>
                 OnWorkspace(FOCUS, workspace) /\ Failed({FOCUS}, {}) = "none"
<1>1. FOCUS \in mapped /\ workspace \in Refuge /\ <<workspace, nr>> \in Sheet
  BY DEF PinToSheet, HasFocus, Acting, Base, Focused, WorkspaceIsLive, FocusType, Sheet
<1>2. Around'
  BY <1>1, PinKept DEF PinToSheet, Base, PlacementOnly, screen
<1>3. PICK k \in PinFocus(FOCUS, <<workspace, nr>>, p) : Refocus(k)
  BY DEF PinToSheet
<1>4. /\ \E f : Keeps(Focus(f), k, Refuge)
      /\ k.aborted = "none" =>
            OnWorkspace(FOCUS, <<workspace, nr>>[1]) /\ Failed({FOCUS}, {}) = "none"
  BY <1>1, <1>2, PinFocusKeeps DEF Around
<1> QED
  BY <1>2, <1>3, <1>4, RefocusKept DEF Base, Focused, Refocus

(* hikari_server_migrate_focus_view() puts the view on another output.     *)
LEMMA MigrateKept ==
    ASSUME Around, NEW v \in mapped, NEW o \in Workspace, o \in Refuge, Migrate(v, o),
           PlacementOnly, UNCHANGED view_group
    PROVE  Around'
<1>1. v \in View /\ view_group[v] \in Group /\ <<o, current_sheet[o]>> \in Sheet
  BY DEF Around, ViewType, MappedHavePlace, ScreenType, Sheet
<1>2. ListType'
  BY <1>1, PlaceType DEF Migrate, Around
<1> QED
  BY <1>1, <1>2, PlacementAround DEF Migrate, Around, ViewType

(* The focus moves along with the view, in a mode in which there is one.   *)
LEMMA MigrateFocusKeeps ==
    ASSUME Base, NEW v \in mapped, NEW o \in Workspace, o \in Refuge, mode # "lock"
    PROVE  /\ Keeps(Focus("none"), MigrateFocus(v, o), Refuge)
           /\ MigrateFocus(v, o).aborted = Failed({v}, {})
<1> DEFINE f == Failed({v}, {})
           m == [Focus(f) EXCEPT !.workspace = o,
                    !.focus_view = [focus_view EXCEPT ![workspace] = NULL, ![o] = v]]
<1>1. v \in View /\ f \in Failure
  BY FailureTyped DEF Base, Around, ViewType
<1> HIDE DEF f
<1>2. Keeps(Focus("none"), m, Refuge) /\ m.aborted = f
  BY <1>1, NamesAssumption
     DEF Base, Focused, FocusType, Keeps, Attends, Focus, Outcome, Focusable, Failure
<1> QED
  BY <1>2 DEF MigrateFocus, f

(* The action that moves the focus view to another output.                 *)
LEMMA MoveToOutputKept ==
    ASSUME Base, NEW o \in Output, MoveToOutput(o)
    PROVE  Around' /\ FocusKept /\ (aborted' = "none" => Failed({FOCUS}, {}) = "none")
<1>1. FOCUS \in mapped /\ o \in Refuge /\ o \in Workspace /\ mode # "lock"
  BY DEF MoveToOutput, HasFocus, Refuge, Workspace
<1>2. Around'
  BY <1>1, MigrateKept DEF MoveToOutput, Base, PlacementOnly
<1>3. /\ Keeps(Focus("none"), MigrateFocus(FOCUS, o), Refuge)
      /\ MigrateFocus(FOCUS, o).aborted = Failed({FOCUS}, {})
  BY <1>1, MigrateFocusKeeps
<1> QED
  BY <1>2, <1>3, RefocusKept DEF MoveToOutput, Base, Focused, Refocus

(* Toggling a flag of the focus view shows and hides nothing.              *)
LEMMA ToggleKept ==
    ASSUME Base, ToggleInvisible \/ TogglePublic PROVE Around' /\ FocusKept
<1>1. FOCUS \in View
  BY ShownAreMapped DEF ToggleInvisible, TogglePublic
<1>2. ScreenType' /\ ListType' /\ MarkType' /\ MarksAgree' /\ MappedHavePlace' /\ ViewsAreLive'
  BY DEF ToggleInvisible, TogglePublic, Base, Around, ScreenType, ListType, MarkType,
         MarksAgree, MappedHavePlace, ViewsAreLive, Refuge, screen, lists, marks
<1>3. ViewType' /\ UnmappedAtRest'
  BY <1>1 DEF ToggleInvisible, TogglePublic, Toggled, Base, Around, ViewType,
              UnmappedAtRest, marks
<1>4. FocusKept
  BY DEF ToggleInvisible, TogglePublic, focus, FocusKept, Base, Focused, FocusType,
         DialogueHasFocus, FOCUS
<1> QED
  BY <1>2, <1>3, <1>4 DEF Around

(* The modes end in normal mode.                                           *)
LEMMA ThenEnterNormalMode ==
    ASSUME ScreenType, ListType', NEW j, NEW l, Keeps(j, l, Refuge), l.mode # "lock",
           NEW p \in Pointer, NEW k \in EnterNormalMode(l, p, After)
    PROVE  Keeps(j, k, Refuge) /\ (k.aborted = "none" => l.aborted = "none")
<1>1. l \in Outcome
  BY DEF Keeps
<1>2. Keeps(l, k, Refuge)
  BY <1>1, EnterNormalModeKeeps, AfterTyped, PointerTyped
<1> QED
  BY <1>2, KeepsTransitive DEF Keeps

(* confirm_group_assign() moves the view to another group.                 *)
LEMMA AssignGroupKept ==
    ASSUME Base, NEW g \in Group, NEW p \in Pointer, AssignGroup(g, p)
    PROVE  /\ Around' /\ FocusKept
           /\ aborted' = "none" => view_group[FOCUS] = g \/ Failed({FOCUS}, {}) = "none"
<1> DEFINE f == IF view_group[FOCUS] = g THEN "none" ELSE Failed({FOCUS}, {})
<1>1. FOCUS \in mapped /\ FOCUS \in View /\ mode = "assign"
  BY ShownAreMapped DEF AssignGroup, HasFocus
<1>2. ListType'
  BY <1>1, PlaceType DEF AssignGroup, Base, Around, ListType, lists
<1>3. Around'
  <2>1. view_sheet[FOCUS] \in Sheet /\ view_sheet[FOCUS][1] \in Refuge
    BY <1>1 DEF Base, Around, MappedHavePlace, ViewsAreLive
  <2>2. /\ PlacementOnly /\ view_sheet' = view_sheet /\ dirty' = dirty /\ hidden' = hidden
        /\ view_group' = [view_group EXCEPT ![FOCUS] = g]
    BY DEF AssignGroup, PlacementOnly, screen
  <2> QED
    BY <1>1, <1>2, <2>1, <2>2, PlacementAround DEF Base, Around, ViewType
<1>4. PICK k \in EnterNormalMode(Focus(f), p, After) : Refocus(k)
  BY DEF AssignGroup
<1>5. f \in Failure
  BY FailureTyped DEF Failure
<1> HIDE DEF f
<1>6. Keeps(Focus(f), k, Refuge)
  BY <1>1, <1>2, <1>4, <1>5, FocusOutcome, ThenEnterNormalMode DEF Base, Around, Focused, Focus
<1>7. FocusKept /\ (aborted' = "none" => f = "none")
  BY <1>4, <1>6, RefocusKept DEF Base, Focused
<1> QED
  BY <1>3, <1>7 DEF f

(* confirm_mark_assign() marks the view, and one view only.                *)
LEMMA AssignMarkKept ==
    ASSUME Base, NEW m \in Mark \cup {NULL}, NEW p \in Pointer, AssignMark(m, p)
    PROVE  Around' /\ FocusKept
<1>1. FOCUS \in mapped /\ FOCUS \in View /\ mode = "assign"
  BY ShownAreMapped DEF AssignMark, HasFocus
<1>2. ScreenType' /\ ViewType' /\ ListType' /\ MappedHavePlace' /\ ViewsAreLive'
  BY DEF AssignMark, Base, Around, ScreenType, ViewType, ListType, MappedHavePlace,
         ViewsAreLive, Refuge, screen, flags, lists
<1>3. /\ MarkType' /\ MarksAgree'
      /\ \A u \in View \ {FOCUS} : view_mark[u] = NULL => view_mark'[u] = NULL
  BY <1>1, SetMarkKeeps DEF AssignMark, Base, Around
<1>4. UnmappedAtRest'
  BY <1>1, <1>3 DEF AssignMark, Base, Around, UnmappedAtRest
<1>5. PICK k \in EnterNormalMode(Focus("none"), p, Before) : Refocus(k)
  BY DEF AssignMark
<1>6. Keeps(Focus("none"), k, Refuge)
  BY <1>1, <1>5, FocusOutcome, EnterNormalModeKeeps, ScreensTyped, PointerTyped
     DEF Base, Around, Focused, Failure, Focus
<1> QED
  BY <1>2, <1>3, <1>4, <1>5, <1>6, RefocusKept DEF Around, Base, Focused

(* confirm_sheet_assign() pins the view, or moves it to another output.    *)
LEMMA AssignSheetKept ==
    ASSUME Base, NEW s \in Sheet, NEW p \in Pointer, AssignSheet(s, p)
    PROVE  Around' /\ FocusKept /\ (aborted' = "none" => Failed({FOCUS}, {}) = "none")
<1>1. /\ FOCUS \in mapped /\ FOCUS \in View /\ mode = "assign"
      /\ s[1] \in Refuge /\ s[1] \in Workspace
  BY ShownAreMapped
     DEF AssignSheet, HasFocus, Base, Focused, WorkspaceIsLive, Refuge, Sheet
<1>2. CASE OnWorkspace(FOCUS, s[1])
  <2>1. Around'
    BY <1>1, <1>2, PinKept DEF AssignSheet, Base, PlacementOnly, screen
  <2>2. PICK j \in PinFocus(FOCUS, s, p) :
           \E k \in EnterNormalMode(j, p, After) : Refocus(k)
    BY <1>2 DEF AssignSheet
  <2>3. PICK k \in EnterNormalMode(j, p, After) : Refocus(k)
    BY <2>2
  <2>4. PICK f : Keeps(Focus(f), j, Refuge)
    BY <1>1, <2>1, <2>2, PinFocusKeeps DEF Around
  <2>5. j.aborted = "none" => Failed({FOCUS}, {}) = "none"
    BY <1>1, <2>1, <2>2, PinFocusKeeps DEF Around
  <2>6. Keeps(Focus(f), k, Refuge) /\ (k.aborted = "none" => j.aborted = "none")
    BY <1>1, <2>1, <2>3, <2>4, ThenEnterNormalMode DEF Base, Around, Focus, Keeps
  <2> QED
    BY <2>1, <2>3, <2>5, <2>6, RefocusKept DEF Base, Focused, Refocus
<1>3. CASE ~OnWorkspace(FOCUS, s[1])
  <2>1. Around'
    BY <1>1, <1>3, MigrateKept DEF AssignSheet, Base, PlacementOnly, screen
  <2>2. PICK k \in EnterNormalMode(MigrateFocus(FOCUS, s[1]), p, After) : Refocus(k)
    BY <1>3 DEF AssignSheet
  <2>3. /\ Keeps(Focus("none"), MigrateFocus(FOCUS, s[1]), Refuge)
        /\ MigrateFocus(FOCUS, s[1]).aborted = Failed({FOCUS}, {})
    BY <1>1, MigrateFocusKeeps
  <2>4. /\ Keeps(Focus("none"), k, Refuge)
        /\ k.aborted = "none" => Failed({FOCUS}, {}) = "none"
    BY <1>1, <2>1, <2>2, <2>3, ThenEnterNormalMode DEF Base, Around, Focus, Keeps
  <2> QED
    BY <2>1, <2>2, <2>4, RefocusKept DEF Base, Focused, Refocus
<1> QED
  BY <1>2, <1>3

-----------------------------------------------------------------------------
(* The lock screen.                                                        *)

(* hikari_lock_mode_enter() takes the focus away before it locks.          *)
LEMMA LockKept ==
    ASSUME Base, Lock
    PROVE  Around' /\ Focused' /\ mode' = "lock" /\ UNCHANGED outputs
<1>1. ScreenType' /\ ListType' /\ MarkType' /\ MarksAgree' /\ MappedHavePlace' /\ ViewsAreLive'
  BY DEF Lock, Base, Around, ScreenType, ListType, MarkType, MarksAgree, MappedHavePlace,
         ViewsAreLive, Refuge, screen, lists, marks
<1>2. ViewType' /\ UnmappedAtRest'
  BY DEF Lock, OnOutputs, Base, Around, ViewType, UnmappedAtRest, flags, marks
<1> DEFINE k == FocusView(Focus("none"), workspace, NULL, Before)
<1>3. /\ workspace' = workspace /\ mode' = "lock"
      /\ focus_view' \in [Workspace -> Focusable] /\ focus_view'[workspace] = NULL
      /\ aborted' = "none"
  <2>1. k = [Focus("none") EXCEPT !.workspace = workspace, !.focus_view[workspace] = NULL]
    BY NamesAssumption
       DEF Lock, Acting, FocusView, Focus, Before, Screen, Base, Around, ViewType
  <2> HIDE DEF k
  <2>2. Refocus([k EXCEPT !.mode = "lock"])
    BY DEF Lock, k
  <2> QED
    BY <2>1, <2>2 DEF Refocus, Focus, Base, Focused, FocusType, Focusable
<1>4. Focused' /\ UNCHANGED outputs
  BY <1>3 DEF Lock, Acting, Base, Focused, FocusType, WorkspaceIsLive, Refuge, LockHasNoFocus,
              DialogueHasFocus, FOCUS, Mode, Failure, Focusable, screen, Running
<1> QED
  BY <1>1, <1>2, <1>3, <1>4 DEF Around

(* The focus after the lock screen goes to the workspace under the pointer *)
(* or stays.                                                               *)
LEMMA UnlockKept ==
    ASSUME Base, NEW p \in Pointer, Unlock(p)
    PROVE  Around' /\ Focused' /\ mode' # "lock" /\ UNCHANGED outputs
<1>1. ScreenType' /\ ListType' /\ MarkType' /\ MarksAgree' /\ MappedHavePlace' /\ ViewsAreLive'
  BY DEF Unlock, Base, Around, ScreenType, ListType, MarkType, MarksAgree, MappedHavePlace,
         ViewsAreLive, Refuge, screen, lists, marks
<1>2. ViewType' /\ UnmappedAtRest'
  BY DEF Unlock, OnOutputs, Base, Around, ViewType, UnmappedAtRest, flags, marks
<1>3. PICK k \in EnterNormalMode(Focus("none"), p, After) : Refocus(k)
  BY DEF Unlock
<1>4. /\ k \in Outcome /\ k.mode = "normal"
      /\ k.workspace \in Refuge \cup {workspace}
  <2>1. Focus("none") \in Outcome /\ Focus("none").workspace = workspace
    BY FocusOutcome DEF Base, Focused, Failure, Focus
  <2>2. ScreenTypes(After) /\ p \in Refuge \cup {NULL} /\ Refuge \subseteq Workspace
    BY <1>1, AfterTyped, PointerTyped DEF Base, Around
  <2> QED
    BY <1>3, <2>1, <2>2, EnterNormalModeKeeps
<1>5. Focused' /\ mode' # "lock" /\ UNCHANGED outputs
  BY <1>3, <1>4
     DEF Refocus, Outcome, Unlock, Base, Focused, FocusType, WorkspaceIsLive, Refuge,
         LockHasNoFocus, DialogueHasFocus, Focusable
<1> QED
  BY <1>1, <1>2, <1>5 DEF Around

-----------------------------------------------------------------------------
(* Outputs come and go.                                                    *)

(* The views of a workspace move to another one that is there afterwards.  *)
LEMMA MergeAround ==
    ASSUME Around, NEW from \in Workspace, NEW to \in Workspace, from # to,
           Merge(from, to), UNCHANGED <<mapped, forced, flags, view_group, marks>>,
           ScreenType', Staying \subseteq outputs', to \in Refuge',
           Refuge \subseteq Refuge' \cup {w \in {from} : from # Noop}
    PROVE  Around'
<1> DEFINE moved == OutputViews(from)
<1>1. moved \subseteq mapped /\ moved \subseteq View
  BY DEF OutputViews, Around, ViewType
<1>2. ListType'
  <2>1. PICK sunk : /\ sunk \subseteq moved
                    /\ Relist(sunk, (moved \cap Listed) \ sunk, view_sheet', view_group)
    BY DEF Merge
  <2> HIDE DEF moved
  <2> QED
    BY <1>1, <2>1, RelistType DEF Around
<1>3. ViewType'
  <2>1. \A v \in moved : <<to, view_sheet[v][2]>> \in Sheet
    BY <1>1 DEF OutputViews, OnWorkspace, IsLive, Sheet
  <2>2. view_sheet' = [v \in View |->
            IF v \in moved THEN <<to, view_sheet[v][2]>>
            ELSE IF from # Noop /\ OnWorkspace(v, from) THEN Freed ELSE view_sheet[v]]
    BY DEF Merge
  <2>3. hidden' \subseteq View /\ dirty' \subseteq View
    BY <1>1 DEF Merge, Around, ViewType
  <2> HIDE DEF moved
  <2> QED
    BY <2>1, <2>2, <2>3 DEF Around, ViewType, flags
<1>4. MarkType' /\ MarksAgree'
  BY DEF Around, MarkType, MarksAgree, marks
<1>5. UnmappedAtRest'
  BY <1>1 DEF Merge, Around, UnmappedAtRest, ViewType, marks
<1>6. MappedHavePlace'
  BY <1>1 DEF Merge, Around, MappedHavePlace, ViewType, OutputViews, OnWorkspace, Sheet
<1>7. ViewsAreLive'
  <2>1. ASSUME NEW v \in View, view_sheet'[v] \in Sheet PROVE view_sheet'[v][1] \in Refuge'
    <3>1. CASE v \in moved
      BY <2>1, <3>1 DEF Merge
    <3>2. CASE v \notin moved /\ from # Noop /\ OnWorkspace(v, from)
      BY <2>1, <3>2, NamesAssumption DEF Merge
    <3>3. CASE v \notin moved /\ ~(from # Noop /\ OnWorkspace(v, from))
      BY <2>1, <3>3 DEF Merge, Around, ViewsAreLive, OnWorkspace, IsLive
    <3> QED
      BY <3>1, <3>2, <3>3
  <2> QED
    BY <2>1 DEF ViewsAreLive, Staying
<1> QED
  BY <1>2, <1>3, <1>4, <1>5, <1>6, <1>7 DEF Around

(* Their focus is given up first.                                          *)
LEMMA MergeFocusKeeps ==
    ASSUME Base, NEW from \in Workspace, NEW p \in Output \cup {NULL},
           NEW k \in MergeFocus(from, p)
    PROVE  Keeps(Focus("none"), k, Workspace)
<1>1. Focus("none") \in Outcome /\ Keeps(Focus("none"), Focus("none"), Workspace)
  BY FocusOutcome, KeepsReflexive DEF Base, Focused, Failure
<1>2. CASE focus_view[from] \in OutputViews(from)
  <2>1. k \in ClearFocus(Focus("none"), focus_view[from], p, Before) /\ focus_view[from] \in View
    BY <1>2 DEF MergeFocus, OutputViews, Base, Around, ViewType
  <2>2. p \in Workspace \cup {NULL}
    BY DEF Workspace
  <2> QED
    BY <1>1, <2>1, <2>2, ClearFocusKeeps, ScreensTyped DEF Base, Around
<1>3. CASE focus_view[from] \notin OutputViews(from)
  BY <1>1, <1>3 DEF MergeFocus
<1> QED
  BY <1>2, <1>3

(* What is known of a focus that has been moved to workspace w.            *)
LEMMA FocusViewGoes ==
    ASSUME NEW k \in Outcome, NEW w \in Workspace, NEW v \in Focusable, NEW s
    PROVE  /\ FocusView(k, w, v, s) \in Outcome
           /\ FocusView(k, w, v, s).mode = k.mode
           /\ FocusView(k, w, v, s).aborted = "none" =>
                 /\ k.aborted = "none" /\ k.mode = "normal"
                 /\ FocusView(k, w, v, s).workspace = w
BY DEF FocusView, Outcome, Failure, Mode

(* hikari_output_init() of the first output takes the views of noop.       *)
LEMMA OutputAddKept ==
    ASSUME Base, NEW o \in Output, NEW p \in Output \cup {NULL}, OutputAdd(o, p)
    PROVE  Around' /\ Focused' /\ (mode = "lock" <=> mode' = "lock")
<1>1. ScreenType' /\ o \in Workspace /\ Noop \in Workspace /\ o # Noop
      /\ Refuge' = Refuge \cup {o} /\ Staying \subseteq outputs'
  BY NamesAssumption DEF OutputAdd, Base, Around, ScreenType, Workspace, Refuge, ViewsAreLive
<1>2. CASE outputs = {}
  <2>1. Around'
    BY <1>1, <1>2, MergeAround DEF OutputAdd, Base
  <2>2. PICK k \in MergeFocus(Noop, p) : Refocus(FocusView(k, o, NULL, After))
    BY <1>2 DEF OutputAdd
  <2>3. Keeps(Focus("none"), k, Workspace)
    BY <1>1, <2>2, MergeFocusKeeps
  <2> DEFINE n == FocusView(k, o, NULL, After)
  <2>4. /\ n \in Outcome /\ n.mode = k.mode
        /\ n.aborted = "none" => k.mode = "normal" /\ n.workspace = o
    BY <1>1, <2>3, FocusViewGoes DEF Keeps, Focusable
  <2>5. k.mode = "lock" => n.workspace = k.workspace /\ n.focus_view = k.focus_view
    BY DEF FocusView
  <2>6. k.mode = "lock" <=> mode = "lock"
    BY <2>3 DEF Keeps, Focus
  <2>7. k.mode = "lock" => n.workspace = workspace /\ n.focus_view[workspace] = NULL
    BY <2>3, <2>5, <2>6 DEF Keeps, Focus, Base, Focused, LockHasNoFocus, FOCUS, FocusType
  <2>8. FocusType' /\ workspace' = n.workspace /\ focus_view' = n.focus_view /\ mode' = n.mode
        /\ aborted' = n.aborted
    BY <2>2, <2>4 DEF Refocus, Outcome, FocusType, Focusable
  <2>9. WorkspaceIsLive'
    BY <1>1, <2>4, <2>8 DEF WorkspaceIsLive, Running
  <2>10. LockHasNoFocus'
    BY <2>4, <2>7, <2>8 DEF LockHasNoFocus, FOCUS
  <2>11. DialogueHasFocus'
    <3>1. k \in Outcome /\ NULL \in Focusable
      BY <2>3 DEF Keeps, Focusable
    <3>2. Keeps(k, n, Workspace)
      BY <1>1, <3>1, FocusViewKeeps
    <3>3. Attends(Focus("none"))
      BY DEF Attends, Focus, Base, Focused, DialogueHasFocus, FOCUS
    <3>4. Attends(n)
      BY <2>3, <3>2, <3>3 DEF Keeps
    <3> QED
      BY <2>8, <3>4 DEF Attends, DialogueHasFocus, FOCUS
  <2> QED
    BY <2>1, <2>4, <2>6, <2>8, <2>9, <2>10, <2>11 DEF Focused
<1>3. CASE outputs # {}
  <2>1. UNCHANGED <<focus, hidden, lists, dirty, view_sheet, current_sheet, mapped, forced,
                    flags, view_group, marks>>
    BY <1>3 DEF OutputAdd
  <2>2. Around'
    BY <1>1, <2>1
       DEF Base, Around, ViewType, ListType, MarkType, MarksAgree, UnmappedAtRest,
           MappedHavePlace, ViewsAreLive, lists, flags, marks, Staying
  <2>3. Focused' /\ (mode = "lock" <=> mode' = "lock")
    BY <1>1, <2>1
       DEF Base, Focused, FocusType, WorkspaceIsLive, LockHasNoFocus, DialogueHasFocus,
           FOCUS, focus, Running
  <2> QED
    BY <2>2, <2>3
<1> QED
  BY <1>2, <1>3

(* hikari_output_fini() leaves no view and no focus on the output that     *)
(* goes.                                                                   *)
LEMMA OutputRemoveKept ==
    ASSUME Base, NEW o \in Output, NEW to \in Workspace, NEW p \in Output \cup {NULL},
           OutputRemove(o, to, p)
    PROVE  Around' /\ Focused' /\ (mode = "lock" <=> mode' = "lock")
<1>1. /\ ScreenType' /\ o \in Workspace /\ o # to /\ o # Noop
      /\ Staying \subseteq outputs' /\ to \in Refuge'
      /\ Refuge \subseteq Refuge' \cup {o}
  BY NamesAssumption, SheetNrAssumption
     DEF OutputRemove, Base, Around, ScreenType, Workspace, Refuge, ViewsAreLive, Staying
<1>2. Around'
  BY <1>1, MergeAround DEF OutputRemove, Base
<1>3. PICK j \in MergeFocus(o, p) :
         \E k \in FocusOther(j, to, p) : Refocus([k EXCEPT !.focus_view[o] = NULL])
  BY DEF OutputRemove
<1>4. Keeps(Focus("none"), j, Workspace)
  BY <1>1, <1>3, MergeFocusKeeps
<1>5. PICK k \in FocusOther(j, to, p) : Refocus([k EXCEPT !.focus_view[o] = NULL])
  BY <1>3
<1>6. j \in Outcome /\ (j.mode = "lock" <=> mode = "lock")
  BY <1>4 DEF Keeps, Focus
<1>7. /\ k \in Outcome /\ (k.mode = "lock" <=> j.mode = "lock")
      /\ k.aborted = "none" => k.workspace = to
      /\ k.mode = "lock" => k.focus_view[k.workspace] = NULL
      /\ k.mode \in {"normal", "lock"}
  <2>1. CASE j.mode = "lock"
    <3>1. k = [j EXCEPT !.workspace = to, !.focus_view[to] = NULL]
      BY <1>5, <2>1 DEF FocusOther
    <3> QED
      BY <1>6, <2>1, <3>1 DEF Outcome, Focusable
  <2>2. CASE j.mode # "lock"
    <3>1. PICK i \in IF j.mode = "normal" THEN {j} ELSE EnterNormalMode(j, p, After) :
             k = FocusView(i, to, NULL, After)
      BY <1>5, <2>2 DEF FocusOther
    <3>2. i \in Outcome /\ i.mode = "normal"
      <4>1. p \in Workspace \cup {NULL}
        BY DEF Workspace
      <4> QED
        BY <1>2, <1>6, <2>2, <3>1, <4>1, EnterNormalModeKeeps, AfterTyped DEF Around
    <3> QED
      BY <2>2, <3>1, <3>2, FocusViewGoes DEF Focusable
  <2> QED
    BY <2>1, <2>2
<1> DEFINE n == [k EXCEPT !.focus_view[o] = NULL]
<1>8. /\ n \in Outcome /\ n.mode = k.mode /\ n.workspace = k.workspace /\ n.aborted = k.aborted
      /\ k.mode = "lock" => n.focus_view[n.workspace] = NULL
  BY <1>1, <1>7 DEF Outcome, Focusable
<1>9. FocusType' /\ workspace' = n.workspace /\ focus_view' = n.focus_view /\ mode' = n.mode
      /\ aborted' = n.aborted
  BY <1>5, <1>8 DEF Refocus, Outcome, FocusType, Focusable
<1>10. WorkspaceIsLive'
  BY <1>1, <1>7, <1>8, <1>9 DEF WorkspaceIsLive, Running
<1>11. LockHasNoFocus'
  BY <1>7, <1>8, <1>9 DEF LockHasNoFocus, FOCUS
<1>12. DialogueHasFocus'
  BY <1>7, <1>8, <1>9 DEF DialogueHasFocus
<1> QED
  BY <1>2, <1>6, <1>7, <1>8, <1>9, <1>10, <1>11, <1>12 DEF Focused

-----------------------------------------------------------------------------
(* The whole of Desktop.                                                   *)

(* Nothing that a client does disturbs the invariant.                      *)
LEMMA ClientKept ==
    ASSUME Base, NEW p \in Pointer, ClientNext(p)
    PROVE  Around' /\ FocusKept /\ UNCHANGED outputs
<1>1. PICK v \in View :
         \/ \E c \in ViewConfig : Map(v, c, p)
         \/ MapOnFreedSheet(v)
         \/ Unmap(v, p)
         \/ Destroy(v)
         \/ RequestMinimize(v, p)
         \/ RequestActivate(v)
         \/ QueueOperation(v)
         \/ \E center \in BOOLEAN : Commit(v, center, p)
  BY DEF ClientNext
<1>2. UNCHANGED outputs
  BY <1>1
     DEF Map, MapOnFreedSheet, Unmap, Destroy, RequestMinimize, RequestActivate,
         QueueOperation, Commit, screen, VisibilityOnly, FocusOnly
<1>3. Around' /\ FocusKept
  BY <1>1, MapKept, MapOnFreedSheetKept, UnmapKept, DestroyKept, RequestMinimizeKept,
     RequestActivateKept, QueueOperationKept, CommitKept
<1> QED
  BY <1>2, <1>3

(* The views that show_all, show_invisible and show_group show.            *)
LEMMA ShowKept ==
    ASSUME Base, NEW scope, NEW what, NEW p \in Pointer, ShowViews(scope, what, p)
    PROVE  Around' /\ FocusKept
<1>1. Candidates(scope, what) \in SUBSET mapped
  BY ShownAreMapped
<1>2. PICK k \in CursorFocusTwice({Focus("none")}, workspace, Candidates(scope, what), p) :
         Refocus(k)
  BY DEF ShowViews
<1> QED
  BY <1>1, <1>2, ShowViewsKept DEF ShowViews

(* hikari_workspace_clear() shows none.                                    *)
LEMMA ClearKept ==
    ASSUME Base, NEW p \in Pointer, WorkspaceClear(p)
    PROVE  Around' /\ FocusKept
<1>1. {} \in SUBSET mapped
  OBVIOUS
<1>2. PICK k \in CursorFocusTwice({Focus("none")}, workspace, {}, p) : Refocus(k)
  BY DEF WorkspaceClear
<1> QED
  BY <1>1, <1>2, ShowViewsKept DEF WorkspaceClear

(* Nothing that the user does in normal mode disturbs the invariant.       *)
LEMMA UserKept ==
    ASSUME Base, NEW p \in Pointer, UserNext(p)
    PROVE  Around' /\ FocusKept /\ UNCHANGED outputs
<1>1. CASE PointerMotion(p)
  BY <1>1, PointerMotionKept DEF PointerMotion, FocusOnly, screen
<1>2. CASE \E nr \in SheetNr : DisplaySheet(nr, p) \/ PinToSheet(nr, p)
  BY <1>2, DisplaySheetKept, PinToSheetKept
     DEF DisplaySheet, PinToSheet, VisibilityOnly, screen
<1>3. CASE \/ \E scope \in {"workspace", "sheet"}, what \in {"all", "invisible", "group"} :
                 ShowViews(scope, what, p)
           \/ WorkspaceClear(p)
  BY <1>3, ShowKept, ClearKept DEF ShowViews, WorkspaceClear, VisibilityOnly
<1>4. CASE HideView(p) \/ OnlyView(p) \/ HideGroup(p)
  <2>1. PICK gone : /\ HideViews(gone, p)
                    /\ \/ gone = {FOCUS}
                       \/ gone = workspace_views[workspace] \ {FOCUS}
                       \/ gone = UNION {visible_group_views[g] :
                                           g \in {view_group[FOCUS]} \cap Group}
    BY <1>4 DEF HideView, OnlyView, HideGroup
  <2>2. gone \in SUBSET View
    BY <2>1, HiddenAreViews DEF HideViews
  <2> QED
    BY <2>1, <2>2, HideViewsKept DEF HideViews, VisibilityOnly
<1>5. CASE \E first \in Pointer : OnlyGroup(first, p)
  <2>1. PICK first \in Pointer : OnlyGroup(first, p)
    BY <1>5
  <2>2. UNCHANGED outputs
    BY <2>1 DEF OnlyGroup, VisibilityOnly
  <2> QED
    BY <2>1, <2>2, OnlyGroupKept
<1>6. CASE \/ \E o \in Output : MoveToOutput(o) \/ CycleWorkspace(o)
           \/ CycleFromNoop \/ UseStaleFocus
           \/ ToggleInvisible \/ TogglePublic
           \/ \E v \in View : CycleView(v)
  <2>1. UNCHANGED outputs
    BY <1>6 DEF MoveToOutput, CycleWorkspace, CycleFromNoop, UseStaleFocus,
                ToggleInvisible, TogglePublic, CycleView, FocusOnly, screen
  <2>2. "normal" \in Mode
    BY DEF Mode
  <2> QED
    BY <1>6, <2>1, <2>2, MoveToOutputKept, CycleWorkspaceKept, EnterModeKept, ToggleKept,
       CycleViewKept
<1>7. CASE \E m \in Mark, q \in Pointer : ShowMark(m, p, q) \/ SwitchToMark(m, p, q)
  <2>1. PICK m \in Mark, q \in Pointer : ShowMark(m, p, q) \/ SwitchToMark(m, p, q)
    BY <1>7
  <2>2. UNCHANGED outputs
    BY <2>1 DEF ShowMark, SwitchToMark, VisibilityOnly
  <2>3. Around' /\ FocusKept
    BY <2>1, ShowMarkKept, SwitchToMarkKept
  <2> QED
    BY <2>2, <2>3
<1> QED
  BY <1>1, <1>2, <1>3, <1>4, <1>5, <1>6, <1>7 DEF UserNext

(* Neither do the dialogues, the drag and the lock screen.                 *)
LEMMA ModeNextKept ==
    ASSUME Base, NEW p \in Pointer, ModeNext(p) PROVE Base'
<1>1. CASE Lock \/ Unlock(p)
  BY <1>1, LockKept, UnlockKept DEF Base
<1>2. ASSUME FocusKept, Around', UNCHANGED outputs, Running PROVE Base'
  BY <1>2, FocusKeptFocused DEF Base, Around
<1>3. CASE (\E m \in Mode : EnterMode(m)) \/ EnterMarkSelect \/ LeaveMode(p)
  <2>1. UNCHANGED outputs /\ Running
    BY <1>3 DEF EnterMode, EnterMarkSelect, LeaveMode, FocusOnly, screen, Acting
  <2> QED
    BY <1>2, <1>3, <2>1, EnterModeKept, EnterMarkSelectKept, LeaveModeKept
<1>4. CASE \/ \E g \in Group : AssignGroup(g, p)
           \/ \E m \in Mark \cup {NULL} : AssignMark(m, p)
           \/ \E s \in Sheet : AssignSheet(s, p)
  <2>1. UNCHANGED outputs /\ Running
    BY <1>4 DEF AssignGroup, AssignMark, AssignSheet, screen
  <2> QED
    BY <1>2, <1>4, <2>1, AssignGroupKept, AssignMarkKept, AssignSheetKept
<1> QED
  BY <1>1, <1>3, <1>4 DEF ModeNext

(* The invariant holds at the start: the first workspace is an output's    *)
(* unless there is none.                                                   *)
LEMMA InitBase == ASSUME Init PROVE Base
<1>1. ScreenType /\ FocusType
  BY SheetNrAssumption, NamesAssumption
     DEF Init, ScreenType, FocusType, Workspace, Mode, Failure
<1>2. ViewType /\ ListType /\ MarkType
  BY DEF Init, ViewType, ListType, MarkType
<1>3. MarksAgree /\ UnmappedAtRest /\ MappedHavePlace
  BY NamesAssumption DEF Init, MarksAgree, UnmappedAtRest, MappedHavePlace
<1>4. ViewsAreLive /\ WorkspaceIsLive
  BY NamesAssumption
     DEF Init, ViewsAreLive, WorkspaceIsLive, Refuge, Staying, Sheet, Workspace
<1>5. LockHasNoFocus /\ DialogueHasFocus
  BY DEF Init, LockHasNoFocus, DialogueHasFocus
<1> QED
  BY <1>1, <1>2, <1>3, <1>4, <1>5 DEF Base, Around, Focused

(* After a failed assertion no handler runs.                               *)
LEMMA NextRuns == ASSUME Next PROVE Running
<1>1. ASSUME NEW p \in Pointer, ClientNext(p) PROVE Running
  BY <1>1 DEF ClientNext, Map, MapOnFreedSheet, Unmap, Destroy, RequestMinimize,
              RequestActivate, QueueOperation, Commit, Acting
<1>2. ASSUME NEW p \in Pointer, UserNext(p) PROVE Running
  BY <1>2 DEF UserNext, PointerMotion, DisplaySheet, PinToSheet, ShowViews, WorkspaceClear,
              HideView, OnlyView, HideGroup, HideViews, OnlyGroup, MoveToOutput,
              CycleWorkspace, CycleFromNoop, UseStaleFocus, ToggleInvisible, TogglePublic,
              CycleView, ShowMark, SwitchToMark, Acting
<1>3. ASSUME NEW p \in Pointer, ModeNext(p) PROVE Running
  BY <1>3 DEF ModeNext, EnterMode, EnterMarkSelect, LeaveMode, AssignGroup, AssignMark,
              AssignSheet, Lock, Unlock, Acting
<1>4. ASSUME NEW p \in Output \cup {NULL}, OutputNext(p) PROVE Running
  BY <1>4 DEF OutputNext, OutputAdd, OutputRemove
<1> QED
  BY <1>1, <1>2, <1>3, <1>4 DEF Next

(* Every handler keeps it.                                                 *)
LEMMA NextBase == ASSUME Base, [Next]_vars PROVE Base'
<1>1. CASE \E p \in Pointer : ClientNext(p)
  <2>1. PICK p \in Pointer : ClientNext(p)
    BY <1>1
  <2>2. Running
    BY <1>1, NextRuns DEF Next
  <2>3. Around' /\ FocusKept /\ UNCHANGED outputs
    BY <2>1, ClientKept
  <2> QED
    BY <2>2, <2>3, FocusKeptFocused DEF Base, Around
<1>2. CASE \E p \in Pointer : UserNext(p)
  <2>1. PICK p \in Pointer : UserNext(p)
    BY <1>2
  <2>2. Running
    BY <1>2, NextRuns DEF Next
  <2>3. Around' /\ FocusKept /\ UNCHANGED outputs
    BY <2>1, UserKept
  <2> QED
    BY <2>2, <2>3, FocusKeptFocused DEF Base, Around
<1>3. CASE \E p \in Pointer : ModeNext(p)
  BY <1>3, ModeNextKept
<1>4. CASE \E p \in Output \cup {NULL} : OutputNext(p)
  BY <1>4, OutputAddKept, OutputRemoveKept DEF OutputNext, Base
<1>5. CASE UNCHANGED vars
  BY <1>5
     DEF vars, screen, focus, flags, lists, marks, Base, Around, Focused, ScreenType, FocusType,
         ViewType, ListType, MarkType, MarksAgree, UnmappedAtRest, MappedHavePlace,
         ViewsAreLive, WorkspaceIsLive, LockHasNoFocus, DialogueHasFocus, FOCUS, Refuge,
         Staying, Running
<1> QED
  BY <1>1, <1>2, <1>3, <1>4, <1>5 DEF Next

(* The invariant holds of every behaviour of Desktop.                      *)
THEOREM BaseInvariant == Spec => []Base
<1>1. Init => Base
  BY InitBase
<1>2. Base /\ [Next]_vars => Base'
  BY NextBase
<1> QED
  BY <1>1, <1>2, PTL DEF Spec

(* Every variable has its type, for all views, outputs, groups and marks.  *)
THEOREM TypeCorrect == Spec => []TypeOK
<1>1. Base => TypeOK
  BY DEF Base, Around, Focused, TypeOK
<1> QED
  BY <1>1, BaseInvariant, PTL

(* hikari_mark_set() and hikari_mark_clear() keep views and marks paired,  *)
(* through maps and unmaps, and however often a mark is taken over.        *)
THEOREM MarksStayPaired == Spec => []MarksAgree
<1>1. Base => MarksAgree
  BY DEF Base, Around
<1> QED
  BY <1>1, BaseInvariant, PTL

(* No handler gives a view of the current workspace the focus while the    *)
(* screen is locked, outputs that come and go included.                    *)
THEOREM LockKeepsFocusAway == Spec => []LockHasNoFocus
<1>1. Base => LockHasNoFocus
  BY DEF Base, Focused
<1> QED
  BY <1>1, BaseInvariant, PTL

(* A dialogue or a drag goes on only as long as the workspace has a focus   *)
(* view, which it is about: clear_focus() and the outputs that go end it    *)
(* when they take the focus away.                                           *)
THEOREM DialoguesKeepTheirFocus == Spec => []DialogueHasFocus
<1>1. Base => DialogueHasFocus
  BY DEF Base, Focused
<1> QED
  BY <1>1, BaseInvariant, PTL

(* No mapped view and, as long as the process runs, not the server either  *)
(* is left on the workspace of an output that is gone.                     *)
THEOREM WorkspacesStayLive == Spec => []WorkspacesAreLive
<1>1. Base => WorkspacesAreLive
  <2>1. Refuge \subseteq outputs \cup {Noop}
    BY DEF Refuge
  <2> QED
    BY <2>1 DEF Base, Around, Focused, MappedHavePlace, ViewsAreLive, ViewType,
                WorkspaceIsLive, WorkspacesAreLive, OnWorkspace, IsLive
<1> QED
  BY <1>1, BaseInvariant, PTL
=============================================================================
