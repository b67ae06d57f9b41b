------------------------------ MODULE Desktop ------------------------------
(***************************************************************************)
(* Which views hikari shows and which of them has the focus: the sheets,   *)
(* groups and marks of view.c, sheet.c, group.c and mark.c, the workspaces *)
(* of workspace.c, the focus that follows the pointer (normal_mode.c), the *)
(* screen lock that overrides visibility (lock_mode.c) and the outputs     *)
(* that come and go (output.c).                                            *)
(*                                                                         *)
(* hikari is one process around one event loop, so a handler is one step.  *)
(* The order of the views in a list and every geometry are left out: what  *)
(* lies under the pointer, and which view of several comes first, is a     *)
(* nondeterministic choice.  A failed assert(), or the use of a sheet that *)
(* was freed, ends the process: `aborted` says which one it was.           *)
(***************************************************************************)
EXTENDS Naturals, FiniteSets

CONSTANTS
    View, Output, Group, Mark,  \* the views, outputs, groups and marks
    Noop,       \* server.noop_output, which is never in server.outputs
    SheetNr,    \* the sheets of a workspace that are used (0 to 9 in the code)
    ViewConfig, \* the properties the configuration gives to a client
    Initial,    \* the outputs that are there at the start
    Pluggable,  \* the outputs that may be plugged and unplugged
    NULL, Freed

ASSUME SheetNrAssumption == SheetNr \subseteq 0 .. 9 /\ {0, 1} \subseteq SheetNr

Workspace == Output \cup {Noop}
Sheet == Workspace \X SheetNr
Config == [sheet : SheetNr \cup {NULL}, group : Group, mark : Mark \cup {NULL},
           public : BOOLEAN, invisible : BOOLEAN]

ASSUME NamesAssumption ==
    /\ Noop \notin Output
    /\ NULL \notin View \cup Workspace \cup Group \cup Mark \cup SheetNr \cup Sheet
    /\ Freed \notin View \cup Sheet \cup {NULL}
    /\ Initial \subseteq Output /\ Pluggable \subseteq Output
    /\ ViewConfig \subseteq Config

VARIABLES
    outputs,        \* server.outputs
    current_sheet,  \* workspace->sheet, by its number
    workspace,      \* server.workspace
    focus_view,     \* workspace->focus_view of every workspace
    mode,           \* server.mode
    mapped,         \* the views with a surface
    hidden, forced, public, invisible,  \* the flags of a view
    dirty,          \* the views with a pending operation
    view_sheet,     \* view->sheet, a pair of workspace and number
    view_group,     \* view->group
    visible_server_views,  \* the list server.visible_views
    workspace_views,       \* the list workspace->views of every workspace
    visible_group_views,   \* the list group->visible_views of every group
    mark_view, view_mark,  \* mark->view and view->mark
    aborted         \* "none", or the assertion that failed

lists == <<visible_server_views, workspace_views, visible_group_views>>
flags == <<public, invisible>>
marks == <<mark_view, view_mark>>
screen == <<outputs, current_sheet>>
focus == <<workspace, focus_view, mode, aborted>>
vars == <<screen, focus, mapped, hidden, forced, flags, dirty, view_sheet,
          view_group, lists, marks>>

(* "assign" stands for the modes in which the keys go to a dialogue about  *)
(* the focus view (sheet, group and mark assign, input grab), "move" for   *)
(* the mode that drags it, "select" for the mark select mode.              *)
Mode == {"normal", "assign", "move", "select", "lock"}

Failure == {"none", "view_state", "focus_hidden", "focus_not_normal",
            "clear_focus_locked", "stale_focus", "freed_view", "freed_sheet", "no_output"}

ScreenType ==
    outputs \subseteq Output /\ current_sheet \in [Workspace -> SheetNr]

FocusType ==
    /\ workspace \in Workspace
    /\ focus_view \in [Workspace -> View \cup {NULL, Freed}]
    /\ mode \in Mode /\ aborted \in Failure

ViewType ==
    /\ mapped \subseteq View /\ hidden \subseteq View /\ forced \subseteq View
    /\ public \subseteq View /\ invisible \subseteq View /\ dirty \subseteq View
    /\ view_sheet \in [View -> Sheet \cup {NULL, Freed}]
    /\ view_group \in [View -> Group \cup {NULL}]

ListType ==
    /\ visible_server_views \subseteq View
    /\ workspace_views \in [Workspace -> SUBSET View]
    /\ visible_group_views \in [Group -> SUBSET View]

MarkType ==
    /\ mark_view \in [Mark -> View \cup {NULL}]
    /\ view_mark \in [View -> Mark \cup {NULL}]

(* Every pointer of the screen, the focus, the views, their lists and the  *)
(* marks is null, freed or to an object of its kind.                       *)
TypeOK == ScreenType /\ FocusType /\ ViewType /\ ListType /\ MarkType

-----------------------------------------------------------------------------
(* Views and sheets.                                                       *)

IsLive(sheet) == sheet \in Sheet
OnWorkspace(v, w) == IsLive(view_sheet[v]) /\ view_sheet[v][1] = w
SheetIsVisible(sheet) == sheet[2] \in {0, current_sheet[sheet[1]]}

(* The views in the three lists of what is visible: outside the lock       *)
(* screen the ones that are not hidden; the lock screen hides or reveals a *)
(* view by `forced` and leaves the lists as they will be after it.         *)
Listed == {v \in mapped : v \in hidden <=> v \in forced}

(* hide() takes `gone` out of the lists, place_visibly_above() moves       *)
(* `placed` to where its sheet and its group are now.  The mutant leaves   *)
(* it in the list of its former workspace as well.                         *)
RelistStaysOnWorkspace(gone, placed, sheet, group) ==
    /\ visible_server_views' = (visible_server_views \ gone) \cup placed
    /\ workspace_views' = [w \in Workspace |->
          (workspace_views[w] \ gone)
              \cup {v \in placed : IsLive(sheet[v]) /\ sheet[v][1] = w}]
    /\ visible_group_views' = [g \in Group |->
          (visible_group_views[g] \ (gone \cup placed))
              \cup {v \in placed : group[v] = g}]

Relist(gone, placed, sheet, group) ==
    /\ visible_server_views' = (visible_server_views \ gone) \cup placed
    /\ workspace_views' = [w \in Workspace |->
          (workspace_views[w] \ (gone \cup placed))
              \cup {v \in placed : IsLive(sheet[v]) /\ sheet[v][1] = w}]
    /\ visible_group_views' = [g \in Group |->
          (visible_group_views[g] \ (gone \cup placed))
              \cup {v \in placed : group[v] = g}]

(* hikari_view_hide() and place_visibly_above() assert that the view is    *)
(* shown, hikari_view_show() that it is hidden, all three that the lock    *)
(* screen does not override it.                                            *)
Failed(gone, shown) ==
    IF gone \cap (hidden \cup forced) = {} /\ shown \cap forced = {}
    THEN "none" ELSE "view_state"

(* place_visibly_above().                                                  *)
Place(v, sheet, group) ==
    IF Failed({v}, {}) = "none" THEN Relist({}, {v}, sheet, group) ELSE UNCHANGED lists

(* Hide the views of `gone`, then show the ones of `shown`, which are      *)
(* hidden by then.                                                         *)
HideAndShow(gone, shown) ==
    IF Failed(gone, shown) = "none"
    THEN /\ hidden' = (hidden \cup gone) \ shown
         /\ Relist(gone, shown, view_sheet, view_group)
    ELSE UNCHANGED <<hidden, lists>>

-----------------------------------------------------------------------------
(* The focus.  A handler moves it several times, so what those functions   *)
(* change is a record k, and a function that looks at what is under the    *)
(* pointer gives the set of its outcomes.  s is the screen it looks at.    *)

Focus(failure) == [workspace |-> workspace, focus_view |-> focus_view,
                   mode |-> mode, aborted |-> failure]

Screen(views, hid, current, sheet) ==
    [views |-> views, hidden |-> hid, current_sheet |-> current, sheet |-> sheet]

Before == Screen(workspace_views, hidden, current_sheet, view_sheet)
After == Screen(workspace_views', hidden', current_sheet', view_sheet')
Cleared(gone) == Screen([w \in Workspace |-> workspace_views[w] \ gone],
                        hidden \cup gone, current_sheet, view_sheet)

(* hikari_workspace_focus_view().                                          *)
FocusView(k, w, v, s) ==
    IF k.aborted # "none" THEN k
    ELSE IF k.mode # "normal" THEN [k EXCEPT !.aborted = "focus_not_normal"]
    ELSE IF v = Freed THEN [k EXCEPT !.aborted = "stale_focus"]
    ELSE IF v \in s.hidden THEN [k EXCEPT !.aborted = "focus_hidden"]
    ELSE [k EXCEPT !.workspace = w, !.focus_view[w] = v]

(* hikari_workspace_first_view(): the view that had the focus last, or     *)
(* else the first visible one of the current sheet.                        *)
FirstView(k, w, s) ==
    LET onSheet == {v \in View \ s.hidden : s.sheet[v] = <<w, s.current_sheet[w]>>}
    IN  IF k.focus_view[w] # NULL THEN {k.focus_view[w]}
        ELSE IF onSheet = {} THEN {NULL} ELSE onSheet

(* hikari_server_cursor_focus() with the pointer on output p (NULL: on no  *)
(* output, or a button is held): the focus goes to the view under the      *)
(* pointer; over none it goes to the workspace the pointer is on.          *)
CursorFocus(k, p, s) ==
    LET has == k.focus_view[k.workspace] IN
    IF k.aborted # "none" \/ k.mode # "normal" \/ p = NULL THEN {k}
    ELSE {FocusView(k, p, v, s) : v \in s.views[p] \ {has}}
         \cup {k : v \in s.views[p] \cap {has}}
         \cup (IF k.workspace = p THEN {k}
               ELSE {FocusView(k, p, v, s) : v \in FirstView(k, p, s)})

CursorFocusAll(K, p, s) == UNION {CursorFocus(k, p, s) : k \in K}

(* hikari_server_enter_normal_mode().                                      *)
EnterNormalMode(k, p, s) == CursorFocus([k EXCEPT !.mode = "normal"], p, s)

(* Mutants of the two that follow: the dialogue about the view stays open,  *)
(* and the views are hidden without clear_focus().                         *)
ClearFocusInDialogue(k, v, p, s) ==
    LET w == view_sheet[v][1] IN
    IF k.aborted # "none" \/ k.focus_view[w] # v THEN {k}
    ELSE {[k EXCEPT !.focus_view[w] = NULL]}

UnfocusNobody(k, gone) == k

(* clear_focus(): a view about to be hidden gives up the focus, and ends a *)
(* dialogue about it.                                                      *)
ClearFocus(k, v, p, s) ==
    LET w == view_sheet[v][1] IN
    IF k.aborted # "none" \/ k.focus_view[w] # v THEN {k}
    ELSE IF k.focus_view[k.workspace] # v THEN {[k EXCEPT !.focus_view[w] = NULL]}
    ELSE IF k.mode = "lock" THEN {[k EXCEPT !.aborted = "clear_focus_locked"]}
    ELSE {FocusView(j, j.workspace, NULL, s) :
             j \in IF k.mode = "normal" THEN {k} ELSE EnterNormalMode(k, p, s)}

(* clear_focus() of all the views of `gone`, in normal mode.               *)
Unfocus(k, gone) ==
    LET cleared == {v \in gone : k.focus_view[view_sheet[v][1]] = v}
        has == k.focus_view[k.workspace]
        on(v) == IF v = has THEN k.workspace ELSE view_sheet[v][1]
    IN [k EXCEPT !.focus_view = [w \in Workspace |->
           IF @[w] \in cleared /\ w = on(@[w]) THEN NULL ELSE @[w]]]

Refocus(k) ==
    /\ workspace' = k.workspace /\ focus_view' = k.focus_view
    /\ mode' = k.mode /\ aborted' = k.aborted

Pointer == outputs \cup {NULL}
FOCUS == focus_view[workspace]
HasFocus == FOCUS \in mapped
Running == aborted = "none"
Acting == Running /\ mode = "normal"    \* key, button and switch actions

Init ==
    /\ outputs = Initial
    /\ current_sheet = [w \in Workspace |-> 1]
    /\ workspace \in IF Initial = {} THEN {Noop} ELSE Initial
    /\ focus_view = [w \in Workspace |-> NULL]
    /\ mode = "normal" /\ aborted = "none"
    /\ mapped = {} /\ hidden = View /\ forced = {}
    /\ public = {} /\ invisible = {} /\ dirty = {}
    /\ view_sheet = [v \in View |-> NULL]
    /\ view_group = [v \in View |-> NULL]
    /\ visible_server_views = {}
    /\ workspace_views = [w \in Workspace |-> {}]
    /\ visible_group_views = [g \in Group |-> {}]
    /\ mark_view = [m \in Mark |-> NULL]
    /\ view_mark = [v \in View |-> NULL]

-----------------------------------------------------------------------------
(* What clients do.                                                        *)

VisibilityOnly ==
    UNCHANGED <<outputs, mapped, forced, flags, dirty, view_sheet, view_group, marks>>

FocusOnly == UNCHANGED <<screen, mapped, hidden, forced, flags, dirty, view_sheet,
                         view_group, lists, marks>>

(* hikari_mark_set() and hikari_mark_clear(): m is NULL for no mark.  The   *)
(* mutant forgets the view that had the mark.                              *)
SetMarkTwice(v, m) ==
    /\ mark_view' = [x \in Mark |-> IF x = m THEN v
                                    ELSE IF x = view_mark[v] THEN NULL ELSE mark_view[x]]
    /\ view_mark' = [view_mark EXCEPT ![v] = m]

SetMark(v, m) ==
    /\ mark_view' = [x \in Mark |-> IF x = m THEN v
                                    ELSE IF x = view_mark[v] THEN NULL ELSE mark_view[x]]
    /\ view_mark' = [u \in View |-> IF u = v THEN m
                                    ELSE IF view_mark[u] = m THEN NULL ELSE view_mark[u]]

(* hikari_view_configure() on the first map of a view: one that is mapped  *)
(* again keeps its sheet and its flags.  The mutant takes the configured   *)
(* sheet for one when there is none.                                       *)
ConfigureNoSheet(v, c) ==
    IF view_sheet[v] = NULL
    THEN /\ view_sheet' = [view_sheet EXCEPT ![v] = <<workspace, c.sheet>>]
         /\ public' = public \cup {u \in {v} : c.public}
         /\ invisible' = invisible \cup {u \in {v} : c.invisible}
    ELSE UNCHANGED <<view_sheet, flags>>

Configure(v, c) ==
    LET nr == IF c.sheet = NULL THEN current_sheet[workspace] ELSE c.sheet IN
    IF view_sheet[v] = NULL
    THEN /\ view_sheet' = [view_sheet EXCEPT ![v] = <<workspace, nr>>]
         /\ public' = public \cup {u \in {v} : c.public}
         /\ invisible' = invisible \cup {u \in {v} : c.invisible}
    ELSE UNCHANGED <<view_sheet, flags>>

(* map_handler() and hikari_view_map(): the view is shown, whatever its    *)
(* sheet, unless the screen is locked and the view is not public.          *)
Map(v, c, p) ==
    /\ Running /\ v \notin mapped /\ view_sheet[v] # Freed
    /\ Configure(v, c)
    /\ mapped' = mapped \cup {v}
    /\ view_group' = [view_group EXCEPT ![v] = c.group]
    /\ IF c.mark # NULL /\ mark_view[c.mark] = NULL
       THEN SetMark(v, c.mark) ELSE UNCHANGED marks
    /\ Relist({}, {v}, view_sheet', view_group')
    /\ UNCHANGED <<screen, dirty>>
    /\ IF mode # "lock" \/ v \in public'
       THEN /\ hidden' = hidden \ {v}
            /\ UNCHANGED forced
            /\ \E k \in CursorFocus(Focus("none"), p, After) : Refocus(k)
       ELSE /\ forced' = forced \cup {v}
            /\ UNCHANGED <<hidden, focus>>

(* hikari_view_map() of a view whose sheet went with its output.           *)
MapOnFreedSheet(v) ==
    /\ Running /\ v \notin mapped /\ view_sheet[v] = Freed
    /\ aborted' = "freed_sheet"
    /\ UNCHANGED <<screen, workspace, focus_view, mode, mapped, hidden, forced,
                   flags, dirty, view_sheet, view_group, lists, marks>>

(* unmap_handler() and hikari_view_unmap().                                *)
Unmap(v, p) ==
    /\ Running /\ v \in mapped
    /\ mapped' = mapped \ {v}
    /\ hidden' = hidden \cup {v} /\ forced' = forced \ {v}
    /\ IF v \in Listed THEN Relist({v}, {}, view_sheet, view_group)
                       ELSE UNCHANGED lists
    /\ UNCHANGED <<screen, flags, view_sheet>>
    /\ IF v \notin hidden /\ v \notin forced
       THEN \E k \in CursorFocusAll(ClearFocus(Focus("none"), v, p, Before), p, After) :
               Refocus(k)
       ELSE UNCHANGED focus
    /\ view_group' = [view_group EXCEPT ![v] = NULL]
    /\ SetMark(v, NULL)
    /\ dirty' = dirty \ {v}

(* destroy_handler() and hikari_view_fini() of an unmapped view; its name  *)
(* is free for a new view, and a focus that still points at it dangles.    *)
Destroy(v) ==
    /\ Running /\ v \notin mapped /\ view_sheet[v] # NULL
    /\ view_sheet' = [view_sheet EXCEPT ![v] = NULL]
    /\ public' = public \ {v} /\ invisible' = invisible \ {v}
    /\ focus_view' = [w \in Workspace |-> IF focus_view[w] = v THEN Freed ELSE focus_view[w]]
    /\ UNCHANGED <<screen, workspace, mode, aborted, mapped, hidden, forced, dirty,
                   view_group, lists, marks>>

(* The requests of a task bar.  The mutant does not ask for the mode.      *)
RequestMinimize(v, p) ==
    /\ Running /\ v \in mapped \ hidden
    /\ HideAndShow({v}, {})
    /\ VisibilityOnly /\ UNCHANGED current_sheet
    /\ \E k \in ClearFocus(Focus(Failed({v}, {})), v, p, Before) : Refocus(k)

RequestActivateAlways(v) ==
    /\ Running /\ v \in mapped \ hidden
    /\ FocusOnly
    /\ Refocus(FocusView(Focus("none"), view_sheet[v][1], v, Before))

RequestActivate(v) ==
    /\ Acting /\ v \in mapped \ hidden
    /\ FocusOnly
    /\ Refocus(FocusView(Focus("none"), view_sheet[v][1], v, Before))

(* A view is asked for another size, by the user or by a task bar, and the *)
(* operation is pending until the client commits it.                       *)
QueueOperation(v) ==
    /\ Running /\ v \in mapped \ hidden
    /\ dirty' = dirty \cup {v}
    /\ UNCHANGED <<screen, focus, mapped, hidden, forced, flags, view_sheet,
                   view_group, lists, marks>>

(* commit_handler() and commit_pending_operation(): the view is raised, and *)
(* shown if it was hidden and its sheet is visible.                        *)
Commit(v, center, p) ==
    LET s == view_sheet[v]
        shown == {u \in {v} \ forced : SheetIsVisible(s)}
    IN
    /\ Running /\ v \in dirty
    /\ center => v \notin hidden \/ SheetIsVisible(s)
    /\ dirty' = dirty \ {v}
    /\ hidden' = hidden \ shown
    /\ Relist({}, shown \cup ({v} \cap Listed), view_sheet, view_group)
    /\ UNCHANGED <<screen, mapped, forced, flags, view_sheet, view_group, marks>>
    /\ IF center THEN \E k \in CursorFocus(Focus("none"), p, After) : Refocus(k)
                 ELSE UNCHANGED focus

-----------------------------------------------------------------------------
(* What the user does in normal mode.                                      *)

SheetViews(w, nr) == {v \in mapped : view_sheet[v] = <<w, nr>>}
OutputViews(w) == {v \in mapped : OnWorkspace(v, w)}

PointerMotion(p) ==
    /\ Acting
    /\ FocusOnly
    /\ \E k \in CursorFocus(Focus("none"), p, Before) : Refocus(k)

(* hikari_workspace_clear(w), then the views of `shown` that are hidden by *)
(* then are shown; both end in a cursor_focus().                           *)
ClearAndShow(w, shown) ==
    HideAndShow(workspace_views[w], shown \cap (hidden \cup workspace_views[w]))

CursorFocusTwice(K, w, shown, p) ==
    LET gone == workspace_views[w]
        failed(k) == IF k.aborted = "none"
                     THEN [k EXCEPT !.aborted =
                             Failed(gone, shown \cap (hidden \cup gone))]
                     ELSE k
    IN CursorFocusAll(CursorFocusAll({Unfocus(failed(k), gone) : k \in K},
                                     p, Cleared(gone)), p, After)

(* What display_sheet() shows: the sheet and sheet 0, not their invisible  *)
(* views.                                                                  *)
Displayed(w, nr) == (SheetViews(w, 0) \cup SheetViews(w, nr)) \ invisible

DisplaySheet(nr, p) ==
    /\ Acting
    /\ current_sheet' = [current_sheet EXCEPT ![workspace] = nr]
    /\ ClearAndShow(workspace, Displayed(workspace, nr))
    /\ VisibilityOnly
    /\ \E k \in CursorFocusTwice({Focus("none")}, workspace,
                                 Displayed(workspace, nr), p) : Refocus(k)

(* show_all, show_invisible and show_group, of the workspace and of its    *)
(* current sheet; the last two of them start from the group of the focus.  *)
Candidates(scope, what) ==
    LET among == IF scope = "sheet" THEN SheetViews(workspace, current_sheet[workspace])
                                    ELSE OutputViews(workspace)
    IN {v \in among : \/ what = "all"
                      \/ what = "invisible" /\ v \in invisible
                      \/ what = "group" /\ view_group[v] = view_group[FOCUS]}

ShowViews(scope, what, p) ==
    /\ Acting
    /\ what = "group" => HasFocus
    /\ ClearAndShow(workspace, Candidates(scope, what))
    /\ VisibilityOnly /\ UNCHANGED current_sheet
    /\ \E k \in CursorFocusTwice({Focus("none")}, workspace,
                                 Candidates(scope, what), p) : Refocus(k)

(* hikari_workspace_clear().                                               *)
WorkspaceClear(p) ==
    /\ Acting
    /\ ClearAndShow(workspace, {})
    /\ VisibilityOnly /\ UNCHANGED current_sheet
    /\ \E k \in CursorFocusTwice({Focus("none")}, workspace, {}, p) : Refocus(k)

(* hide_view, only_view and hide_group: hikari_view_hide() of each view,   *)
(* then one cursor_focus().                                                *)
HideViews(gone, p) ==
    /\ Acting /\ HasFocus
    /\ HideAndShow(gone, {})
    /\ VisibilityOnly /\ UNCHANGED current_sheet
    /\ \E k \in CursorFocus(Unfocus(Focus(Failed(gone, {})), gone), p, After) : Refocus(k)

HideView(p) == HideViews({FOCUS}, p)
OnlyView(p) == HideViews(workspace_views[workspace] \ {FOCUS}, p)
HideGroup(p) ==
    HideViews(UNION {visible_group_views[g] : g \in {view_group[FOCUS]} \cap Group}, p)

(* hikari_server_only_group(): every output's workspace is cleared, in     *)
(* turn, starting with `first`; then hikari_group_show(), which stops at   *)
(* the first view that is still visible.                                   *)
OnlyGroup(first, p) ==
    LET gone == UNION {workspace_views[o] : o \in outputs}
        members == {v \in mapped : view_group[v] = view_group[FOCUS]}
        absent == members \cap (hidden \cup gone)
        started == IF outputs = {} THEN {Focus("none")}
                   ELSE CursorFocus(Unfocus(Focus("none"), workspace_views[first]), p,
                                    Cleared(workspace_views[first]))
    IN
    /\ Acting /\ HasFocus
    /\ first \in (IF outputs = {} THEN {NULL} ELSE outputs)
    /\ VisibilityOnly /\ UNCHANGED current_sheet
    /\ \E shown \in IF absent = members THEN {members} ELSE SUBSET absent :
          /\ HideAndShow(gone, shown)
          /\ \E k \in CursorFocusAll(
                  {[Unfocus(j, gone) EXCEPT !.aborted =
                       IF @ = "none" THEN Failed(gone, shown) ELSE @] : j \in started},
                  p, After) : Refocus(k)

(* hikari_view_pin_to_sheet() of a view that is not tiled; the sheet has   *)
(* to be one of the view's output.                                         *)
Pin(v, s) ==
    IF ~OnWorkspace(v, s[1]) THEN UNCHANGED <<view_sheet, hidden, lists>>
    ELSE /\ view_sheet' = [view_sheet EXCEPT ![v] = s]
         /\ IF SheetIsVisible(s)
            THEN Place(v, view_sheet', view_group) /\ UNCHANGED hidden
            ELSE HideAndShow({v}, {})

PinFocus(v, s, p) ==
    IF ~OnWorkspace(v, s[1]) THEN {Focus("view_state")}
    ELSE IF SheetIsVisible(s) THEN {Focus(Failed({v}, {}))}
    ELSE CursorFocusAll(ClearFocus(Focus(Failed({v}, {})), v, p, Before), p, After)

PinToSheet(nr, p) ==
    /\ Acting /\ HasFocus
    /\ Pin(FOCUS, <<workspace, nr>>)
    /\ UNCHANGED <<screen, mapped, forced, flags, dirty, view_group, marks>>
    /\ \E k \in PinFocus(FOCUS, <<workspace, nr>>, p) : Refocus(k)

(* hikari_server_migrate_focus_view(): the focus view moves to the current *)
(* sheet of another output, with an operation pending unless the client    *)
(* needs none.                                                             *)
Migrate(v, o) ==
    /\ view_sheet' = [view_sheet EXCEPT ![v] = <<o, current_sheet[o]>>]
    /\ Place(v, view_sheet', view_group)
    /\ dirty' \in {dirty, dirty \cup {v}}
    /\ UNCHANGED hidden

MigrateFocus(v, o) ==
    [Focus(Failed({v}, {})) EXCEPT !.workspace = o,
        !.focus_view = [focus_view EXCEPT ![workspace] = NULL, ![o] = v]]

MoveToOutput(o) ==
    /\ Running /\ mode \in {"normal", "move"} /\ HasFocus
    /\ o \in outputs /\ ~OnWorkspace(FOCUS, o)
    /\ Migrate(FOCUS, o)
    /\ UNCHANGED <<screen, mapped, forced, flags, view_group, marks>>
    /\ Refocus(MigrateFocus(FOCUS, o))

(* hikari_view_toggle_invisible() and hikari_view_toggle_public().         *)
Toggled(v, S) == IF v \in S THEN S \ {v} ELSE S \cup {v}

ToggleInvisible ==
    /\ Acting /\ HasFocus
    /\ invisible' = Toggled(FOCUS, invisible)
    /\ UNCHANGED <<screen, focus, mapped, hidden, forced, public, dirty, view_sheet,
                   view_group, lists, marks>>

TogglePublic ==
    /\ Acting /\ HasFocus
    /\ public' = Toggled(FOCUS, public)
    /\ UNCHANGED <<screen, focus, mapped, hidden, forced, invisible, dirty, view_sheet,
                   view_group, lists, marks>>

(* cycle_view(), and by group or layout: to some other view of the list of *)
(* visible views.                                                          *)
CycleView(v) ==
    /\ Acting /\ v \in visible_server_views \ {FOCUS}
    /\ FocusOnly
    /\ Refocus(IF IsLive(view_sheet[v])
               THEN FocusView(Focus("none"), view_sheet[v][1], v, Before)
               ELSE Focus("freed_view"))

(* cycle_workspace(): to the view that the other workspace would focus, or *)
(* with the pointer to its centre.                                         *)
CycleWorkspace(o) ==
    /\ Acting /\ workspace \in outputs /\ o \in outputs \ {workspace}
    /\ FocusOnly
    /\ \E v \in FirstView(Focus("none"), o, Before) :
          \E k \in IF v # NULL THEN {FocusView(Focus("none"), o, v, Before)}
                   ELSE CursorFocus(Focus("none"), o, Before) : Refocus(k)

(* cycle_workspace() from noop, which has no neighbours in server.outputs. *)
CycleFromNoop ==
    /\ Acting /\ workspace = Noop
    /\ aborted' = "no_output"
    /\ FocusOnly /\ UNCHANGED <<workspace, focus_view, mode>>

(* Every one of these reaches through a focus view that is not mapped      *)
(* any more.                                                               *)
UseStaleFocus ==
    /\ Running /\ mode \in {"normal", "assign", "move"}
    /\ FOCUS # NULL /\ ~HasFocus
    /\ aborted' = "stale_focus"
    /\ FocusOnly /\ UNCHANGED <<workspace, focus_view, mode>>

(* The key of a mark, after enter_normal_mode() when it comes from the     *)
(* mark select mode.                                                       *)
MarkKey(p) == IF mode = "select" THEN EnterNormalMode(Focus("none"), p, Before)
                                 ELSE {Focus("none")}

(* hikari_server_show_mark(): the pointer goes to the marked view.         *)
ShowMark(m, p, q) ==
    LET v == mark_view[m]
        shown == {v} \cap hidden
    IN
    /\ Running /\ mode \in {"normal", "select"} /\ v # NULL
    /\ HideAndShow({}, shown)
    /\ q \in {NULL, view_sheet[v][1]} \cap Pointer
    /\ VisibilityOnly /\ UNCHANGED current_sheet
    /\ \E k \in CursorFocusAll({[j EXCEPT !.aborted = IF @ = "none" THEN Failed({}, shown) ELSE @] :
                                  j \in MarkKey(p)}, q, After) : Refocus(k)

(* hikari_server_switch_to_mark(): the view's sheet is displayed first,    *)
(* unless it is the current one.                                           *)
SwitchToMark(m, p, q) ==
    LET v == mark_view[m]
        w == view_sheet[v][1]
        nr == view_sheet[v][2]
        shown == Displayed(w, nr) \cup {v}
    IN
    /\ Running /\ mode \in {"normal", "select"} /\ v # NULL
    /\ current_sheet[w] # nr
    /\ current_sheet' = [current_sheet EXCEPT ![w] = nr]
    /\ ClearAndShow(w, shown)
    /\ q \in {NULL, w} \cap Pointer
    /\ VisibilityOnly
    /\ \E k \in CursorFocusAll(CursorFocusTwice(MarkKey(p), w, shown, p), q, After) :
          Refocus(k)

-----------------------------------------------------------------------------
(* The other modes.                                                        *)

(* enter_sheet_assign_mode() and the others that need a focus view.        *)
EnterMode(m) ==
    /\ Acting /\ HasFocus /\ m \in {"assign", "move"}
    /\ mode' = m
    /\ FocusOnly /\ UNCHANGED <<workspace, focus_view, aborted>>

(* hikari_mark_select_mode_enter().                                        *)
EnterMarkSelect ==
    /\ Acting
    /\ FocusOnly
    /\ Refocus([FocusView(Focus("none"), workspace, NULL, Before) EXCEPT !.mode = "select"])

(* The dialogue ends without a result; the drag ends.                      *)
LeaveMode(p) ==
    /\ Running /\ mode \in {"assign", "move", "select"}
    /\ FocusOnly
    /\ \E k \in EnterNormalMode(Focus("none"), p, Before) : Refocus(k)

(* confirm_group_assign(), hikari_view_group() and enter_normal_mode().    *)
AssignGroup(g, p) ==
    LET failure == IF view_group[FOCUS] = g THEN "none" ELSE Failed({FOCUS}, {}) IN
    /\ Running /\ mode = "assign" /\ HasFocus
    /\ view_group' = [view_group EXCEPT ![FOCUS] = g]
    /\ IF view_group[FOCUS] = g THEN UNCHANGED lists
                                ELSE Place(FOCUS, view_sheet, view_group')
    /\ UNCHANGED <<hidden, view_sheet, current_sheet>>
    /\ UNCHANGED <<outputs, mapped, forced, flags, dirty, marks>>
    /\ \E k \in EnterNormalMode(Focus(failure), p, After) : Refocus(k)

(* confirm_mark_assign(): without a mark the view loses its own.           *)
AssignMark(m, p) ==
    /\ Running /\ mode = "assign" /\ HasFocus
    /\ SetMark(FOCUS, m)
    /\ UNCHANGED <<screen, mapped, hidden, forced, flags, dirty, view_sheet,
                   view_group, lists>>
    /\ \E k \in EnterNormalMode(Focus("none"), p, Before) : Refocus(k)

(* confirm_sheet_assign(): on another output the chosen sheet is not used. *)
AssignSheet(s, p) ==
    /\ Running /\ mode = "assign" /\ HasFocus
    /\ s[1] \in outputs \cup {workspace}
    /\ UNCHANGED <<outputs, mapped, forced, flags, view_group, marks>>
    /\ IF OnWorkspace(FOCUS, s[1])
       THEN /\ Pin(FOCUS, s)
            /\ UNCHANGED <<dirty, current_sheet>>
            /\ \E j \in PinFocus(FOCUS, s, p) :
                  \E k \in EnterNormalMode(j, p, After) : Refocus(k)
       ELSE /\ Migrate(FOCUS, s[1])
            /\ UNCHANGED current_sheet
            /\ \E k \in EnterNormalMode(MigrateFocus(FOCUS, s[1]), p, After) : Refocus(k)

-----------------------------------------------------------------------------
(* The lock screen.                                                        *)

OnOutputs == {v \in mapped : \E o \in outputs : OnWorkspace(v, o)}

(* hikari_lock_mode_enter() and override_visibility().                     *)
Lock ==
    LET conceal == OnOutputs \ (public \cup hidden)
        reveal == OnOutputs \cap public \cap hidden
    IN
    /\ Acting
    /\ forced' = forced \cup conceal \cup reveal
    /\ hidden' = (hidden \ reveal) \cup conceal
    /\ UNCHANGED <<screen, mapped, flags, dirty, view_sheet, view_group, lists, marks>>
    /\ Refocus([FocusView(Focus("none"), workspace, NULL, Before) EXCEPT !.mode = "lock"])

(* submit_password() with the right one, reset_visibility().  The mutants  *)
(* forget the views that were revealed: their override, or hiding them.    *)
UnlockConcealed(p) ==
    LET reset == OnOutputs \cap forced \cap hidden IN
    /\ Running /\ mode = "lock"
    /\ forced' = forced \ reset
    /\ hidden' = hidden \ reset
    /\ UNCHANGED <<lists, view_sheet, current_sheet>>
    /\ UNCHANGED <<outputs, mapped, flags, dirty, view_group, marks>>
    /\ \E k \in EnterNormalMode(Focus("none"), p, After) : Refocus(k)

UnlockShowsAll(p) ==
    LET reset == OnOutputs \cap forced IN
    /\ Running /\ mode = "lock"
    /\ forced' = forced \ reset
    /\ hidden' = hidden \ reset
    /\ UNCHANGED <<lists, view_sheet, current_sheet>>
    /\ UNCHANGED <<outputs, mapped, flags, dirty, view_group, marks>>
    /\ \E k \in EnterNormalMode(Focus("none"), p, After) : Refocus(k)

Unlock(p) ==
    LET reset == OnOutputs \cap forced IN
    /\ Running /\ mode = "lock"
    /\ forced' = forced \ reset
    /\ hidden' = (hidden \ reset) \cup (reset \ hidden)
    /\ UNCHANGED <<lists, view_sheet, current_sheet>>
    /\ UNCHANGED <<outputs, mapped, flags, dirty, view_group, marks>>
    /\ \E k \in EnterNormalMode(Focus("none"), p, After) : Refocus(k)

-----------------------------------------------------------------------------
(* Outputs come and go.                                                    *)

(* hikari_workspace_merge() and hikari_view_evacuate(): the views go to    *)
(* the sheets of the same number, and the ones that were shown are hidden  *)
(* there if that sheet is not visible.  Those that are not mapped are on   *)
(* no list, and keep the sheet that goes with the output.  Some of the     *)
(* views, the maximized ones, have an operation pending afterwards.  The   *)
(* mutant moves only the views that are shown.                             *)
MergeShown(from, to) ==
    LET moved == workspace_views[from]
        sunk == {v \in moved : view_sheet[v][2] \notin {0, current_sheet[to]}}
    IN
    /\ view_sheet' = [v \in View |->
          IF v \in moved THEN <<to, view_sheet[v][2]>>
          ELSE IF from # Noop /\ OnWorkspace(v, from) THEN Freed ELSE view_sheet[v]]
    /\ hidden' = hidden \cup sunk
    /\ Relist(sunk, moved \ sunk, view_sheet', view_group)
    /\ \E resized \in SUBSET moved : dirty' = dirty \cup resized

Merge(from, to) ==
    LET moved == OutputViews(from)
        sunk == {v \in moved \ (hidden \cup forced) :
                    view_sheet[v][2] \notin {0, current_sheet[to]}}
    IN
    /\ view_sheet' = [v \in View |->
          IF v \in moved THEN <<to, view_sheet[v][2]>>
          ELSE IF from # Noop /\ OnWorkspace(v, from) THEN Freed ELSE view_sheet[v]]
    /\ hidden' = hidden \cup sunk
    /\ Relist(sunk, (moved \cap Listed) \ sunk, view_sheet', view_group)
    /\ \E resized \in SUBSET moved : dirty' = dirty \cup resized

MergeFocus(from, p) ==
    IF focus_view[from] \in OutputViews(from)
    THEN ClearFocus(Focus("none"), focus_view[from], p, Before)
    ELSE {Focus("none")}

(* hikari_output_init(): the first output takes over the views of noop.    *)
OutputAdd(o, p) ==
    /\ Running /\ o \in Pluggable \ outputs
    /\ outputs' = outputs \cup {o}
    /\ p \in {o, NULL}
    /\ UNCHANGED <<mapped, forced, flags, view_group, marks>>
    /\ IF outputs = {}
       THEN /\ Merge(Noop, o)
            /\ UNCHANGED current_sheet
            /\ \E k \in MergeFocus(Noop, p) : Refocus(FocusView(k, o, NULL, After))
       ELSE UNCHANGED <<focus, hidden, lists, dirty, view_sheet, current_sheet>>

(* When an output is gone the workspace that took its views is focused,    *)
(* with no view; while the screen is locked that workspace gives up the    *)
(* focus it remembers.  The mutant keeps it.                               *)
FocusOtherRemembers(j, to, p) ==
    IF j.mode = "lock" THEN {[j EXCEPT !.workspace = to]}
    ELSE {FocusView(i, to, NULL, After) :
             i \in IF j.mode = "normal" THEN {j} ELSE EnterNormalMode(j, p, After)}

FocusOther(j, to, p) ==
    IF j.mode = "lock" THEN {[j EXCEPT !.workspace = to, !.focus_view[to] = NULL]}
    ELSE {FocusView(i, to, NULL, After) :
             i \in IF j.mode = "normal" THEN {j} ELSE EnterNormalMode(j, p, After)}

(* hikari_output_fini(): the views go to another output, or to noop.       *)
OutputRemove(o, to, p) ==
    /\ Running /\ o \in outputs \cap Pluggable
    /\ to \in IF outputs = {o} THEN {Noop} ELSE outputs \ {o}
    /\ outputs' = outputs \ {o}
    /\ current_sheet' = [current_sheet EXCEPT ![o] = 1]
    /\ Merge(o, to)
    /\ UNCHANGED <<mapped, forced, flags, view_group, marks>>
    /\ \E j \in MergeFocus(o, p) :
          \E k \in FocusOther(j, to, p) :
             Refocus([k EXCEPT !.focus_view[o] = NULL])

-----------------------------------------------------------------------------
ClientNext(p) ==
    \E v \in View :
        \/ \E c \in ViewConfig : Map(v, c, p)
        \/ MapOnFreedSheet(v)
        \/ Unmap(v, p)
        \/ Destroy(v)
        \/ RequestMinimize(v, p)
        \/ RequestActivate(v)
        \/ QueueOperation(v)
        \/ \E center \in BOOLEAN : Commit(v, center, p)

UserNext(p) ==
    \/ PointerMotion(p)
    \/ \E nr \in SheetNr : DisplaySheet(nr, p) \/ PinToSheet(nr, p)
    \/ \E scope \in {"workspace", "sheet"}, what \in {"all", "invisible", "group"} :
          ShowViews(scope, what, p)
    \/ WorkspaceClear(p) \/ HideView(p) \/ OnlyView(p) \/ HideGroup(p)
    \/ \E first \in Pointer : OnlyGroup(first, p)
    \/ \E o \in Output : MoveToOutput(o) \/ CycleWorkspace(o)
    \/ CycleFromNoop \/ UseStaleFocus
    \/ ToggleInvisible \/ TogglePublic
    \/ \E v \in View : CycleView(v)
    \/ \E m \in Mark, q \in Pointer : ShowMark(m, p, q) \/ SwitchToMark(m, p, q)

ModeNext(p) ==
    \/ \E m \in Mode : EnterMode(m)
    \/ EnterMarkSelect
    \/ LeaveMode(p)
    \/ \E g \in Group : AssignGroup(g, p)
    \/ \E m \in Mark \cup {NULL} : AssignMark(m, p)
    \/ \E s \in Sheet : AssignSheet(s, p)
    \/ Lock
    \/ Unlock(p)

OutputNext(p) ==
    \E o \in Output :
        \/ OutputAdd(o, p)
        \/ \E to \in Workspace : OutputRemove(o, to, p)

Next ==
    \/ \E p \in Pointer : ClientNext(p) \/ UserNext(p) \/ ModeNext(p)
    \/ \E p \in Output \cup {NULL} : OutputNext(p)

Spec == Init /\ [][Next]_vars

-----------------------------------------------------------------------------
(* Properties.                                                             *)

(* The three lists of visible views hold the same views, each on the       *)
(* workspace of its sheet and in its group: the ones that are shown, where *)
(* the lock screen's override does not count.  A view that is not mapped   *)
(* is hidden, not overridden, has nothing pending and is in no group.      *)
ListsFollowFlags ==
    /\ visible_server_views = Listed
    /\ \A w \in Workspace : workspace_views[w] = {v \in Listed : OnWorkspace(v, w)}
    /\ \A g \in Group : visible_group_views[g] = {v \in Listed : view_group[v] = g}

UnmappedAtRest ==
    \A v \in View \ mapped :
        /\ v \in hidden /\ v \notin forced /\ v \notin dirty
        /\ view_group[v] = NULL /\ view_mark[v] = NULL

MappedHavePlace ==
    \A v \in mapped : view_sheet[v] \in Sheet /\ view_group[v] \in Group

VisibleListsAgree == ListsFollowFlags /\ UnmappedAtRest /\ MappedHavePlace

(* A mark and its view point at each other, through reassigned marks and   *)
(* unmapped views.                                                         *)
MarksAgree ==
    \A v \in View, m \in Mark : mark_view[m] = v <=> view_mark[v] = m

(* The keyboard is with nobody while the screen is locked: no view of the  *)
(* current workspace has the focus, whatever is mapped, unmapped, plugged  *)
(* or unplugged meanwhile.  clear_focus() asserts it.                      *)
LockHasNoFocus == mode = "lock" => FOCUS = NULL

(* The dialogues and the drag dereference the focus view without a test:   *)
(* there is one as long as they last.                                      *)
DialogueHasFocus == mode \in {"assign", "move"} => FOCUS # NULL

(* The view that a workspace gives the focus back to is a visible view of  *)
(* that workspace.                                                         *)
FocusIsVisible ==
    \A w \in outputs \cup {workspace} :
        focus_view[w] # NULL => focus_view[w] \in workspace_views[w]

(* The override of the lock screen ends with it.                           *)
ForcedOnlyWhileLocked == mode # "lock" => forced = {}

(* The server and every mapped view are on a workspace that exists, not on *)
(* one that was freed with its output.                                     *)
WorkspacesAreLive ==
    /\ Running => workspace \in outputs \cup {Noop}
    /\ \A v \in mapped : \E w \in outputs \cup {Noop} : OnWorkspace(v, w)

(* Locking and unlocking change what is displayed and leave alone what the *)
(* user chose to show: what is listed, and on which sheet.                 *)
LockPreservesChoice ==
    [][(mode = "lock") # (mode' = "lock")
          => /\ Listed' = Listed /\ lists' = lists
             /\ view_sheet' = view_sheet /\ current_sheet' = current_sheet]_vars

(* With one output that stays, no assertion fails, no freed sheet or view  *)
(* is used, except that a view which only the lock screen shows cannot be  *)
(* minimized.                                                              *)
NoAssertionFails == aborted \in {"none"} \cup {f \in {"view_state"} : mode = "lock"}
=============================================================================
