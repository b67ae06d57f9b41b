------------------------------ MODULE LayerShell ------------------------------
(***************************************************************************)
(* Panels, notifications and launchers: the layers of the outputs            *)
(* (layer_shell.c), which of them lies under the pointer (server.c), and the *)
(* keyboard focus that they and the views take from each other.             *)
(*                                                                         *)
(* A layer follows the events of a wl_surface, but also keeps a pointer to  *)
(* its layer surface, which may end before.  A handler is a map of the       *)
(* record Now; where it would follow a pointer to what is gone, the process *)
(* ends with the name of that in fault.                                     *)
(***************************************************************************)
EXTENDS Naturals, SequencesExt

CONSTANTS
  Output,      \* the outputs
  Stays,       \* the output that is never unplugged
  Layer, View,
  State,       \* what a client may commit
  NULL

ASSUME StaysIsOutput == Stays \in Output

Kind == {"overlay", "top", "bottom"}

ASSUME NullIsNothing == NULL \notin Output \cup Layer \cup View \cup Kind
ASSUME LayersAreNoViews == Layer \cap View = {}

(* A committed state says the layer, whether it wants the keyboard, and     *)
(* whether it wants room of its own.                                        *)
ASSUME StatesAreStates ==
  State \subseteq [kind : Kind, interactive : BOOLEAN, exclusive : BOOLEAN]

NoState == [kind |-> NULL, interactive |-> FALSE, exclusive |-> FALSE]

VARIABLES
  outputs,       \* hikari_server.outputs
  layers,        \* output->layers, for each kind a list
  usable_area,   \* the layers whose room output->usable_area leaves out
  life,          \* of the wl_surface, the layer surface and the hikari_layer
  current,       \* layer->surface->current
  layer_kind,    \* layer->layer
  layer_output,  \* layer->output, NULL once it was reset or freed
  loose,         \* the layers that unmap took out of their list
  view_output,   \* where each view is visible, NULL if nowhere
  workspace,     \* hikari_server.workspace, as the output it belongs to
  focus_view, focus_layer,   \* of the workspace of each output
  keyboard,      \* the surface that has the seat's keyboard focus
  pointer,       \* the output that the pointer is on
  mode, fault

vars == <<outputs, layers, usable_area, life, current, layer_kind, layer_output, loose,
          view_output, workspace, focus_view, focus_layer, keyboard, pointer, mode, fault>>

Now ==
  [outputs |-> outputs, layers |-> layers, usable_area |-> usable_area, life |-> life,
   current |-> current, layer_kind |-> layer_kind, layer_output |-> layer_output,
   loose |-> loose, view_output |-> view_output, workspace |-> workspace, focus_view |-> focus_view,
   focus_layer |-> focus_layer, keyboard |-> keyboard, pointer |-> pointer,
   mode |-> mode, fault |-> fault]

Become(s) ==
  /\ outputs' = s.outputs /\ layers' = s.layers /\ usable_area' = s.usable_area
  /\ life' = s.life /\ current' = s.current
  /\ layer_kind' = s.layer_kind /\ layer_output' = s.layer_output /\ loose' = s.loose
  /\ view_output' = s.view_output /\ workspace' = s.workspace
  /\ focus_view' = s.focus_view /\ focus_layer' = s.focus_layer
  /\ keyboard' = s.keyboard /\ pointer' = s.pointer /\ mode' = s.mode /\ fault' = s.fault

Crash(s, what) == [s EXCEPT !.fault = what]
Running(s) == s.fault = "none"

(* The layer surface is there, not only the wl_surface and hikari_layer.    *)
HasRole(s, l) == s.life[l] \in {"new", "initialized", "mapped", "unmapped"}

IsListed(s, o, k, l) == l \in ToSet(s.layers[o][k])
Unlisted(s, l) ==
  [s EXCEPT !.layers = [o \in Output |-> [k \in Kind |-> RemoveFirst(@[o][k], l)]]]

Inserted(s, o, k, l) == [s EXCEPT !.layers[o][k] = <<l>> \o @]

--------------------------------------------------------------------------------
(* The focus.  hikari_workspace_focus_view takes the keyboard from whoever  *)
(* has it; the focus of a workspace that is left stays what it is.          *)

FocusViewKeepsLayer(s, w, v) ==
  [s EXCEPT !.keyboard = v, !.workspace = w, !.focus_view[w] = v]

FocusView(s, w, v) ==
  [s EXCEPT !.keyboard = v, !.workspace = w, !.focus_view[w] = v, !.focus_layer[w] = NULL]

(* focus() of a layer: it becomes the focus of the current workspace,       *)
(* whichever output it is on.                                                *)
FocusLayer(s, l) ==
  IF ~s.current[l].interactive THEN s
  ELSE LET left == IF s.focus_view[s.workspace] = NULL THEN s
                   ELSE FocusView(s, s.workspace, NULL)
       IN  [left EXCEPT !.keyboard = l, !.focus_layer[s.workspace] = l]

(* The first of the views of a workspace, the one it last focused if any.  *)
FirstView(s, w) ==
  IF s.focus_view[w] # NULL THEN {s.focus_view[w]}
  ELSE LET here == {v \in View : s.view_output[v] = w} IN IF here = {} THEN {NULL} ELSE here

(* topmost_of and layer_at: a layer that wants the keyboard is under the    *)
(* pointer wherever that is, also if it is not mapped.                      *)
Topmost(s, list, over) ==
  LET hit == SelectInSeq(list, LAMBDA l : s.current[l].interactive \/ l \in over)
  IN  IF hit = 0 THEN NULL ELSE list[hit]

LayerAt(list, over) ==
  LET hit == SelectInSeq(list, LAMBDA l : l \in over) IN IF hit = 0 THEN NULL ELSE list[hit]

(* node_at, for a pointer that is over the surfaces of over.                *)
NodeAt(s, over) ==
  LET at      == s.layers[s.pointer]
      overlay == Topmost(s, at.overlay, over)
      top     == Topmost(s, at.top, over)
      views   == {v \in View \cap over : s.view_output[v] = s.pointer}
      bottom  == LayerAt(at.bottom, over)
  IN  CASE overlay # NULL -> {overlay}
        [] overlay = NULL /\ top # NULL -> {top}
        [] overlay = NULL /\ top = NULL /\ views # {} -> views
        [] OTHER -> {bottom}

(* A scan reads the layer surfaces of the lists that it goes through.       *)
ScanFails(s) ==
  \E k \in {"overlay", "top"} : \E i \in DOMAIN s.layers[s.pointer][k] :
    ~HasRole(s, s.layers[s.pointer][k][i])

(* hikari_server_cursor_focus, in normal mode the handler of a motion: the  *)
(* results, one for each view that may be the first.                        *)
CursorFocus(s, over) ==
  IF s.mode # "normal" \/ ~Running(s) THEN {s}
  ELSE IF ScanFails(s) THEN {Crash(s, "freed surface")}
  ELSE UNION {
    IF node \in Layer THEN {FocusLayer(s, node)}
    ELSE IF node \in View
      THEN {IF node = s.focus_view[s.workspace] THEN s ELSE FocusView(s, s.pointer, node)}
    ELSE IF s.workspace = s.pointer THEN {s}
    ELSE {FocusView(s, s.pointer, v) : v \in FirstView(s, s.pointer)} : node \in NodeAt(s, over)}

(* What the pointer may be over: surfaces that are mapped, on its output.   *)
Over(s) ==
  SUBSET ({l \in Layer : s.life[l] = "mapped"} \cup {v \in View : s.view_output[v] # NULL})

--------------------------------------------------------------------------------
(* Layers                                                                  *)

CalculateExclusive(s, o) ==
  [s EXCEPT !.usable_area[o] =
     {l \in Layer : /\ s.current[l].exclusive
                    /\ \E k \in {"top", "bottom"} : IsListed(s, o, k, l)}]

(* map: the layer is not put in a list here, it is since its initialization. *)
MapLayer(s, l, over) ==
  CursorFocus([s EXCEPT !.life[l] = "mapped"], over)

UnmapKeepsFocus(s, l, over) ==
  LET gone == Unlisted([s EXCEPT !.life[l] = "unmapped", !.loose = @ \cup {l}], l)
  IN  CursorFocus(CalculateExclusive(gone, s.layer_output[l]), over)

(* unmap: gives back the room and the keyboard, if it is the focus of the   *)
(* workspace of its own output.                                              *)
UnmapLayer(s, l, over) ==
  LET o     == s.layer_output[l]
      gone  == Unlisted([s EXCEPT !.life[l] = "unmapped", !.loose = @ \cup {l}], l)
      room  == CalculateExclusive(gone, o)
      left  == IF room.focus_layer[o] # l THEN room
               ELSE [room EXCEPT !.focus_layer[o] = NULL, !.keyboard = NULL]
  IN  IF o = NULL THEN {Crash(s, "freed output")} ELSE CursorFocus(left, over)

CommitLayerTwice(s, l, over, moved) ==
  LET o    == s.layer_output[l]
      kind == s.current[l].kind
      room == CalculateExclusive(s, o)
  IN  CASE ~Running(s)          -> {s}
        [] Running(s) /\ o = NULL -> {Crash(s, "freed output")}
        [] Running(s) /\ o # NULL /\ s.layer_kind[l] # kind ->
             CursorFocus([Inserted(room, o, kind, l) EXCEPT !.layer_kind[l] = kind], over)
        [] OTHER -> IF moved THEN CursorFocus(room, over) ELSE {room}

(* commit_handler of a layer that is mapped.  moved: its geometry is new.   *)
CommitLayer(s, l, over, moved) ==
  LET o      == s.layer_output[l]
      kind   == s.current[l].kind
      room   == CalculateExclusive(s, o)
      listed == [Inserted(Unlisted(room, l), o, kind, l)
                   EXCEPT !.layer_kind[l] = kind, !.loose = @ \ {l}]
  IN  CASE ~Running(s)          -> {s}
        [] Running(s) /\ o = NULL -> {Crash(s, "freed output")}
        [] Running(s) /\ o # NULL /\ s.layer_kind[l] # kind -> CursorFocus(listed, over)
        [] OTHER -> IF moved THEN CursorFocus(room, over) ELSE {room}

(* The layer surface ends: wlroots unmaps the surface first.                *)
EndRole(s, l, over) ==
  LET ended == IF s.life[l] = "mapped" THEN UnmapLayer(s, l, over) ELSE {s}
  IN  {IF Running(t) THEN [t EXCEPT !.life[l] = "closed"] ELSE t : t \in ended}

(* close_layers: the listed layers of an output that goes.                  *)
Close(s, l, over) ==
  IF ~Running(s) THEN {s}
  ELSE {IF Running(t) THEN [t EXCEPT !.layer_output[l] = NULL] ELSE t : t \in EndRole(s, l, over)}

ListedOn(s, o) == s.layers[o].overlay \o s.layers[o].top \o s.layers[o].bottom
CloseLayers(s, o, over) ==
  FoldLeft(LAMBDA ts, l : UNION {Close(t, l, over) : t \in ts}, {s}, ListedOn(s, o))

--------------------------------------------------------------------------------
(* The events                                                              *)

Init ==
  /\ outputs = {Stays} /\ workspace = Stays /\ pointer = Stays
  /\ layers = [o \in Output |-> [k \in Kind |-> <<>>]]
  /\ usable_area = [o \in Output |-> {}]
  /\ life = [l \in Layer |-> "none"] /\ current = [l \in Layer |-> NoState]
  /\ layer_kind = [l \in Layer |-> NULL]
  /\ layer_output = [l \in Layer |-> NULL] /\ loose = {}
  /\ view_output = [v \in View |-> NULL]
  /\ focus_view = [o \in Output |-> NULL] /\ focus_layer = [o \in Output |-> NULL]
  /\ keyboard = NULL /\ mode = "normal" /\ fault = "none"

Handled(results) == Running(Now) /\ \E t \in results : Become(t)

(* new_layer_shell_surface_handler: on the output that the client names or  *)
(* that of the current workspace.                                           *)
NewLayer(l, o, k) ==
  /\ life[l] = "none" /\ o \in outputs
  /\ Handled({[Inserted(Now, o, k, l) EXCEPT
                  !.life[l] = "new", !.layer_kind[l] = k, !.layer_output[l] = o]})

(* A client commits the first state, of which only the geometry follows.    *)
CommitFirst(l, state) ==
  /\ life[l] \in {"new", "unmapped"}
  /\ LET given == [Now EXCEPT !.current[l] = state, !.life[l] = "initialized"]
     IN  Handled({IF layer_output[l] = NULL THEN Crash(given, "freed output") ELSE given})

(* A client commits its first buffer: map_handler, then commit_handler.     *)
CommitBuffer(l, state) ==
  /\ life[l] = "initialized"
  /\ LET given == [Now EXCEPT !.current[l] = state]
     IN  \E over \in Over([given EXCEPT !.life[l] = "mapped"]), moved \in BOOLEAN :
           Handled(UNION {CommitLayer(t, l, over, moved) : t \in MapLayer(given, l, over)})

Commit(l, state) ==
  /\ life[l] = "mapped"
  /\ LET given == [Now EXCEPT !.current[l] = state]
     IN  \E over \in Over(given), moved \in BOOLEAN :
           Handled(CommitLayer(given, l, over, moved))

(* A client commits that it has no buffer.                                  *)
CommitNothing(l) ==
  /\ life[l] = "mapped"
  /\ \E over \in Over(Now) : Handled(UnmapLayer(Now, l, over \ {l}))

(* A commit that was under way when the compositor closed the layer.        *)
CommitLate(l) ==
  /\ life[l] = "closed"
  /\ Handled({Crash(Now, "freed surface")})

DestroyRole(l) ==
  /\ HasRole(Now, l)
  /\ \E over \in Over(Now) : Handled(EndRole(Now, l, over \ {l}))

(* hikari_layer_fini takes the layer out of a list, which is the one of an  *)
(* output that was freed if the layer was closed before it was mapped.       *)
Finish(s, l) ==
  IF ~Running(s) THEN s
  ELSE IF s.layer_output[l] = NULL /\ l \notin s.loose THEN Crash(s, "freed output")
  ELSE [Unlisted(s, l) EXCEPT !.life[l] = "dead", !.current[l] = NoState,
          !.layer_output[l] = NULL, !.layer_kind[l] = NULL,
          !.keyboard = IF @ = l THEN NULL ELSE @]

DestroySurface(l) ==
  /\ HasRole(Now, l) \/ life[l] = "closed"
  /\ \E over \in Over(Now) :
       LET ended == IF HasRole(Now, l) THEN EndRole(Now, l, over \ {l}) ELSE {Now}
       IN  Handled({Finish(t, l) : t \in ended})

PointerMotion(o) ==
  /\ o \in outputs
  /\ \E over \in Over(Now) : Handled(CursorFocus([Now EXCEPT !.pointer = o], over))

(* hikari_workspace_quit_view.  A view is asked to close, a layer is closed. *)
QuitView ==
  LET l == focus_layer[workspace]
  IN  /\ mode = "normal"
      /\ \E over \in Over(Now) :
           Handled(IF l = NULL THEN CursorFocus(Now, over)
                   ELSE IF focus_view[workspace] # NULL THEN {Crash(Now, "assert")}
                   ELSE IF ~HasRole(Now, l) THEN {Crash(Now, "freed surface")}
                   ELSE EndRole(Now, l, over \ {l}))

CycleWorkspace(o) ==
  /\ mode = "normal" /\ o \in outputs \ {workspace}
  /\ \E over \in Over(Now), v \in FirstView(Now, o) :
       LET there == [Now EXCEPT !.pointer = o]
       IN  Handled(IF v # NULL THEN {FocusView(there, o, v)} ELSE CursorFocus(there, over))

(* A view is shown on the current workspace, or hidden (module Desktop has  *)
(* what happens on the lock screen).                                        *)
ShowView(v) ==
  /\ mode = "normal" /\ view_output[v] = NULL
  /\ LET there == [Now EXCEPT !.view_output[v] = workspace]
     IN  \E over \in Over(there) : Handled(CursorFocus(there, over))

(* clear_focus, of all the views that go.                                   *)
ClearFocus(s, gone) ==
  LET left == IF s.focus_view[s.workspace] \in gone THEN FocusView(s, s.workspace, NULL) ELSE s
  IN  [left EXCEPT !.focus_view = [o \in Output |-> IF @[o] \in gone THEN NULL ELSE @[o]]]

HideView(v) ==
  /\ view_output[v] # NULL
  /\ LET hidden == [ClearFocus(Now, {v}) EXCEPT !.view_output[v] = NULL]
     IN  \E over \in Over(hidden) : Handled(CursorFocus(hidden, over))

Lock ==
  LET l == focus_layer[workspace]  v == focus_view[workspace]
      left == IF l # NULL THEN [Now EXCEPT !.focus_layer[workspace] = NULL, !.keyboard = NULL]
              ELSE IF v # NULL THEN FocusView(Now, workspace, NULL) ELSE Now
  IN  /\ mode = "normal"
      /\ Handled({IF l # NULL /\ v # NULL THEN Crash(Now, "assert")
                  ELSE [left EXCEPT !.mode = "lock"]})

Unlock ==
  /\ mode = "lock"
  /\ \E over \in Over(Now) : Handled(CursorFocus([Now EXCEPT !.mode = "normal"], over))

OutputAdd(o) ==
  /\ o \notin outputs
  /\ Handled({[Now EXCEPT !.outputs = @ \cup {o}]})

(* hikari_output_fini: the layers are closed, the views move, and the       *)
(* pointer finds itself on another output.  What stays is not closed: the   *)
(* layers that are in no list keep their pointer to the output.              *)
MergeViews(s, o) ==
  LET merged == [ClearFocus(s, {v \in View : s.view_output[v] = o}) EXCEPT
                   !.view_output = [v \in View |-> IF @[v] = o THEN Stays ELSE @[v]]]
  IN  IF s.mode = "normal" THEN FocusView(merged, Stays, NULL)
      ELSE [merged EXCEPT !.focus_view[Stays] = NULL, !.workspace = Stays]

FreeOutput(s, o) ==
  IF ~Running(s) THEN s
  ELSE [MergeViews(s, o) EXCEPT
          !.outputs = @ \ {o}, !.pointer = IF @ = o THEN Stays ELSE @,
          !.layers[o] = [k \in Kind |-> <<>>], !.usable_area[o] = {},
          !.focus_view[o] = NULL, !.focus_layer[o] = NULL,
          !.layer_output = [l \in Layer |-> IF @[l] = o THEN NULL ELSE @[l]]]

OutputRemove(o) ==
  /\ o \in outputs \ {Stays}
  /\ \E over \in Over(Now) : Handled({FreeOutput(s, o) : s \in CloseLayers(Now, o, over)})

Next ==
  \/ \E l \in Layer, o \in Output, k \in Kind : NewLayer(l, o, k)
  \/ \E l \in Layer, state \in State :
       CommitFirst(l, state) \/ CommitBuffer(l, state) \/ Commit(l, state)
  \/ \E l \in Layer :
       CommitNothing(l) \/ CommitLate(l) \/ DestroyRole(l) \/ DestroySurface(l)
  \/ \E o \in Output : PointerMotion(o) \/ CycleWorkspace(o) \/ OutputAdd(o) \/ OutputRemove(o)
  \/ \E v \in View : ShowView(v) \/ HideView(v)
  \/ QuitView \/ Lock \/ Unlock

Spec == Init /\ [][Next]_vars

--------------------------------------------------------------------------------
(* Whoever gets the keys is what the current workspace has for its focus,   *)
(* one view or one layer (the assertions of hikari_workspace_quit_view and  *)
(* hikari_lock_mode_enter), and nobody gets them while the screen is locked. *)
KeysGoToTheFocus ==
  /\ fault # "assert"
  /\ keyboard # NULL =>
       /\ mode = "normal"
       /\ {focus_view[workspace], focus_layer[workspace]} = {keyboard, NULL}

(* A layer that is gone is nobody's focus, and no workspace leaves room for  *)
(* it (unmap of layer_shell.c).  This is so for a layer that was mapped and  *)
(* had the focus of its own output; the code does not look for others.       *)
GoneLayersLeaveNothing ==
  \A l \in Layer, o \in outputs :
    life[l] \in {"unmapped", "closed", "dead"} /\ l \in loose =>
      /\ l \notin usable_area[o]
      /\ focus_layer[o] = l => layer_output[l] # o

(* A layer is in one list, that of its output and of the layer it has        *)
(* committed, from its initialization on (hikari_layer_init, commit_handler); *)
(* only one that was unmapped is in none, and that also when it is mapped    *)
(* again (map of layer_shell.c).                                             *)
LayersAreListed ==
  fault = "none" =>
    \A l \in Layer :
      LET places == {p \in outputs \X Kind : IsListed(Now, p[1], p[2], l)}
      IN  /\ places \subseteq {<<layer_output[l], layer_kind[l]>>}
          /\ \A o \in outputs, k \in Kind : IsInjective(layers[o][k])
          /\ life[l] = "mapped" => (places = {} <=> l \in loose)
          /\ life[l] = "mapped" /\ places # {} => layer_kind[l] = current[l].kind
================================================================================
