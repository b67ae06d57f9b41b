# A TLA+ model of hikari

hikari is a stacking Wayland compositor with tiling capabilities, written in C
on top of wlroots. This directory holds TLA+ modules that model its logic, TLC
configurations that check them on small instances, and proofs that TLAPS checks
for instances of every size.

The whole compositor is one process around one event loop (`wl_display_run()` in
`src/src/server.c`). A handler of an event runs to its end before the next
one starts, so an action of the models is one whole handler. What is concurrent
is the order of the events: clients (xdg-shell, Xwayland), task bars (foreign
toplevel requests), the user's keys and pointer, outputs that are plugged and
unplugged, timers, and the unlocker process at the other end of a pipe.

## Inventory

| Part | State | Operations | Interacts with |
|---|---|---|---|
| Views (`view.c`) | flags (hidden, forced, public, invisible ...), sheet, group, mark, pending operation, geometry, links in six lists | map, unmap, fini, show, hide, raise, lower, resize, maximize, tile, pin, migrate, evacuate, group, commit | all parts below |
| Sheets, workspaces (`sheet.c`, `workspace.c`) | views of a sheet, current and alternate sheet, visible views, focus view | display, clear, show, cycle, focus, merge | views, outputs, layouts |
| Groups (`group.c`) | views, visible views; the server's two lists of groups | find or create, show, hide, raise, lower, cycle; freed with the last view | views, group assign mode |
| Marks (`mark.c`) | the view of each mark | set, clear | views, mark modes |
| Modes (`normal_mode.c`, `*_mode.c`) | `server.mode`, the state of a dialogue, pending end action of a binding | enter, cancel, key, button, motion, `cursor_focus()` | views, focus |
| Screen lock (`lock_mode.c`, `hikari_unlocker.c`) | password buffer, unlocker pipe, timer that disables outputs | enter, type, submit, unlock | visibility of all views, outputs |
| Outputs (`output.c`) | the list of outputs, noop output | init, fini, enable, disable, move | workspaces, lock |
| Pending operations (`operation.h`, `view.c`) | one operation and the serial it waits for | queue, acknowledge, commit | xdg and xwayland clients |
| Layouts (`split.c`, `layout.c`, `tile.c`) | layout of a sheet, tile of a view | apply, reset, exchange, rotate | views' pending operations |
| Layer shell (`layer_shell.c`) | layers of an output, focus of a layer | map, unmap, commit, destroy | outputs, focus |
| Server (`server.c`) | shutdown timer, cycling state | start, shutdown, lock, reload | all |
| Switches, bindings (`switch.c`, `binding*.c`, `action*.c`) | state of a switch, table of bindings | toggle, begin and end of an action | modes, configuration |
| Configuration (`configuration.c`, `*_config.c`) | what is configured for views, outputs, inputs | load, reload | all |
| Rendering, indicators, devices | pixels | draw | views, outputs |

What makes a part correct, and what is hard about it:

- *Views, sheets, groups.* A visible view is linked in a list of the server, one
  of its workspace and one of its group; each operation relinks it by hand. The
  lists have to agree with the flags after any sequence of operations.
- *Focus.* `workspace->focus_view` is a plain pointer. Whatever hides, moves or
  destroys a view has to give it up, in the right workspace, and end the
  dialogue about it, while the pointer may be on another output.
- *Screen lock.* The lock screen flips the visibility of views under the lists,
  while clients go on mapping, committing and unmapping and outputs come and go.
  Unlocking has to restore what the user had.
- *Outputs.* When an output goes, its views on all sheets have to find another
  workspace, in whatever mode the server is, down to no output at all.
- *Pending operations.* Only one is pending; the client acknowledges it later,
  when the view may be hidden, tiled, moved or gone.
- *Modes, bindings, timers, the unlocker.* An end action, a timer or an answer
  arrives after the state it was meant for has changed.

`PROJECT.json` lists every hazard found at its line, with the properties that
cover it.

## Modules

The modules and who uses whom:

```
Desktop      <- DesktopProofs <- DesktopListProofs
Tiling       <- TilingProofs
Handshake    <- HandshakeProofs
ScreenLock   <- Session (implements it) <- SessionProofs
Splits       <- Configuration <- Input
LayerShell   <- LayerShellProofs
Stacking     <- StackingProofs
ListFacts    <- TilingProofs, LayerShellProofs, StackingProofs
```

Each `MC` module gives one of them a small instance. The modules cut the
compositor where its parts touch through little: Desktop, Session, LayerShell
and Input each have the lock, seen from their own side (what is shown, the way
in and out, the focus, the keys); Desktop, Tiling and Handshake each have the
pending operation (that a commit shows a view, which operation replaces which,
which answer ends it); Stacking has the views of Desktop again, with the order
that Desktop leaves out and without the lock. A handler of one part that reaches another appears in
each module that its effect matters to.


### Desktop

`Desktop.tla` models which views are shown and which has the focus. One action
is one handler with every call it makes.

| Variable | Code |
|---|---|
| `outputs`, `current_sheet` | `server.outputs`, `workspace->sheet` |
| `workspace`, `focus_view`, `mode` | `server.workspace`, `workspace->focus_view`, `server.mode` |
| `mapped` | `view->surface != NULL` |
| `hidden`, `forced`, `public`, `invisible` | the flags of `view->flags` |
| `dirty` | `view->pending_operation.dirty` |
| `view_sheet`, `view_group`, `view_mark`, `mark_view` | the pointers between views, sheets, groups and marks |
| `visible_server_views`, `workspace_views`, `visible_group_views` | the lists a visible view is linked in, as sets |
| `aborted` | the `assert()` that failed, or the freed object that was used |

| Actions | Handlers |
|---|---|
| `Map`, `MapOnFreedSheet`, `Unmap`, `Destroy` | the map, unmap and destroy handlers of xdg and xwayland views with `hikari_view_map()`, `hikari_view_unmap()`, `hikari_view_fini()` |
| `RequestMinimize`, `RequestActivate` | the foreign toplevel requests |
| `QueueOperation`, `Commit` | `resize()` and the like; `commit_pending_operation()` |
| `PointerMotion` | `hikari_server_cursor_focus()` on a motion |
| `DisplaySheet`, `ShowViews`, `WorkspaceClear`, `HideView`, `OnlyView`, `HideGroup`, `OnlyGroup` | the key actions that show and hide |
| `PinToSheet`, `MoveToOutput`, `ToggleInvisible`, `TogglePublic`, `CycleView`, `CycleWorkspace`, `ShowMark`, `SwitchToMark` | the other key actions |
| `EnterMode`, `EnterMarkSelect`, `LeaveMode`, `AssignGroup`, `AssignMark`, `AssignSheet` | the dialogues and the drag |
| `Lock`, `Unlock` | `hikari_lock_mode_enter()`, the right password |
| `OutputAdd`, `OutputRemove` | `hikari_output_init()`, `hikari_output_fini()` |
| `CycleFromNoop`, `UseStaleFocus` | the places where the code follows a pointer that is not valid |

A handler may move the focus several times (it clears the focus, enters normal
mode, looks under the pointer, shows views, looks again). Those functions are
operators on a record of the four variables of the focus, and what lies under
the pointer is a choice among the views that are listed for the pointer's
workspace.

Abstractions:

- The order of a list and all geometry are left out. Which view lies under the
  pointer, which of several is first, and where the pointer is, are
  nondeterministic; so are the keys a user presses. The configuration can be
  reloaded, so a view may be given any of the configured properties at any map.
- An operation that needs no answer of the client is committed at once by the
  code; here it is queued and committed later, which allows more.
- "assign" stands for the sheet, group and mark assign modes and the input grab,
  which all work on the focus view; "move" for the modes that drag.
- Layers, popups, unmanaged Xwayland windows, drag and drop, the layout select
  mode, tiling and maximizing are not in this module.
- The process ends in a failed assertion, so a state in which `aborted` is not
  "none" has no successor, and deadlock is not checked.

### Tiling

`Tiling.tla` models the layouts of one workspace and the operations of its views
that wait for a client. A tiled view points to its tile, a pending operation to
the tile it will bring, and both tiles are linked in the layout until the client
answers; any key may be pressed, and the view may be unmapped, in between.

| Variable | Code |
|---|---|
| `current_sheet` | `workspace->sheet` |
| `view_sheet` | `view->sheet` |
| `sheet_views`, `visible_views` | `sheet->views` and `server.visible_views`, as sequences |
| `floating`, `invisible` | flags of `view->flags` |
| `operation` | `pending_operation.type` while `pending_operation.dirty` |
| `op_tile`, `tile` | `pending_operation.tile`, `view->tile`, by the sheet of the layout they are in; `Detached` is a tile with no layout |
| `layout` | `sheet->layout->tiles` |
| `maximized` | `view->maximized_state` |
| `aborted` | the `assert()` that failed, or the pointer that led nowhere |

| Actions | Handlers |
|---|---|
| `Map`, `Unmap`, `Commit` | `hikari_view_map()`, `hikari_view_unmap()`, the commit handler of a view that has answered |
| `ApplyLayout`, `Restack`, `ResetLayout` | `hikari_workspace_apply_split()`, `hikari_server_layout_restack_append()` and `_prepend()`, `hikari_layout_reset()` |
| `CycleLayoutView`, `Exchange`, `ExchangeMain` | the `VIEW_EXCHANGE` and `CYCLE_LAYOUT_VIEW` functions, `hikari_view_exchange()` |
| `ResetView`, `Resize`, `ToggleFullMaximize`, `ToggleVerticalMaximize`, `ToggleHorizontalMaximize` | the functions that queue an operation |
| `ToggleFloating`, `ToggleInvisible`, `PinToSheet` | the ones that reset a tiled view as well |
| `RaiseFocus`, `LowerFocus`, `HideFocus`, `SwitchSheet`, `ShowSheetViews` | the order of the views and what is shown |

A handler is a function on the record `Now` of the variables, made of the
functions of the code in their order: `QueueTile` is `queue_tile()`, `Apply` is
`commit_pending_operation()`, and so on. When one fails, `Become` keeps the
state before the handler and says in `aborted` what failed; the process ends
there. A handler that walks a list is a walk here: `Ahead`, `FirstShown`,
`FirstTileable`, and the folds `TileEach` and `ResetEach` over the views that a
layout takes up or leaves; each of them is a definition of its own, which the
proofs speak of.

Abstractions:

- Sizes are left out. `same` is the set of the views that have the size already
  which a reset or a tile gives them: those operations are applied at once, the
  others when the client answers. wlroots 0.19 schedules a configure for every
  resize, so `resize()` returns no serial of 0 for a mapped view. A commit that
  comes before the answer changes the size at most, and is no step.
- A split takes up to some number of views. How it divides the area, and what a
  grid leaves out when it is full, is in Splits.
- The focus view is any visible view. The configuration's choice of floating and
  invisible views is made by the keys that toggle them.
- One workspace, no lock: moving to another output, which resets a tiled view as
  pinning does, and the visibility while locked are in Desktop.
- `Users` says how the compositor is used: the keys that are pressed, the hasty
  ones among them, which are also pressed while the answer of the view's client
  is outstanding (other keys that ask whether an operation is pending do nothing
  then, or do not care), the number of views, and the splits. The first state
  chooses one, the variable `user`.

### Handshake

`Handshake.tla` models one view and its client, which have to agree on a size.
An operation asks the client for a size and is applied by the commit that has
answered; another operation may overtake it, and the client skips, delays and
ignores what it is asked.

| Variable | Code |
|---|---|
| `shell`, `life` | the kind of client; whether its surface is mapped |
| `size`, `tile_size`, `max_size` | `view->geometry`, `view->tile->view_geometry`, `view->maximized_state->geometry`, by their size; 0 if there is none |
| `dirty`, `op` | `view->pending_operation` with its type, size and serial |
| `scheduled`, `told`, `acked` | the configure event that waits for the loop to be idle, those sent, the one acknowledged last |
| `surface` | `surface->current`: size, serial and asked size of the configure it answers |
| `serial` | `wl_display_next_serial()` |

| Actions | Handlers |
|---|---|
| `InitialCommit`, `Map`, `Commit`, `Unmap`, `Destroy` | the handlers of `xdg_view.c` and `xwayland_view.c` |
| `SendConfigure`, `AckConfigure`, `Reconfigure` | wlroots: the idle event of the loop; the client's acknowledgement; a configure that hikari does not ask for |
| `RequestConfigure` | `request_configure_handler()` of an X client |
| `ResizeView`, `ToggleFullMaximize`, `TileView`, `ResetView` | the functions of `view.c` that queue an operation |

Abstractions: sizes are one number, places are left out. wlroots 0.19 schedules
a configure for each change, with a serial that is not 0; the serial does not
wrap. An X client is asked through Xwayland without serials, and any of its
commits applies what is pending. `MaxSerial` says how often a user asks.

Where the code is lenient the model is, too: a reset that finds the right size
is applied at once and does not take back a configure event that is under way;
`queue_reset()` does not ask whether something is pending; an X client that is
asked for the size it has stays dirty until it draws; one that asks for a size
itself while an operation is pending has another size than its window until its
next commit (so `SizeIsTheClients` is about xdg clients).

### Session and ScreenLock

`ScreenLock.tla` is what the lock promises: the screen is unlocked by an answer
to a password, and only if the right one was entered since it was locked. This
is promised as long as the unlocker reads every password as a whole (`whole`).
Once one has filled the buffer, the zero that is left of it is checked as the
next password, and every further answer may be to what an earlier password left
in the pipe; what remains is that the right password was at least a part of one
that was submitted (`part`).
`Session.tla` models how: the buffer of the lock mode, the two pipes, the
unlocker process, the indicator, the two timers, the outputs that the lock
switches off, and the shutdown. Its refinement mapping is

    locked <- mode = "lock"     asking <- waiting # "nothing"
    right <- granted            part <- entered                 whole <- filled = 0

| Variable | Code |
|---|---|
| `mode`, `waiting` | `server.mode`; whether `submit_password()` stands in `read()` or `wait()` |
| `input_buffer`, `question`, `answer` | the bytes up to `cursor`, what is written and not read in either pipe |
| `unlocker`, `given` | where `hikari_unlocker.c` is, and the string it has read |
| `granted`, `entered`, `filled` | history since the screen was locked: the right password was submitted; one that has it in it was; how many filled the buffer |
| `indicator`, `reset_state` | `lock_indicator->current` and its timer |
| `disable_outputs`, `outputs_disabled` | timer and flag of the lock mode |
| `outputs`, `enabled`, `cursor_active` | `server.outputs`, `output->enabled`, whether the cursor's listeners are linked |
| `place`, `asked`, `shutdown_timer`, `process` | the output of each mapped view, which views were asked to quit, `server.shutdown_timer`, how the process is |

| Actions | Handlers |
|---|---|
| `Lock`, `EditKey`, `DisableKey`, `SubmitPassword`, `Refused`, `Accepted`, `Unlock` | `hikari_lock_mode_enter()`, `key_handler()` with its functions, `submit_password()` in its parts, `cancel()` |
| `DisableTimer`, `ResetState` | `disable_outputs()`, `reset_state_handler()` |
| `Read`, `Check`, `Exit`, `Fault` | `check_password()` and `main()` of the unlocker; it is killed, or `pam_start()` fails |
| `OutputAdd`, `OutputRemove`, `ManageOutputs` | `hikari_output_init()`, `hikari_output_fini()`, `output_manager_apply_config()` |
| `MapView`, `UnmapView`, `QuitKey`, `Signal`, `ShutdownTimer`, `Stop` | views that come and go, `hikari_server_terminate()`, `shutdown_handler()`, `hikari_server_stop()` |

Abstractions: a password is right or wrong, PAM is external; a code point is the
sequence of its bytes. `MaxFilled` bounds how many passwords fill the buffer
while the screen is locked: each leaves one answer more in the pipe than
`submit_password()` reads, so without a bound the pipes grow. The signal handler may run at any time, also while the
compositor stands in `read()`. `wait()` returns once the unlocker is gone,
though it would return for any other child as well.

### Configuration and Splits

`Configuration.tla` loads a document: every section has its parser, a function
from what is configured and an entry to what is configured then, or `Refused`.
A document is a sequence of sections, a section one of entries with a key and a
value; libucl, which reads the text, is external. The parsers of the actions,
bindings and switches, of views and what they pass on to their child views, of
outputs, pointers and keyboards with what each takes over from `*`, of marks and
colours, and of layouts are operators named after the functions; `Load` is
`hikari_configuration_load()` with the order in which it takes the sections.

`Splits.tla` divides an area: `Halves`, `ScaledSize`, `GridShape`, `Cells`,
`Contain`, `Fill` and `Arrange` are `hikari_geometry_split_*()`,
`scale_size()` and the layout functions of `sheet.c` and `split.c`, in the
integers of the code. `Copy` is `hikari_split_copy()`.

Abstractions: names, colours and paths are values; a keymap is its names, and
`EnvLayout` what libxkbcommon takes from the environment when there are none;
the keys of an object are distinct; the rounding of doubles (1.0 - 0.9), which
may move a border by a pixel, and the freeing of what was parsed before an error
are left out. Memory that a parser does not initialize is a value "garbage";
nothing depends on the one of a background's fit, and `Input` chooses any code
for a mouse binding that has none (`Outcomes`).

What the modules reproduce although a reader may not expect it: `inherit` knows
`publicview` and ignores `public`; an output or a pointer that takes an option
from `*` has it as configured; an option that a new document no longer gives
keeps its old effect on a device; the numbers of sheets and the letters of marks
in a view's properties are not checked; a switch that gives only one of begin
and end leaves the other uninitialized (`configuration.c:1357`), as do a mouse
binding "-code" (`binding_config.c:136`) and a background object without "fit"
(`configuration.c:1504`); a keymap that is given by a file is not used
(`keyboard_config.c:112`, against `hikari.md:1098`): it is stored where the
rules are, the type goes on saying that there are rules, and the keyboard has the
names of `*` or of the environment, so `NamedBeforeStar` leaves out the layout
of a keyboard for which it or `*` gives a file; a dynamic scale may have a minimum
above its maximum, and looks at the first view whichever part is dominant; a
grid with room for fewer views than there are passes one over; an area that is
too small for a cell fails an assertion.

### Input

`Input.tla` puts the configuration in force under the devices and the keys.

| Variable | Code |
|---|---|
| `conf`, `file` | `hikari_configuration`, and the document that it was made of |
| `keyboards`, `cursor`, `switches` | the devices that are plugged in, with bindings resolved to key codes; `live` says whether what they point into is in force or was freed by a reload |
| `mode`, `modifiers`, `pending` | `server.mode`, `keyboard_state.modifiers`, `normal_mode.pending_action` |
| `ran`, `owed` | history: the actions of the last event, the end actions whose begin action ran |
| `lid`, `fault` | where each switch is; how the process ended |

| Actions | Handlers |
|---|---|
| `KeyEvent`, `ButtonEvent`, `ModifiersEvent` | key and modifier handlers of `keyboard.c`, `button_handler()` of `cursor.c`, through the mode's handler |
| `Toggle` | `toggle_handler()` of `switch.c` |
| `PlugKeyboard`, `UnplugKeyboard`, `PlugSwitch`, `UnplugSwitch` | `hikari_keyboard_init()`, `hikari_switch_init()` and `_fini()` |
| `Unlock` | the right password (see Session) |

An action that locks, reloads or grabs does so within the event; any other
action is only recorded in `ran`. Facts the model shows and no property excludes:
the pending end action is kept by address across a reload (the model stops with
"dangling" when it is run); a switch that was reset by a reload keeps its
listener, whose next event reads an action that is not there ("call"); turning a
switch on runs its begin action and in the same event its end action, because
the second test of `toggle_handler()` sees what the first has set (`switch.c:38`),
while hikari(1) has them apart (`hikari.md:1176`).

### LayerShell

| Variable | Code |
|---|---|
| `outputs`, `workspace`, `pointer`, `mode` | `server.outputs`, `server.workspace`, the output under the pointer, `server.mode` |
| `layers` | `output->layers[]`, for each kind a sequence |
| `usable_area` | which layers `output->usable_area` leaves room for |
| `life`, `current`, `layer_kind`, `layer_output` | of a layer: which of `wl_surface`, layer surface and `hikari_layer` are there; `surface->current`, `layer->layer`, `layer->output` |
| `loose` | the layers that `unmap()` took out of their list |
| `view_output`, `focus_view`, `focus_layer`, `keyboard` | where views are; the focus of each workspace; what has the seat's keyboard focus |

| Actions | Handlers |
|---|---|
| `NewLayer`, `CommitFirst`, `CommitBuffer`, `Commit`, `CommitNothing`, `CommitLate`, `DestroyRole`, `DestroySurface` | `hikari_layer_init()`, the commit, map, unmap and destroy handlers of `layer_shell.c` |
| `PointerMotion`, `CycleWorkspace`, `QuitView`, `ShowView`, `HideView`, `Lock`, `Unlock` | what moves the focus between layers and views |
| `OutputAdd`, `OutputRemove` | `hikari_output_init()`, `hikari_output_fini()` with `close_layers()` |

A handler that calls wlroots may end in one of several states, and is the set of
them; `Close`, `FreeOutput` and `MergeViews` are the steps of what `OutputRemove`
makes of each. `LayersAreNoViews` says that a layer and a view are different
things, which the keyboard focus, a pointer to either's surface, relies on.

Abstractions: an area is the set of the layers it leaves out; anchors and
margins, popups, unmanaged X windows, the noop output and a held button are left
out, and one output stays.

The module shows what happens to a layer that is mapped again: `unmap()` takes it
out of its list and `map()` does not put it back, so it is not drawn, not
reachable and not closed with its output until it changes its kind. A layer that
had the focus of another output than its own, or was never mapped, may be gone
while a workspace still has it for its focus; `focus()` uses the current
workspace and not that of the layer's output; a commit after the layer surface is
gone follows `layer->surface` (`layer_shell.c:361`); `close_layers()` leaves
unmapped layers linked in the list of the freed output; `topmost_of()` may pass
coordinates that were not initialized (`server.c:300`). The properties are what
does hold; where the code would use what is freed the model stops and says so in
`fault`.

### Stacking

`Stacking.tla` models the order: a view is linked in up to six lists, top first,
and every operation moves it in each of them by hand.

| Variable | Code |
|---|---|
| `outputs`, `current` | `server.outputs`, `workspace->sheet` |
| `sheet_of`, `group_of`, `hidden` | `view->sheet` (an output and a number), `view->group`, the flag |
| `stale` | the tiled views that were pinned and whose reset is pending, which have their new sheet and their old place in the lists of all views |
| `sheet_views`, `output_views`, `group_views` | the lists of all views, as sequences |
| `visible_views`, `workspace_views`, `visible_group_views` | the lists of visible views |
| `next`, `prev` | the links of `server.visible_groups`; `Root` is its head, a group with `NULL` links is in no list |
| `focus`, `cycling`, `mode` | `workspace->focus_view` of the server's workspace, `server.cycling`, `server.mode` |
| `typed` | `group_assign_mode.group`, `Freed` once that group was |
| `cut` | history: a plugged output has cut the list of visible groups off |
| `fault` | an `assert()` that failed, a `NULL` link, a head taken for a group ("garbage"), a freed group used ("freed") |

| Actions | Handlers |
|---|---|
| `Map`, `Unmap`, `Commit`, `Minimize` | clients and task bars |
| `RaiseFocus`, `LowerFocus`, `RaiseGroup`, `LowerGroup`, `HideView`, `HideGroup`, `OnlyView`, `OnlyGroup`, `PinToSheet`, `Migrate` | keys about the focus view and its group |
| `ClearWorkspace`, `DisplaySheet`, `ShowAll`, `ShowSheet`, `ShowGroup`, `ShowGroupOfSheet` | keys about the workspace |
| `CycleView`, `CycleGroupView`, `CycleGroup`, `MoveOrResize`, `ReleaseModifiers` | cycling, and the release of the modifiers, which raises the view |
| `EnterGroupAssign`, `TypeName`, `ConfirmGroup`, `CancelGroup` | `group_assign_mode.c` |
| `PlugOutput`, `UnplugOutput` | `hikari_workspace_init()` and `hikari_output_fini()` |

A function of `view.c` is an operator from a state of the server to the next one,
and a handler applies them in the order of the code. `server.visible_groups` is
modelled by its links because the code initializes the head of the list while
groups are linked in it.

Abstractions: the focus after `hikari_server_cursor_focus()` is any visible view,
what it was, or none if the pointer may be on another output that shows no view
of its current sheet; the lock, tiles, layers and the mark modes are those of the
other modules. Whether a view is tiled, so that pinning it queues a reset and
leaves it in the lists of all views where it was (`queue_reset()`, `view.c:366`),
whether that reset is applied at once (`Settled`), and which views are invisible
is a choice of each action; any mapped view may have an operation committed. A
reset that is applied at once in the middle of an evacuation is a `Commit` that
follows it. One output always stays, so views do not go to noop.

## Runs

| Run | Instance | Shows |
|---|---|---|
| `one_screen` | 2 views, 1 output that stays, sheets 0 to 2, 2 groups, 1 mark, 2 rules for clients | `MarksAgree`, `FocusIsVisible`, `NoAssertionFails` |
| `two_screens` | 2 views, 1 output that stays and 1 that comes and goes, sheets 0 and 1, 1 group | `VisibleListsAgree`, `DialogueHasFocus`, `ForcedOnlyWhileLocked`, `LockPreservesChoice` |
| `hotplug` | 1 view, 2 outputs that both come and go, none at the start | `TypeOK`, `WorkspacesAreLive`, `LockHasNoFocus` |
| `tiling` | sheets 0 and 1 and three users: `Tiler` (2 views, splits for 1 and 2; layouts, resets, pins, flags), `Sorter` (3 views, a split for 3; exchanges, restacks, raising, lowering, hiding), `Maximizer` (2 views, a split for 2; resizing, maximizing, resets) | `TilesAreLinked`, `TilesFollowOperations`, `OperationsApply`, `TiledViewsAreNormal`, `ExchangeSwaps`, `RestackKeepsOrder` |
| `handshake` | 1 view of either kind, 3 sizes of which one is the screen's, 5 serials | `SizeIsTheClients`, `OperationsAreAnswered`, `OperationArrives` (liveness) |
| `session` | 1 output, 1 view, a buffer of 3 bytes which 2 passwords may fill, code points of 1 and of 2 bytes | `AnswersKeepStep`, `OutputsAgree`, `StaysDark`, `LockIsSafe` (refinement), `AnswerArrives`, `OutputsGoDark`, `ShutdownEnds` (liveness) |
| `layers` | 2 layers that may be a launcher or a panel, 1 output that stays and 1 that comes and goes, 1 view | `KeysGoToTheFocus`, `GoneLayersLeaveNothing`, `LayersAreListed` |
| `config` | every document of up to two of 35 sections and some of three, layouts with up to 7 views | `SectionOrderIsFree`, `NamedBeforeStar`, `LayoutsTile`, `InheritanceIsExplicit` |
| `input` | 2 keyboards with different layouts, 1 switch, 2 key codes, 5 documents of which one is refused | `DevicesAreCurrent`, `LastBindingWins`, `EndFollowsBegin` (liveness) |
| `stacking` | up to 3 views and 2 groups on 1 output, 2 views while another output comes and goes, sheets 0 and 1 | `OneStack`, `GroupsStayLinked`, `GroupsKeepTheirOrder`, `ShowingKeepsOrder` |
| `dominant_scale`, `group_plug` | the documents of `config`; 2 views, 2 groups, 2 outputs | the findings below |

All state spaces are finite without a bound on the depth. Deadlock is not
checked: a process that has ended or failed stops.

*Desktop.* Two views are enough for one to take the mark, the group or the focus
of the other, and for one to be shown by an action that hides the other; sheet 0,
which is always visible, the current sheet and another are the three kinds of
sheets there are; two outputs are enough for the pointer to be elsewhere than
the focus, and for views to find another workspace or none. Views are symmetric
in the runs with two.

*Tiling.* Two views are enough for one to have a tile, or to wait for one, while
the other joins or leaves its layout; an exchange needs a third to leave alone.
The keys are divided among three users because together they give more states
than can be visited: `Tiler` has what puts tiles into layouts and takes them
out, `Sorter` what orders them, and `Maximizer` what competes for the pending
operation. None uses the horizontal maximization while an operation is pending
(see below). `TiledViewsAreNormal` and `RestackKeepsOrder` are about users who
wait for the answer before they make a view floating or invisible or pin it: a
view for which a tile is pending is not tiled yet, so it is not reset and is
tiled, floating, when its client answers, against what hikari(1) says of tiled
views; pinned, it gets a tile of the sheet it left, for the same reason.

*Handshake.* Five serials let several operations and configure events that
hikari did not ask for overtake each other, and three sizes tell the operation
that was answered from one before and one after it. *Session.* A buffer of three
bytes holds the right password of one, wrong ones, those of two bytes that fill
it, and refuses the code point that does not fit. A password that fills it and
has the right one at its end leaves that for the unlocker to read on its own
after another one: two are enough for an answer to bytes that were left behind to
unlock the screen though the right password was not submitted as such. Outputs
are switched together by the lock, so one that comes and goes stands for any; two
were checked with `MaxFilled = 1`. *LayerShell.* Two layers compete for the focus and the room;
with one layer all twelve states a client may commit were checked as well.
*Input.* Two layouts in which the same symbols have different codes, and
documents that drop, add and change what the devices point to. *Configuration.*
Each section that a parser treats in its own way is there in a good and in a bad
form.

*Stacking.* Three views are needed for a group of two beside another, or for a
view between two; two groups for one to be above the other; the second output is
one on which views are evacuated, to which they migrate, and whose coming cuts
the list of groups. The constraint `Few` of `MCStacking` allows `Most` views and
outputs together: three views while only the output `Stays` is there and the
list is whole, two otherwise (a state one view beyond is checked, too, but not
followed). At most one pinned view waits for its client, beside one other on the
one output, and alone while a second output is there or the list is cut. Views
and groups are symmetric.

### Fairness

The properties of Desktop, Tiling, LayerShell, Configuration and Stacking are
safety.

- Session: the unlocker runs and a `read()` or `wait()` that can return returns;
  the event loop ends when it is told to; the shutdown timer fires although the
  loop stands still now and then (strong fairness, since every wait interrupts
  it); the timer that disables the outputs fires if the user stops pressing keys,
  as each key arms it again. Nothing is assumed of the user, the clients or the
  hardware, and the unlocker may be killed or stuck at any time.
- Handshake: the loop becomes idle and sends what is scheduled; a client
  acknowledges what it is sent and draws what it has acknowledged. It need not
  do so for every configure event.
- Input: a user who has locked the screen unlocks it, and goes on using a
  keyboard that is plugged in in normal mode (strong fairness, since devices come
  and go). An end action waits for a key, so without a key it never comes.

### Findings

`dominant_scale` ends in a violation of hikari(1), "the dominant part of the
split should be scaled up or down" (`hikari.md:735`). When the right or bottom
part is written first, `hikari_split_vertical_init()` and its sibling turn the
scale round; `hikari_split_copy()` calls them again for the copy that a sheet
takes, which turns it back, so 0.75 is given to the other part.

`group_plug` ends in a violation of "cycle to the next or
previous group according to the stacking order by cycling through the top most
view of each group" (`hikari.md:206`): `hikari_workspace_init()` of a
plugged output initializes `server.visible_groups` (`workspace.c:43`) and cuts it
off the groups that are linked in it. Cycling then reaches none of them, or only
those raised since; a group whose link still leads to the head may make the head
lead back to it, and cycling may take the head for a group (`fault = "garbage"`).
`GroupsStayLinked` says that the list is right until then, and that no link ever
leads to a group that may be freed.

### Known stops and disagreements

Each of these is a behaviour of the code that TLC reaches in the modules, in a
trace that ends in an assertion or departs from a manual page. The properties
of the runs are stated so that they say what holds beside them.

- A view hidden with an operation pending appears when its client commits
  (`view.c:319`), on the lock screen too though it is not public
  (`hikari.md:188`). The lists of Desktop agree all the same.
- A task bar's minimize of a view that only the lock screen shows (`view.c:466`)
  fails the assertion of `hikari_view_hide()` that it is not forced
  (`view.c:1126`). `NoAssertionFails` has this one exception.
- With the pointer on another output, a view that is unmapped in a dialogue
  remains the focus view of its workspace: `clear_focus()` (`view.c:402`) enters
  normal mode, which changes the current workspace, before it clears the focus
  view of the current workspace. `FocusIsVisible` and `NoAssertionFails` are
  therefore checked with one output.
- The first output that is plugged while the screen is locked makes
  `hikari_output_init()` focus its workspace (`output.c:435`), which asserts
  normal mode (`workspace.c:375`).
- When all outputs are unplugged while the screen is locked, the views on the
  noop output stay overridden after unlocking, because `reset_visibility()`
  visits the outputs only. `ForcedOnlyWhileLocked` and `VisibleListsAgree` need
  an output that stays.
- Cycling from the noop output follows links that were not initialized
  (`CycleFromNoop`); a view that is mapped again after its output went uses the
  freed sheet (`MapOnFreedSheet`).
- The horizontal maximization (`view.c:1511`), alone of the three, does not ask
  whether an operation is pending. It replaces a pending reset, whose detached
  tile stays with the view, and the next layout fails an assertion
  (`view.c:1205`).
- A layout begins with the first view of a sheet and asserts that it is the
  focus view (`workspace.c:961`); when the top view is hidden, raising the focus
  view, the topmost visible one, does nothing, and the assertion fails
  (`main_view`).
- A cycle or an exchange from a view whose reset is pending follows a tile that
  is in no layout (`walk_detached`), one from a view of sheet 0 leaves its list
  or finds another layout (`walk_end`, `exchange_sheets`, `foreign_layout`,
  `no_first`), a restack of a sheet without a layout assumes that none of its
  views is hidden (`scan_hidden`).
- A password of one byte less than the buffer (1023 bytes) leaves its terminating
  zero in the pipe, which the unlocker checks as the next password: it gives one
  answer more than `submit_password()` reads, so further answers are to earlier
  bytes, and such a byte string may be a part of a password. `AnswersKeepStep`
  holds until then; `LockIsSafe` has its weaker half for the time after.
- Stopping the compositor by a signal while the screen is locked unlinks the
  cursor's listeners twice (`process = "crashed"`). A `pam_start()` that keeps
  failing leaves the compositor waiting for ever (`unlocker = "stuck"`).
- A view of the noop output, or one that is mapped after the shutdown began, is
  not asked to quit and holds the shutdown up until the user quits once more.
  Outputs that are plugged after the lock screen appeared stay off.
- The group assign mode points to the group whose name is typed; when the last
  view of that group is unmapped, the group is freed, and the next key damages
  its borders (`group_assign_mode.c:136`, 293; `fault = "freed"` in Stacking).
- A group is put first when any of its views is raised and last when any is
  lowered, and keeps its place when its topmost view is hidden (`view.c:191`), so
  cycling groups need not follow the order of their topmost views as
  `hikari.md:206` says. `EachGroupIsReached` is about which groups are reached,
  not about their order.
- `hikari_workspace_show_group()` does not raise the focus view, as
  `hikari.md:484` says, while `hikari_workspace_sheet_show_group()` does
  (`workspace.c:891`).
- A view that is pinned while its first tile is pending gets its tile in the
  layout of the sheet that it left (`view.c:1629`).
- What Configuration, Input and LayerShell reproduce is named with the modules.

## Proofs

TLAPS proves, for every value of the constants that their assumptions allow:

| Theorem | States | Assumes |
|---|---|---|
| `TypeCorrect` | `TypeOK` | the constants' assumptions in Desktop |
| `MarksStayPaired` | `MarksAgree` | |
| `LockKeepsFocusAway` | `LockHasNoFocus` | |
| `DialoguesKeepTheirFocus` | `DialogueHasFocus` | |
| `WorkspacesStayLive` | `WorkspacesAreLive` | |
| `ListsStayInStep` | `VisibleListsAgree` while the process runs | an output that stays |
| `OverrideEndsWithLock` | `ForcedOnlyWhileLocked` | an output that stays |
| `LockIsTransparent` | `LockPreservesChoice` | an output that stays |
| `FocusStaysVisible` | `FocusIsVisible` | one output |
| `AssertionsHold` | `NoAssertionFails` | one output |
| `HandshakeInvariant` | `IInv` of Handshake | the constants' assumptions in Handshake |
| `SizesAgree` | `SizeIsTheClients` | |
| `OnlyAnswersApply` | `OperationsAreAnswered` | |
| `SessionInvariant` | `Inv` of Session | the constants' assumptions in Session |
| `PipesAreEmptied` | `AnswersKeepStep` | |
| `LockKeepsItsPromise` | `LockIsSafe`: Session implements ScreenLock | |
| `FlagAndTimerAgree` | `OutputsAgree` | |
| `DarkOutputsStayDark` | `StaysDark` | |
| `LayerShellInvariant` | `IInv` of LayerShell | the constants' assumptions in LayerShell |
| `KeysAlwaysGoToTheFocus` | `KeysGoToTheFocus` | |
| `UnmappedLayersLeaveNothing` | `GoneLayersLeaveNothing` | |
| `LayersAreAlwaysListed` | `LayersAreListed` | |
| `TilingInvariant` | `IInv` of Tiling | the constants' assumptions in Tiling, and `Patient` |
| `LayoutsHaveLiveTiles` | `TilesAreLinked` | `Patient` |
| `TilesAlwaysFollowOperations` | `TilesFollowOperations` | `Patient` |
| `OperationsAlwaysApply` | `OperationsApply` | `Patient` |
| `TiledViewsStayNormal` | `TiledViewsAreNormal` | `Patient` |
| `ExchangesAlwaysSwap` | `ExchangeSwaps` | `Patient` |
| `ListsStaySound` | `IInv` of StackingProofs | the constants' assumptions in Stacking |
| `ListsStayOneStack` | `OneStack` | |
| `LinksStaySound` | `GroupsStayLinked` | |
| `GroupsAlwaysKeepOrder` | `GroupsKeepTheirOrder` | |

*Desktop.* `DesktopProofs` starts with the lemmas about the functions that move the
focus: all of them, whatever the pointer is on, keep what `Keeps` says (a locked
screen stays locked and focusless, the server goes only to workspaces it is
offered, a dialogue goes on only with its view, a failure is not undone).

The inductive invariant is `Base`. `Around` is what does not
depend on the focus: types, marks, what a view at rest and a mapped view look
like, and that every sheet is one of a workspace that exists (`Refuge`: the
outputs, and noop if no output is sure to stay). That part is needed because a
view that moves goes where a sheet points. `Focused` is the focus's type, its
workspace, the lock and the dialogues. `FocusKept` says of a handler what it does to the focus;
there is one lemma for every action, and `FocusKeptFocused` turns it into the
invariant.

`DesktopListProofs` adds the lists to the invariant. `RelistFollows` is the one
fact about the lists that every handler uses: taking views out and putting views
in keeps the three lists in step if the flags change accordingly. Lists that are
in step are part of the invariant only while the process runs, because a handler
that fails an assertion stops halfway. `OverrideEndsWithLock` needs the lists'
module for one thing: that every mapped view is on an output, where
`reset_visibility()` finds it.

The last part of that module is about one output, where the pointer is on the
workspace that has the focus or nowhere; with two, `FocusIsVisible` and
`NoAssertionFails` are false (see the known stops). The invariant `ScreenBase`
adds to the lists that the focus view is in the list of its workspace. A handler
clears, hides, shows and refocuses several times, so the lemmas follow the focus
through the records in between: `Aims` says of such a record that nothing failed
and that its focus is in a set of views, `Clear` says of the screen it looks at
that no listed view is hidden there. Every function takes a record that aims
into one set to one that aims into another: `clear_focus()` into what is left,
`cursor_focus()` into what is listed. The assertions hold because the handlers of
the screen that is not locked hide listed views and show hidden ones, and what
is listed is then what is neither hidden nor overridden (`At`). The lists have to
be in step before the last `cursor_focus()` and not only after the handler, so
the lemmas about the lists say that they are in step whatever the focus does
(`InStep`), and no longer only in handlers that succeed.

*Handshake.* That a commit which applies an operation answers it follows from
three facts that are inductive together: the serials of what is scheduled, told,
acknowledged and shown are in that order (`InOrder`); every configure event from
the one that asked on asks for the size of the pending operation, because
whatever changes the asked size queues an operation of its own (`AskedFor`); and
what is drawn around the view has the size of its buffer (`Agree`). A commit is
accepted when its serial is not below that of the operation, so it is one of
those events.

*Session.* A positive answer has to belong to a right password of this lock. The
invariant has two parts. Until a password fills the buffer it follows the one
that was submitted: it is in the question pipe, or read by the unlocker, or
answered, or lost with an unlocker that is gone (`WaitOK`, `AskedOK`), and the
pipes hold nothing else while the loop runs (`IdleOK`); `BufferOK` bounds what is
typed, so that what is written is read in one piece, and `StringOfWord` says that
the reader makes of it what was typed. The other part, `PipesOK`, holds
throughout, however far the pipes are out of step: a password has no zero in it
and is followed by one in the pipe, so whatever piece of the pipe the unlocker
takes for a password is a piece of one that was submitted.
`DarkOK` is the part about the outputs. Each action keeps each part; every step
of Session is then a step of ScreenLock or leaves its variables alone.

*Lists and folds.* `ListFacts` says what unlinking, appending, cutting and
replacing do to a list, and how to reason about a fold. A fold is defined by a
recursive function on sets of places, chosen by CHOOSE; an induction theorem over
such sets would take an operator for a parameter, which the provers cannot
instantiate. Instead, `RecursionExists` shows by well-founded induction (a set of
numbers has a least element, so a family of finite sets has one of least size)
that there is such a function, whatever the step is, and `RecursionStays` that
its values are in a family of sets `V` if each step leads from the rest's set to
the set's own. An invariant of a loop is then a family of sets of states: the
states that are sound with so many of the list still to go (`LoopExists`,
`LoopStays`). About the order of a list there are `Rising` (its elements' ranks
rise along it) and what keeps it: a list to which an element is prepended with a
lower rank, or that is joined to one of higher ranks (`RisingJoined`). Two lists
that rise in the same ranks and have the same elements are equal (`RisingAlike`).

*LayerShell.* `Safe` is about a record of the state, because most lemmas are about
the records between the calls of a handler. `OneFocus` holds between any two of
them, a crash included. `LayersFine` has two parameters for what a handler leaves
undone on the way: the outputs whose layers are being closed, where a layer that
lost its output is still linked, and the layers that were given a state which
`commit_handler()` has not looked at. The three properties are not inductive
without `Rooms` (a layer leaves room on its own output only, or is gone
altogether) and `Known` (a layer that was not unmapped is linked where it points
to): unmapping a layer takes the room from the output it points to, and closing
the layers of an output finds those that are linked there.

*Tiling.* `Sound` is about a record of the state, too. Its parts: each list has a
view once, and a view that is in one knows its sheet (`Shelved`); a view's tile,
its pending tile and its operation fit together (`Follows`); a layout has exactly
the tiles that point to it (`Linked`); what the user keeps out of layouts has no
tile (`Normal`). `Follows` is what the properties lack to be inductive: that a view with a
pending reset has no tile of a layout, or the reset would be followed by a second
tile; that the vertical maximization is pending only for a view which is not
maximized that way, or the assertions of `commit_pending_operation()` fail. Raising a
view changes only where it is in its lists (`Moves`), so those handlers need one
lemma; each function that queues, applies or replaces an operation has its own
(`LosesTile`, `TilingSound`, the latter for a fold whose step is guarded by the
precondition that it keeps).

`ExchangeSwaps` says which view's next tile comes before which, so its proof is
about ranks of tiles. Any layout rises in the doubled ranks of its places, which
leaves room for a tile that is queued just behind another (`QueuedBehindEachOther`);
a commit gives the rank of the pending tile to the view's own
(`CommittedTilePlaced`), so the order is the same whichever client answers first.

The theorems about Tiling assume `Patient`: that the horizontal maximization is
not asked for while an operation is pending. Without it they are false
(`toggle_horizontal_maximize`, `view.c:1511`, replaces what is pending, see the
known stops), and the step of that action is the only one that needs it. The
attempt at the proof found a mistake of an earlier version of the model, too:
`CommitMaximize` and `PinToSheet` were written with a CASE whose guards overlap,
which leaves open what TLC decides by their order. They are IFs now, like the
code.

*Stacking.* `Good` is about a record of the state as well. Its core is one rank
of all views, a number for each, in which every list rises (`Ordered`): six kinds
of lists, each linked and unlinked by hand, agree as long as there is such a rank.
A pinned view that waits has a rank of its own, and the sheet it had before, in
the lists of all views (`InAll`, `StandsAt`), until something moves it to an end
of them (`StandsAgain`).
`Line` and `Shelf` say which views a list has, by the mapped and visible views'
sheet, output or group. Most operations break that on the way, so `InLists` takes
the views `X` that an operation is about to put in their place, among all views,
and `Y`, among the visible ones; raising a view gives it a rank below all
(`TopOfAll`, `TopOfVisible`), lowering one above all. Sheets, groups and flags
change in between, and a lemma for each function says what it does to `X` and
`Y`. `OneStack` follows because a rank cannot rise from one view to another and
back, and because `Good` leaves no `fault` but those known.

The links of the groups are not a sequence in the model, because they are
initialized while groups are linked. `Chain` says that `next` and `prev` agree
and lead only to groups with visible views, which a plugged output does not
disturb; `Ring` says that they make one round from the root, which it does
(`cut`). `GroupsStayLinked` follows by walking the round, which is as long as
there are such groups. `FocusFits` is needed because the handlers raise, lower
and cycle from the focus: it is visible, or there is none.

`GroupsKeepTheirOrder` is about loops over a list that the body of the loop
reorders. `OrderedBy` says of the visible views which rank each has after so many
views of the group were moved: the moved ones the ranks that they were given, in
the order of the loop, the others the ranks they had. What the property says the
list should be rises in the same ranks, and so is the same list (`GroupOnTop`,
`GroupAtBottom`). That the loops of the code meet every view of the group once,
though each call reorders the list that they walk, is how the model has them: they
keep the neighbour before the call and end at the view that was moved first.

### Only model-checked

- Liveness: `AnswerArrives`, `OutputsGoDark`, `ShutdownEnds`, `OperationArrives`,
  `EndFollowsBegin`. The prover does not reason about fairness.
- `RestackKeepsOrder` of Tiling, which needs the order of the views in their sheet
  and on the screen after loops that raise each of them; the invariant of the proofs
  says who is in a list, and not where.
- `ShowingKeepsOrder` of Stacking: the order after loops that hide over several
  lists and then show over several. That these loops keep the lists sound is
  proved (`ListsStaySound`), that they show exactly these views in this order is
  not.
- Input, Configuration and Splits: what their parsers and trees compute is
  defined by recursive operators, which the prover does not take.

## Plan

Done: visibility, focus, lock and outputs (Desktop), layouts and tiles (Tiling),
the sizes and serials of operations (Handshake), the password, the timers and
the shutdown (Session, ScreenLock), the configuration and the splits
(Configuration, Splits), devices, bindings and switches (Input), layers
(LayerShell), the order of views and groups (Stacking), and the proofs above.
Left, in order:

1. `ShowingKeepsOrder` of Stacking.
2. `RestackKeepsOrder` of Tiling.
3. Positions: moving, snapping and constraining a view, popups.

## Not modelled

- Rendering, borders, indicators, cursors and fonts draw what the model calls
  visible and keep no state that others read.
- The line editor of the dialogues and the completion of group names: sequential;
  what they yield is a parameter of the dialogues.
- Forwarding of device events to the seat, libinput's settings, the options of
  `main()`, the creation of the backend, memory and UTF-8 helpers: no control
  worth a model.
- wlroots, Wayland, Xwayland, libucl, libxkbcommon and PAM are libraries: the
  models contain what hikari sees of them.
