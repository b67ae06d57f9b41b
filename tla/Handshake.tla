------------------------------- MODULE Handshake -------------------------------
(***************************************************************************)
(* A view and its client agree on a size (xdg_view.c, xwayland_view.c and    *)
(* the pending operation of view.c).                                        *)
(*                                                                         *)
(* An operation asks the client for a size and is applied when the client  *)
(* has committed one.  An xdg client is asked by configure events, which   *)
(* carry serials, wait until the event loop is idle, and are acknowledged   *)
(* and answered by commits whenever the client likes; an X client is asked  *)
(* through Xwayland, without serials.  Only sizes matter here, not places:  *)
(* which operation is queued when is the matter of module Tiling.           *)
(***************************************************************************)
EXTENDS Naturals, Sequences

CONSTANTS
  Size,        \* the sizes that a view and its client may have
  Full,        \* the size of the usable area
  MaxSerial    \* no more is asked of the client after that many serials

ASSUME SizesAreNumbers == Size \subseteq Nat \ {0} /\ Full \in Size
ASSUME MaxSerialIsNumber == MaxSerial \in Nat

VARIABLES
  shell,      \* "xdg" or "xwayland"
  life,       \* of the surface
  size,       \* view->geometry
  tile_size,  \* view->tile->view_geometry, 0 if the view is not tiled
  max_size,   \* view->maximized_state->geometry, 0 if it is not maximized
  dirty, op,  \* view->pending_operation
  scheduled,  \* the configure event that waits for the loop to be idle
  told,       \* the configure events that the client has not acknowledged
  acked,      \* the one that it acknowledged last
  surface,    \* surface->current: its size, and the configure it answers
  serial      \* the last serial of the display

vars == <<shell, life, size, tile_size, max_size, dirty, op, scheduled, told, acked,
          surface, serial>>

Now ==
  [shell |-> shell, life |-> life, size |-> size, tile_size |-> tile_size,
   max_size |-> max_size, dirty |-> dirty, op |-> op, scheduled |-> scheduled,
   told |-> told, acked |-> acked, surface |-> surface, serial |-> serial]

Become(s) ==
  /\ shell' = s.shell /\ life' = s.life
  /\ size' = s.size /\ tile_size' = s.tile_size /\ max_size' = s.max_size
  /\ dirty' = s.dirty /\ op' = s.op
  /\ scheduled' = s.scheduled /\ told' = s.told /\ acked' = s.acked
  /\ surface' = s.surface /\ serial' = s.serial

Nothing == [serial |-> 0, size |-> 0]

--------------------------------------------------------------------------------
(* The geometry of the view                                                *)

(* refresh_geometry: the geometry that counts.                              *)
CurrentSize(s) ==
  IF s.max_size # 0 THEN s.max_size ELSE IF s.tile_size # 0 THEN s.tile_size ELSE s.size

(* hikari_view_refresh_geometry                                            *)
Refreshed(s, n) ==
  IF s.max_size # 0 THEN [s EXCEPT !.max_size = n]
  ELSE IF s.tile_size # 0 THEN [s EXCEPT !.tile_size = n]
  ELSE [s EXCEPT !.size = n]

(* commit_operation: the commit handlers of the operations.                 *)
Applied(s, n) ==
  CASE s.op.type = "reset"      -> Refreshed([s EXCEPT !.tile_size = 0, !.max_size = 0], n)
    [] s.op.type = "resize"     -> Refreshed(s, n)
    [] s.op.type = "maximize"   -> [s EXCEPT !.max_size = n]
    [] s.op.type = "unmaximize" -> Refreshed([s EXCEPT !.max_size = 0], n)
    [] s.op.type = "tile"       -> [s EXCEPT !.max_size = 0, !.tile_size = n]

CommitPendingOperation(s, n) == [Applied(s, n) EXCEPT !.dirty = FALSE]

--------------------------------------------------------------------------------
(* What the client is asked                                                *)

(* wlr_xdg_surface_schedule_configure: all that is asked before the loop is *)
(* idle goes into one event.                                                *)
Schedule(s) ==
  IF s.scheduled.serial # 0 THEN s
  ELSE [s EXCEPT !.scheduled.serial = s.serial + 1, !.serial = @ + 1]

(* wlr_xwayland_surface_configure: the surface has the size at once, the    *)
(* client hears of it if it is new.                                         *)
ConfigureX(s, n) ==
  [s EXCEPT !.surface.size = n,
            !.told = IF n = s.surface.size THEN @ ELSE <<[serial |-> 0, size |-> n]>>]

(* resize: of an X client it waits for any commit, of an xdg client for the *)
(* answer to the configure event that is scheduled.                         *)
Resize(s, type, n) ==
  LET asked == IF s.shell = "xdg" THEN Schedule([s EXCEPT !.scheduled.size = n])
               ELSE ConfigureX(s, n)
      wait  == IF s.shell = "xdg" THEN asked.scheduled.serial ELSE 0
  IN  [asked EXCEPT !.op = [type |-> type, size |-> n, serial |-> wait], !.dirty = TRUE]

(* queue_reset and queue_tile apply the operation at once if the view has    *)
(* the size already.  The serial stays that of an earlier operation.        *)
Queue(s, type, n) ==
  IF n = CurrentSize(s)
  THEN CommitPendingOperation([s EXCEPT !.op = [type |-> type, size |-> n, serial |-> @.serial]], n)
  ELSE Resize(s, type, n)

(* hikari_view_was_updated                                                 *)
WasUpdatedByAny(s) == s.dirty

WasUpdatedLater(s) == s.dirty /\ (s.shell = "xdg" => s.surface.serial > s.op.serial)

WasUpdated(s) == s.dirty /\ (s.shell = "xdg" => s.surface.serial >= s.op.serial)

(* The commit handler of an xdg client: it is told that it is tiled or not   *)
(* before its size is taken over.  A size that nobody asked for is, too.    *)
CommitXdgAsked(s) ==
  IF ~WasUpdated(s) THEN Refreshed(s, s.surface.size)
  ELSE CommitPendingOperation(IF s.op.type = "resize" THEN s ELSE Schedule(s), s.op.size)

CommitXdg(s) ==
  IF ~WasUpdated(s) THEN Refreshed(s, s.surface.size)
  ELSE CommitPendingOperation(IF s.op.type = "resize" THEN s ELSE Schedule(s),
                              s.surface.size)

(* That of an X client.                                                     *)
CommitX(s) ==
  IF WasUpdated(s) THEN CommitPendingOperation(s, s.op.size) ELSE Refreshed(s, s.surface.size)

--------------------------------------------------------------------------------
(* The client                                                              *)

Init ==
  /\ shell \in {"xdg", "xwayland"}
  /\ life = "new"
  /\ size = 0 /\ tile_size = 0 /\ max_size = 0
  /\ dirty = FALSE /\ op = [type |-> "none", size |-> 0, serial |-> 0]
  /\ scheduled = Nothing /\ told = <<>> /\ acked = Nothing
  /\ surface = [size |-> 0, answers |-> 0, serial |-> 0]
  /\ serial = 0

(* The first commit of an xdg surface: wlroots answers with a configure.    *)
InitialCommit ==
  /\ shell = "xdg" /\ life = "new" /\ serial < MaxSerial
  /\ Become([Schedule(Now) EXCEPT !.life = "initialized"])

(* The event loop is idle: the scheduled configure event is sent.           *)
SendConfigure ==
  /\ scheduled.serial # 0
  /\ Become([Now EXCEPT !.told = Append(@, scheduled), !.scheduled.serial = 0])

(* xdg_surface.ack_configure: of any of them, the earlier ones are void.    *)
AckConfigure ==
  /\ shell = "xdg"
  /\ \E i \in DOMAIN told :
       Become([Now EXCEPT !.acked = told[i], !.told = SubSeq(@, i + 1, Len(@))])

(* A commit with a buffer of any size.                                      *)
Committed(n) ==
  IF shell = "xdg"
  THEN [Now EXCEPT !.surface = [size |-> n, answers |-> acked.size, serial |-> acked.serial]]
  ELSE [Now EXCEPT !.told = <<>>]

(* map_handler, and for an xdg client the commit handler after it, which    *)
(* is the first to see the size if the view was mapped before.              *)
Map(n) ==
  /\ IF shell = "xdg" THEN life = "initialized" /\ acked # Nothing ELSE life = "new"
  /\ Become(LET mapped == [Committed(n) EXCEPT !.life = "mapped"]
            IN  IF shell = "xdg" THEN Refreshed(mapped, n) ELSE Refreshed(ConfigureX(mapped, n), n))

Commit(n) ==
  /\ life = "mapped"
  /\ Become(IF shell = "xdg" THEN CommitXdg(Committed(n)) ELSE CommitX(Committed(n)))

(* hikari_view_unmap.  wlroots forgets all that was asked of an xdg surface. *)
Unmapped(s) ==
  [Refreshed([s EXCEPT !.tile_size = 0], CurrentSize(s)) EXCEPT
     !.dirty = FALSE, !.life = "new",
     !.scheduled = Nothing, !.told = <<>>, !.acked = Nothing,
     !.surface = [size |-> 0, answers |-> 0, serial |-> 0]]

Unmap == life = "mapped" /\ Become(Unmapped(Now))

Destroy ==
  /\ life # "gone"
  /\ Become([(IF life = "mapped" THEN Unmapped(Now) ELSE Now) EXCEPT !.life = "gone",
               !.scheduled = Nothing, !.told = <<>>])

(* request_configure: an X client asks for a size and gets it if it fits.   *)
RequestConfigure(n) ==
  /\ shell = "xwayland" /\ life \in {"new", "mapped"} /\ serial < MaxSerial
  /\ Become([ConfigureX(Now, n) EXCEPT !.serial = @ + 1])

(* activate, request_fullscreen and the mode of the decoration: a configure *)
(* event with the size that was asked for last.                             *)
Reconfigure ==
  /\ shell = "xdg" /\ life \in {"initialized", "mapped"} /\ serial < MaxSerial
  /\ Become(Schedule(Now))

--------------------------------------------------------------------------------
(* The operations.  MaxSerial counts those of an X client, too.             *)

Counted(s) == IF shell = "xdg" THEN s ELSE [s EXCEPT !.serial = @ + 1]

May == life = "mapped" /\ serial < MaxSerial

(* hikari_view_resize and its relatives.                                    *)
ResizeView(n) ==
  /\ May /\ ~dirty /\ max_size = 0
  /\ Become(Counted(Resize(Now, "resize", n)))

ToggleFullMaximize ==
  /\ May /\ ~dirty
  /\ Become(Counted(IF max_size # 0
                    THEN Resize(Now, "unmaximize", IF tile_size # 0 THEN tile_size ELSE size)
                    ELSE Resize(Now, "maximize", Full)))

(* A layout or an exchange gives the view a tile.                           *)
TileView(n) ==
  /\ May /\ ~dirty
  /\ Become(Counted(Queue(Now, "tile", n)))

(* queue_reset, by a key, a pin, a float or an output that goes, does not   *)
(* wait for the pending operation.                                          *)
ResetView ==
  /\ May
  /\ Become(Counted(Queue(Now, "reset", size)))

Next ==
  \/ InitialCommit \/ SendConfigure \/ AckConfigure \/ Unmap \/ Destroy \/ Reconfigure
  \/ \E n \in Size : Map(n) \/ Commit(n) \/ RequestConfigure(n) \/ ResizeView(n) \/ TileView(n)
  \/ ToggleFullMaximize \/ ResetView

Spec == Init /\ [][Next]_vars

(* The loop becomes idle, and a client acknowledges what it is sent and      *)
(* then draws.                                                               *)
Answers == \E n \in Size : Commit(n)
Owes == IF shell = "xdg" THEN acked.serial # surface.serial ELSE told # <<>>

FairSpec ==
  /\ Spec
  /\ WF_vars(SendConfigure) /\ WF_vars(AckConfigure) /\ WF_vars(Owes /\ Answers)

--------------------------------------------------------------------------------
(* What is drawn around an xdg client has the size of its buffer, also while *)
(* an operation is pending, was overtaken by another one, or was applied    *)
(* with another size than the one it asked for (commit_handler of            *)
(* xdg_view.c, hikari_view_refresh_geometry).                                *)
SizeIsTheClients == shell = "xdg" /\ life = "mapped" => CurrentSize(Now) = surface.size

(* An operation is applied by a commit that answers the configure event     *)
(* that asked for its size, never by one for an earlier operation that was  *)
(* overtaken (hikari_view_was_updated, queue_reset).                         *)
OperationsAreAnswered ==
  [][shell = "xdg" /\ dirty /\ ~dirty' /\ Answers => surface'.answers = op.size]_vars

(* A client that answers ends the pending operation, however many events it *)
(* skips: no view stays dirty, and so deaf to its keys (guards of view.c),   *)
(* for good.  An X client answers only if its size changed.                 *)
OperationArrives == dirty /\ (shell = "xdg" \/ told # <<>>) ~> ~dirty
================================================================================
