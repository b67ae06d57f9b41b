--------------------------- MODULE LayerShellProofs ---------------------------
(***************************************************************************)
(* Proofs about LayerShell: each of its three invariants holds for any      *)
(* outputs, layers, views and states of the clients.                        *)
(*                                                                         *)
(* A handler maps the record of the state, so the invariant is about such   *)
(* records: its parts say of s what holds while a handler runs, but for the *)
(* outputs that are being closed and the layers that were given a state     *)
(* that commit_handler has not looked at yet.                               *)
(***************************************************************************)
EXTENDS LayerShell, ListFacts

Life == {"none", "new", "initialized", "mapped", "unmapped", "closed", "dead"}
Fault == {"none", "assert", "freed surface", "freed output"}

States ==
  [outputs : SUBSET Output, layers : [Output -> [Kind -> Seq(Layer)]],
   usable_area : [Output -> SUBSET Layer], life : [Layer -> Life],
   current : [Layer -> State \cup {NoState}], layer_kind : [Layer -> Kind \cup {NULL}],
   layer_output : [Layer -> Output \cup {NULL}], loose : SUBSET Layer,
   view_output : [View -> Output \cup {NULL}], workspace : Output,
   focus_view : [Output -> View \cup {NULL}], focus_layer : [Output -> Layer \cup {NULL}],
   keyboard : Layer \cup View \cup {NULL}, pointer : Output,
   mode : {"normal", "lock"}, fault : Fault]

OneFocus(s) ==
  /\ \A w \in Output : s.focus_view[w] = NULL \/ s.focus_layer[w] = NULL
  /\ s.keyboard # NULL =>
       /\ s.mode = "normal"
       /\ s.keyboard \in {s.focus_view[s.workspace], s.focus_layer[s.workspace]}
  /\ \A w \in Output, l \in s.loose : s.focus_layer[w] = l => s.layer_output[l] # w
  /\ s.fault # "assert"

Rooms(s) ==
  \A o \in Output : \A l \in s.usable_area[o] :
    l \notin s.loose /\ (s.layer_output[l] = o \/ s.life[l] \in {"closed", "dead"})

Listed(s, closing) ==
  /\ \A o \in Output, k \in Kind : IsInjective(s.layers[o][k])
  /\ \A o \in Output, k \in Kind, l \in Layer : IsListed(s, o, k, l) =>
       /\ o \in s.outputs /\ l \notin s.loose /\ s.layer_kind[l] = k
       /\ \/ s.layer_output[l] = o
          \/ o \in closing /\ s.layer_output[l] = NULL /\ s.life[l] = "closed"

Known(s) ==
  \A l \in Layer :
    /\ s.layer_output[l] \in s.outputs \cup {NULL}
    /\ s.life[l] = "none" => s.layer_output[l] = NULL
    /\ s.life[l] = "none" => l \notin s.loose
    /\ s.life[l] = "unmapped" => l \in s.loose
    /\ s.life[l] \in {"new", "initialized", "mapped"} /\ l \notin s.loose =>
         /\ s.layer_output[l] # NULL /\ s.layer_kind[l] # NULL
         /\ IsListed(s, s.layer_output[l], s.layer_kind[l], l)

Kinds(s, given) ==
  \A l \in Layer \ given :
    s.life[l] = "mapped" /\ l \notin s.loose => s.layer_kind[l] = s.current[l].kind

LayersFine(s, closing, given) ==
  Rooms(s) /\ Listed(s, closing) /\ Known(s) /\ Kinds(s, given)

(* The inductive invariant.                                                 *)
Safe(s) ==
  /\ s \in States
  /\ OneFocus(s)
  /\ LayersFine(s, Output, Layer)
  /\ Running(s) => LayersFine(s, {}, {})

IInv == Safe(Now)

-----------------------------------------------------------------------------
(* The focus                                                               *)

(* The parts of a state that hikari_server_cursor_focus leaves alone.       *)
SameLayers(s, t) ==
  /\ t.outputs = s.outputs /\ t.layers = s.layers /\ t.usable_area = s.usable_area
  /\ t.life = s.life /\ t.current = s.current /\ t.layer_kind = s.layer_kind
  /\ t.layer_output = s.layer_output /\ t.loose = s.loose

LEMMA SameLayersFine ==
  ASSUME NEW s, NEW t, SameLayers(s, t), NEW closing, NEW given,
         LayersFine(s, closing, given)
  PROVE  LayersFine(t, closing, given)
<1>1. Rooms(t)
  BY DEF LayersFine, SameLayers, Rooms
<1>2. Listed(t, closing)
  BY DEF LayersFine, SameLayers, Listed, IsListed
<1>3. Known(t)
  BY DEF LayersFine, SameLayers, Known, IsListed
<1>4. Kinds(t, given)
  BY DEF LayersFine, SameLayers, Kinds
<1> QED
  BY <1>1, <1>2, <1>3, <1>4 DEF LayersFine

(* What a handler still being run, or ended by a crash, has of a state.     *)
Fine(s, closing, given) == s \in States /\ OneFocus(s) /\ LayersFine(s, closing, given)

LEMMA CrashFine ==
  ASSUME NEW s, NEW closing, NEW given, Fine(s, closing, given),
         NEW what \in Fault \ {"assert"}
  PROVE  Fine(Crash(s, what), closing, given) /\ SameLayers(s, Crash(s, what))
<1>1. SameLayers(s, Crash(s, what))
  BY DEF SameLayers, Crash, Fine, States
<1>2. Crash(s, what) \in States
  BY DEF Crash, Fine, States
<1>3. OneFocus(Crash(s, what))
  BY DEF Crash, Fine, States, OneFocus
<1> QED
  BY <1>1, <1>2, <1>3, SameLayersFine DEF Fine

LEMMA FocusViewFine ==
  ASSUME NEW s \in States, OneFocus(s), NEW w \in Output, NEW v \in View \cup {NULL},
         v = NULL \/ s.mode = "normal"
  PROVE  /\ FocusView(s, w, v) \in States /\ OneFocus(FocusView(s, w, v))
         /\ SameLayers(s, FocusView(s, w, v))
<1> DEFINE t == FocusView(s, w, v)
<1>1. t \in States
  BY DEF FocusView, States
<1>2. SameLayers(s, t)
  BY DEF FocusView, SameLayers, States
<1>3. /\ t.keyboard = v /\ t.workspace = w /\ t.mode = s.mode /\ t.fault = s.fault
      /\ t.focus_view = [s.focus_view EXCEPT ![w] = v]
      /\ t.focus_layer = [s.focus_layer EXCEPT ![w] = NULL]
  BY DEF FocusView, States
<1>4. s.focus_view \in [Output -> View \cup {NULL}] /\
          s.focus_layer \in [Output -> Layer \cup {NULL}]
  BY DEF States
<1>5. s.loose \subseteq Layer /\ t.loose = s.loose /\ t.layer_output = s.layer_output
  BY <1>2 DEF SameLayers, States
<1> HIDE DEF t
<1>6. OneFocus(t)
  BY <1>3, <1>4, <1>5, NullIsNothing DEF OneFocus
<1> QED
  BY <1>1, <1>2, <1>6 DEF t

LEMMA FocusLayerFine ==
  ASSUME NEW s \in States, OneFocus(s), NEW l \in Layer, s.mode = "normal", l \notin s.loose
  PROVE  /\ FocusLayer(s, l) \in States /\ OneFocus(FocusLayer(s, l))
         /\ SameLayers(s, FocusLayer(s, l))
<1>1. CASE ~s.current[l].interactive
  BY <1>1 DEF FocusLayer, SameLayers
<1>2. CASE s.current[l].interactive
  <2> DEFINE w    == s.workspace
             left == IF s.focus_view[w] = NULL THEN s ELSE FocusView(s, w, NULL)
             t    == [left EXCEPT !.keyboard = l, !.focus_layer[w] = l]
  <2>1. FocusLayer(s, l) = t
    BY <1>2 DEF FocusLayer
  <2>2. w \in Output
    BY DEF States
  <2>3. left \in States /\ OneFocus(left) /\ SameLayers(s, left)
    BY <2>2, FocusViewFine DEF SameLayers
  <2>4. left.workspace = w /\ left.mode = "normal" /\ left.focus_view[w] = NULL
    BY <2>2 DEF FocusView, States
  <2> HIDE DEF left, w
  <2>5. t \in States /\ SameLayers(left, t)
    BY <2>2, <2>3 DEF SameLayers, States
  <2>6. /\ t.keyboard = l /\ t.workspace = w /\ t.mode = "normal" /\ t.fault = left.fault
        /\ t.focus_view = left.focus_view
        /\ t.focus_layer = [left.focus_layer EXCEPT ![w] = l]
        /\ left.focus_layer \in [Output -> Layer \cup {NULL}]
        /\ t.loose = left.loose /\ t.layer_output = left.layer_output
    BY <2>2, <2>3, <2>4 DEF States
  <2>7. l \notin left.loose
    BY <2>3 DEF SameLayers
  <2> HIDE DEF t
  <2>8. OneFocus(t)
    BY <2>2, <2>3, <2>4, <2>6, <2>7, NullIsNothing DEF OneFocus
  <2> QED
    BY <2>1, <2>3, <2>5, <2>8 DEF SameLayers
<1> QED
  BY <1>1, <1>2

-----------------------------------------------------------------------------
(* Under the pointer lies a layer that is in a list, a view, or nothing.    *)
LEMMA FirstOf ==
  ASSUME NEW list \in Seq(Layer), NEW s, NEW over
  PROVE  /\ Topmost(s, list, over) \in ToSet(list) \cup {NULL}
         /\ LayerAt(list, over) \in ToSet(list) \cup {NULL}
<1>1. Len(list) \in Nat
  OBVIOUS
<1>2. ASSUME NEW I \in SUBSET (1 .. Len(list)), I # {}
      PROVE  list[Min(I)] \in ToSet(list) /\ Min(I) # 0
  <2>1. Min(I) \in 1 .. Len(list)
    BY <1>1, <1>2, FirstPlace
  <2> QED
    BY <2>1, InList
<1>3. LayerAt(list, over) \in ToSet(list) \cup {NULL}
  <2> DEFINE I == {i \in 1 .. Len(list) : list[i] \in over}
  <2>1. LayerAt(list, over) = LET hit == IF I # {} THEN Min(I) ELSE 0
                              IN  IF hit = 0 THEN NULL ELSE list[hit]
    BY DEF LayerAt, SelectInSeq
  <2> QED
    BY <1>2, <2>1
<1>4. Topmost(s, list, over) \in ToSet(list) \cup {NULL}
  <2> DEFINE I == {i \in 1 .. Len(list) : s.current[list[i]].interactive \/ list[i] \in over}
  <2>1. Topmost(s, list, over) = LET hit == IF I # {} THEN Min(I) ELSE 0
                                 IN  IF hit = 0 THEN NULL ELSE list[hit]
    BY DEF Topmost, SelectInSeq
  <2> QED
    BY <1>2, <2>1
<1> QED
  BY <1>3, <1>4

LEMMA NodeIsListed ==
  ASSUME NEW s \in States, NEW over, NEW node \in NodeAt(s, over)
  PROVE  \/ node \in View \cup {NULL}
         \/ node \in Layer /\ \E k \in Kind : IsListed(s, s.pointer, k, node)
<1> DEFINE at == s.layers[s.pointer]
<1>1. at \in [Kind -> Seq(Layer)]
  BY DEF States
<1>2. at.overlay \in Seq(Layer) /\ at.top \in Seq(Layer) /\ at.bottom \in Seq(Layer)
  BY <1>1 DEF Kind
<1>3. node \in View \cup {Topmost(s, at.overlay, over), Topmost(s, at.top, over),
                         LayerAt(at.bottom, over)}
  BY DEF NodeAt
<1>4. node \in View \cup {NULL} \cup ToSet(at.overlay) \cup ToSet(at.top) \cup ToSet(at.bottom)
  <2> HIDE DEF at
  <2> QED
    BY <1>2, <1>3, FirstOf
<1>5. ASSUME NEW k \in Kind, node \in ToSet(at[k])
      PROVE  node \in Layer /\ IsListed(s, s.pointer, k, node)
  <2>1. at[k] \in Seq(Layer)
    BY <1>1
  <2>2. node \in Layer
    <3> HIDE DEF at
    <3> QED
      BY <1>5, <2>1, InList
  <2> QED
    BY <1>5, <2>2 DEF IsListed
<1>6. "overlay" \in Kind /\ "top" \in Kind /\ "bottom" \in Kind
  BY DEF Kind
<1> QED
  BY <1>4, <1>5, <1>6

(* What hikari_server_cursor_focus does to a state, whatever it finds.      *)
LEMMA CursorFocusFine ==
  ASSUME NEW s, NEW closing, NEW given, Fine(s, closing, given), NEW over,
         NEW t \in CursorFocus(s, over)
  PROVE  /\ Fine(t, closing, given) /\ SameLayers(s, t)
         /\ Running(t) => Running(s)
<1> s \in States /\ OneFocus(s) /\ LayersFine(s, closing, given)
  BY DEF Fine
<1>1. CASE t = s
  BY <1>1 DEF Fine, SameLayers
<1>2. CASE t = Crash(s, "freed surface")
  <2>1. "freed surface" \in Fault \ {"assert"}
    BY DEF Fault
  <2>2. Fine(t, closing, given) /\ SameLayers(s, t)
    BY <1>2, <2>1, CrashFine
  <2>3. ~Running(t)
    BY <1>2 DEF Running, Crash, States
  <2> QED
    BY <2>2, <2>3
<1>3. ASSUME s.mode = "normal", Running(s), ~ScanFails(s)
      PROVE  t \in States /\ OneFocus(t) /\ SameLayers(s, t)
  <2>1. PICK node \in NodeAt(s, over) :
          t \in IF node \in Layer THEN {FocusLayer(s, node)}
                ELSE IF node \in View
                  THEN {IF node = s.focus_view[s.workspace] THEN s
                        ELSE FocusView(s, s.pointer, node)}
                ELSE IF s.workspace = s.pointer THEN {s}
                ELSE {FocusView(s, s.pointer, v) : v \in FirstView(s, s.pointer)}
    BY <1>3 DEF CursorFocus
  <2>2. s.pointer \in Output
    BY DEF States
  <2>3. CASE node \in Layer
    <3>1. node \notin s.loose
      BY <2>2, <2>3, NodeIsListed, NullIsNothing, LayersAreNoViews DEF LayersFine, Listed
    <3> QED
      BY <1>3, <2>1, <2>3, <3>1, FocusLayerFine
  <2>4. CASE node \notin Layer /\ node \in View
    BY <1>3, <2>1, <2>2, <2>4, FocusViewFine DEF SameLayers
  <2>5. CASE node \notin Layer /\ node \notin View
    <3>1. t = s \/ \E v \in FirstView(s, s.pointer) : t = FocusView(s, s.pointer, v)
      BY <2>1, <2>5
    <3>2. FirstView(s, s.pointer) \subseteq View \cup {NULL}
      BY <2>2 DEF FirstView, States
    <3> QED
      BY <1>3, <2>2, <3>1, <3>2, FocusViewFine DEF SameLayers
  <2> QED
    BY <2>3, <2>4, <2>5
<1>4. CASE s.mode = "normal" /\ Running(s) /\ ~ScanFails(s)
  BY <1>3, <1>4, SameLayersFine DEF Fine
<1> QED
  BY <1>1, <1>2, <1>4 DEF CursorFocus

-----------------------------------------------------------------------------
(* The lists and the room                                                  *)

LEMMA UnlistedLists ==
  ASSUME NEW s \in States, NEW l \in Layer,
         \A o \in Output, k \in Kind : IsInjective(s.layers[o][k])
  PROVE  /\ Unlisted(s, l) \in States
         /\ \A o \in Output, k \in Kind :
              /\ IsInjective(Unlisted(s, l).layers[o][k])
              /\ \A m \in Layer :
                   IsListed(Unlisted(s, l), o, k, m) <=> m # l /\ IsListed(s, o, k, m)
<1> DEFINE t == Unlisted(s, l)
<1>1. ASSUME NEW o \in Output, NEW k \in Kind
      PROVE  /\ s.layers[o][k] \in Seq(Layer)
             /\ t.layers[o][k] = RemoveFirst(s.layers[o][k], l)
  BY <1>1 DEF Unlisted, States
<1>2. ASSUME NEW o \in Output, NEW k \in Kind
      PROVE  /\ RemoveFirst(s.layers[o][k], l) \in Seq(Layer)
             /\ IsInjective(t.layers[o][k])
             /\ ToSet(t.layers[o][k]) = ToSet(s.layers[o][k]) \ {l}
  <2> HIDE DEF t
  <2> QED
    BY <1>1, RemoveFirstIsList
<1>3. t \in States
  <2>1. [o \in Output |-> [k \in Kind |-> RemoveFirst(s.layers[o][k], l)]]
          \in [Output -> [Kind -> Seq(Layer)]]
    BY <1>2
  <2> QED
    BY <2>1 DEF Unlisted, States
<1> QED
  BY <1>2, <1>3 DEF IsListed

LEMMA InsertedLists ==
  ASSUME NEW s \in States, NEW o \in Output, NEW k \in Kind, NEW l \in Layer,
         \A p \in Output, j \in Kind : IsInjective(s.layers[p][j]),
         ~IsListed(s, o, k, l)
  PROVE  /\ Inserted(s, o, k, l) \in States
         /\ \A p \in Output, j \in Kind :
              /\ IsInjective(Inserted(s, o, k, l).layers[p][j])
              /\ \A m \in Layer :
                   IsListed(Inserted(s, o, k, l), p, j, m)
                     <=> IsListed(s, p, j, m) \/ <<p, j, m>> = <<o, k, l>>
<1> DEFINE t    == Inserted(s, o, k, l)
           list == s.layers[o][k]
<1>1. list \in Seq(Layer) /\ IsInjective(list) /\ l \notin ToSet(list)
  BY DEF States, IsListed
<1>2. /\ <<l>> \o list \in Seq(Layer)
      /\ ToSet(<<l>> \o list) = ToSet(list) \cup {l}
      /\ IsInjective(<<l>> \o list)
  BY <1>1, Prepended
<1>3. ASSUME NEW p \in Output, NEW j \in Kind
      PROVE  t.layers[p][j] = IF p = o /\ j = k THEN <<l>> \o list ELSE s.layers[p][j]
  BY <1>3 DEF Inserted, States
<1>4. t \in States
  BY <1>2 DEF Inserted, States
<1> HIDE DEF t
<1>5. ASSUME NEW p \in Output, NEW j \in Kind
      PROVE  /\ IsInjective(t.layers[p][j])
             /\ \A m \in Layer : IsListed(t, p, j, m)
                    <=> IsListed(s, p, j, m) \/ <<p, j, m>> = <<o, k, l>>
  <2>1. CASE p = o /\ j = k
    BY <1>2, <1>3, <2>1 DEF IsListed
  <2>2. CASE ~(p = o /\ j = k)
    BY <1>3, <2>2 DEF IsListed
  <2> QED
    BY <2>1, <2>2
<1> QED
  BY <1>4, <1>5 DEF t

LEMMA RoomIsCalculated ==
  ASSUME NEW s \in States, NEW o \in Output
  PROVE  /\ CalculateExclusive(s, o) \in States
         /\ \A p \in Output \ {o} : CalculateExclusive(s, o).usable_area[p] = s.usable_area[p]
         /\ \A l \in CalculateExclusive(s, o).usable_area[o] :
              l \in Layer /\ \E k \in Kind : IsListed(s, o, k, l)
BY DEF CalculateExclusive, States, Kind

-----------------------------------------------------------------------------
(* The handlers of a layer                                                 *)

LEMMA UnmapFine ==
  ASSUME NEW s, NEW closing, NEW given, Fine(s, closing, given),
         NEW l \in Layer, s.life[l] = "mapped", NEW over, NEW t \in UnmapLayer(s, l, over)
  PROVE  /\ Fine(t, closing, given)
         /\ t.layer_output = s.layer_output
         /\ \A p \in Output, k \in Kind, m \in Layer :
              IsListed(t, p, k, m) => IsListed(s, p, k, m)
         /\ Running(t) => Running(s) /\ t.life = [s.life EXCEPT ![l] = "unmapped"]
<1> DEFINE o    == s.layer_output[l]
           u    == [s EXCEPT !.life[l] = "unmapped", !.loose = @ \cup {l}]
           gone == Unlisted(u, l)
           room == CalculateExclusive(gone, o)
           left == IF room.focus_layer[o] # l THEN room
                   ELSE [room EXCEPT !.focus_layer[o] = NULL, !.keyboard = NULL]
<1> s \in States /\ OneFocus(s) /\ LayersFine(s, closing, given)
  BY DEF Fine
<1>1. CASE o = NULL
  <2>1. t = Crash(s, "freed output") /\ "freed output" \in Fault \ {"assert"}
    BY <1>1 DEF UnmapLayer, Fault
  <2>2. ~Running(t)
    BY <2>1 DEF Running, Crash, States
  <2> QED
    BY <2>1, <2>2, CrashFine DEF SameLayers, IsListed
<1>2. CASE o # NULL
  <2>1. t \in CursorFocus(left, over)
    BY <1>2 DEF UnmapLayer
  <2>2. o \in Output
    BY <1>2 DEF States
  <2>3. u \in States /\ u.layers = s.layers
    BY DEF States, Life
  <2>4. \A p \in Output, k \in Kind : IsInjective(u.layers[p][k])
    BY <2>3 DEF LayersFine, Listed
  <2>5. /\ gone \in States
        /\ \A p \in Output, k \in Kind :
             /\ IsInjective(gone.layers[p][k])
             /\ \A m \in Layer : IsListed(gone, p, k, m) <=> m # l /\ IsListed(s, p, k, m)
    <3>1. \A p \in Output, k \in Kind, m \in Layer : IsListed(u, p, k, m) <=> IsListed(s, p, k, m)
      BY <2>3 DEF IsListed
    <3> HIDE DEF u
    <3> QED
      BY <2>3, <2>4, <3>1, UnlistedLists
  <2>6. /\ gone.life = [s.life EXCEPT ![l] = "unmapped"] /\ gone.loose = s.loose \cup {l}
        /\ gone.outputs = s.outputs /\ gone.usable_area = s.usable_area
        /\ gone.current = s.current /\ gone.layer_kind = s.layer_kind
        /\ gone.layer_output = s.layer_output /\ gone.fault = s.fault
        /\ gone.workspace = s.workspace /\ gone.mode = s.mode /\ gone.keyboard = s.keyboard
        /\ gone.focus_view = s.focus_view /\ gone.focus_layer = s.focus_layer
    BY DEF Unlisted, States
  <2> HIDE DEF gone
  <2>7. /\ room \in States
        /\ \A p \in Output \ {o} : room.usable_area[p] = s.usable_area[p]
        /\ \A m \in room.usable_area[o] : m \in Layer /\ \E k \in Kind : IsListed(gone, o, k, m)
    BY <2>2, <2>5, <2>6, RoomIsCalculated
  <2>8. /\ room.life = gone.life /\ room.loose = gone.loose /\ room.layers = gone.layers
        /\ room.outputs = gone.outputs /\ room.current = gone.current
        /\ room.layer_kind = gone.layer_kind
        /\ room.layer_output = gone.layer_output /\ room.fault = gone.fault
        /\ room.workspace = gone.workspace /\ room.mode = gone.mode
        /\ room.keyboard = gone.keyboard
        /\ room.focus_view = gone.focus_view /\ room.focus_layer = gone.focus_layer
    BY <2>5 DEF CalculateExclusive, States
  <2> HIDE DEF room
  <2>9. SameLayers(room, left) /\ left \in States /\ left.fault = s.fault
    BY <2>2, <2>6, <2>7, <2>8 DEF SameLayers, States
  <2>10. LayersFine(room, closing, given)
    <3>1. Rooms(room)
      <4> SUFFICES ASSUME NEW p \in Output, NEW m \in room.usable_area[p]
                   PROVE  /\ m \notin room.loose
                          /\ room.layer_output[m] = p \/ room.life[m] \in {"closed", "dead"}
        BY DEF Rooms
      <4>1. CASE p = o
        <5>1. PICK k \in Kind : m \in Layer /\ m # l /\ IsListed(s, o, k, m)
          BY <2>2, <2>5, <2>7, <4>1
        <5>2. m \notin s.loose /\ (s.layer_output[m] = o \/ s.life[m] = "closed")
          BY <2>2, <5>1 DEF LayersFine, Listed
        <5>3. s.life \in [Layer -> Life]
          BY DEF States
        <5> QED
          BY <2>6, <2>8, <4>1, <5>1, <5>2, <5>3
      <4>2. CASE p # o
        <5>1. m \in s.usable_area[p] /\ m \in Layer
          BY <2>7, <4>2 DEF States
        <5>2. m \notin s.loose /\ (s.layer_output[m] = p \/ s.life[m] \in {"closed", "dead"})
          BY <5>1 DEF LayersFine, Rooms
        <5>3. m # l
          BY <4>2, <5>2
        <5>4. s.life \in [Layer -> Life]
          BY DEF States
        <5> QED
          BY <2>6, <2>8, <5>1, <5>2, <5>3, <5>4
      <4> QED
        BY <4>1, <4>2
    <3>2. Listed(room, closing)
      BY <2>5, <2>6, <2>8 DEF LayersFine, Listed, IsListed, States
    <3>3. Known(room)
      <4>1. \A p \in Output, k \in Kind, m \in Layer :
              IsListed(room, p, k, m) <=> m # l /\ IsListed(s, p, k, m)
        BY <2>5, <2>8 DEF IsListed
      <4>2. /\ s.life \in [Layer -> Life]
            /\ \A m \in Layer : /\ s.layer_output[m] \in Output \cup {NULL}
                                /\ s.layer_kind[m] \in Kind \cup {NULL}
        BY DEF States
      <4>3. ASSUME NEW m \in Layer, m # l, s.life[m] \in {"new", "initialized", "mapped"},
                   m \notin s.loose
            PROVE  /\ s.layer_output[m] # NULL /\ s.layer_kind[m] # NULL
                   /\ IsListed(room, s.layer_output[m], s.layer_kind[m], m)
        BY <4>1, <4>2, <4>3 DEF LayersFine, Known
      <4> QED
        BY <2>6, <2>8, <4>2, <4>3 DEF LayersFine, Known
    <3>4. Kinds(room, given)
      BY <2>6, <2>8 DEF LayersFine, Kinds, States
    <3> QED
      BY <3>1, <3>2, <3>3, <3>4 DEF LayersFine
  <2>11. OneFocus(left)
    <3>1. /\ left.workspace = s.workspace /\ left.mode = s.mode /\ left.fault = s.fault
          /\ left.focus_view = s.focus_view /\ left.loose = s.loose \cup {l}
          /\ left.layer_output = s.layer_output
          /\ left.focus_layer = IF s.focus_layer[o] # l THEN s.focus_layer
                                ELSE [s.focus_layer EXCEPT ![o] = NULL]
          /\ left.keyboard = IF s.focus_layer[o] # l THEN s.keyboard ELSE NULL
      BY <2>6, <2>7, <2>8 DEF States
    <3>2. s.focus_layer \in [Output -> Layer \cup {NULL}]
      BY DEF States
    <3> HIDE DEF left
    <3>3. \A w \in Output : left.focus_layer[w] \in {s.focus_layer[w], NULL}
      BY <3>1, <3>2
    <3>4. ASSUME NEW w \in Output, NEW m \in left.loose, left.focus_layer[w] = m
          PROVE  left.layer_output[m] # w
      <4>1. m \in Layer
        BY <3>1 DEF States
      <4>2. CASE m = l
        BY <3>1, <3>2, <3>4, <4>1, <4>2, NullIsNothing
      <4>3. CASE m # l
        BY <3>1, <3>3, <3>4, <4>1, <4>3, NullIsNothing DEF OneFocus
      <4> QED
        BY <4>2, <4>3
    <3>5. left.keyboard # NULL =>
            /\ left.mode = "normal"
            /\ left.keyboard \in {left.focus_view[left.workspace], left.focus_layer[left.workspace]}
      <4>1. CASE s.focus_layer[o] # l
        BY <3>1, <4>1 DEF OneFocus
      <4>2. CASE s.focus_layer[o] = l
        BY <3>1, <4>2
      <4> QED
        BY <4>1, <4>2
    <3> QED
      BY <3>1, <3>3, <3>4, <3>5 DEF OneFocus
  <2>12. Fine(left, closing, given) /\ left.life = gone.life /\ left.layer_output = s.layer_output
    <3>1. LayersFine(left, closing, given)
      BY <2>9, <2>10, SameLayersFine
    <3>2. left.life = gone.life /\ left.layer_output = s.layer_output
      BY <2>6, <2>8, <2>9 DEF SameLayers
    <3> QED
      BY <2>9, <2>11, <3>1, <3>2 DEF Fine
  <2> HIDE DEF left
  <2>13. Fine(t, closing, given) /\ SameLayers(left, t) /\ (Running(t) => Running(left))
    BY <2>1, <2>12, CursorFocusFine
  <2>14. \A p \in Output, k \in Kind, m \in Layer : IsListed(t, p, k, m) => IsListed(s, p, k, m)
    BY <2>5, <2>8, <2>9, <2>13 DEF SameLayers, IsListed
  <2> QED
    BY <2>6, <2>9, <2>12, <2>13, <2>14 DEF SameLayers, Running
<1> QED
  BY <1>1, <1>2

LEMMA CommitFine ==
  ASSUME NEW s, NEW closing, NEW l \in Layer, Fine(s, closing, {l}),
         s.life[l] = "mapped", s.current[l] \in State,
         NEW over, NEW moved \in BOOLEAN, NEW t \in CommitLayer(s, l, over, moved)
  PROVE  Fine(t, closing, {l}) /\ (Running(t) => Fine(t, closing, {}))
<1> DEFINE o      == s.layer_output[l]
           kind   == s.current[l].kind
           room   == CalculateExclusive(s, o)
           out    == Unlisted(room, l)
           in     == Inserted(out, o, kind, l)
           listed == [in EXCEPT !.layer_kind[l] = kind, !.loose = @ \ {l}]
<1> s \in States /\ OneFocus(s) /\ LayersFine(s, closing, {l})
  BY DEF Fine
<1>1. CASE ~Running(s)
  BY <1>1 DEF CommitLayer
<1>2. CASE Running(s) /\ o = NULL
  <2>1. t = Crash(s, "freed output") /\ "freed output" \in Fault \ {"assert"}
    BY <1>2 DEF CommitLayer, Fault
  <2>2. ~Running(t)
    BY <2>1 DEF Running, Crash, States
  <2> QED
    BY <2>1, <2>2, CrashFine
<1>3. CASE Running(s) /\ o # NULL
  <2>1. o \in Output /\ o \in s.outputs /\ kind \in Kind
    BY <1>3, StatesAreStates DEF States, LayersFine, Known
  <2>2. /\ room \in States
        /\ \A p \in Output \ {o} : room.usable_area[p] = s.usable_area[p]
        /\ \A m \in room.usable_area[o] : m \in Layer /\ \E k \in Kind : IsListed(s, o, k, m)
    BY <2>1, RoomIsCalculated
  <2>3. /\ room.life = s.life /\ room.loose = s.loose /\ room.layers = s.layers
        /\ room.outputs = s.outputs /\ room.current = s.current /\ room.layer_kind = s.layer_kind
        /\ room.layer_output = s.layer_output /\ room.fault = s.fault
        /\ room.workspace = s.workspace /\ room.mode = s.mode /\ room.keyboard = s.keyboard
        /\ room.focus_view = s.focus_view /\ room.focus_layer = s.focus_layer
    BY DEF CalculateExclusive, States
  <2>4. CASE s.layer_kind[l] = kind
    <3> HIDE DEF room
    <3>1. LayersFine(room, closing, {})
      <4>1. Rooms(room)
        <5>1. ASSUME NEW p \in Output, NEW m \in room.usable_area[p]
              PROVE  m \notin s.loose /\ (s.layer_output[m] = p \/ s.life[m] \in {"closed", "dead"})
          BY <2>1, <2>2, <5>1 DEF LayersFine, Rooms, Listed
        <5> QED
          BY <2>3, <5>1 DEF Rooms
      <4>2. Listed(room, closing)
        BY <2>3 DEF LayersFine, Listed, IsListed
      <4>3. Known(room)
        BY <2>3 DEF LayersFine, Known, IsListed
      <4>4. Kinds(room, {})
        BY <2>3, <2>4 DEF LayersFine, Kinds
      <4> QED
        BY <4>1, <4>2, <4>3, <4>4 DEF LayersFine
    <3>2. OneFocus(room)
      BY <2>3 DEF OneFocus
    <3>3. Fine(room, closing, {})
      BY <2>2, <3>1, <3>2 DEF Fine
    <3>4. t \in CursorFocus(room, over) \/ t = room
      BY <1>3, <2>4 DEF CommitLayer, room
    <3>5. Fine(t, closing, {})
      BY <3>3, <3>4, CursorFocusFine
    <3> QED
      BY <3>5 DEF Fine, LayersFine, Kinds
  <2>5. CASE s.layer_kind[l] # kind
    <3> HIDE DEF room
    <3>1. \A p \in Output, k \in Kind : IsInjective(room.layers[p][k])
      BY <2>3 DEF LayersFine, Listed
    <3>2. /\ out \in States
          /\ \A p \in Output, k \in Kind :
               /\ IsInjective(out.layers[p][k])
               /\ \A m \in Layer : IsListed(out, p, k, m) <=> m # l /\ IsListed(room, p, k, m)
      BY <2>2, <3>1, UnlistedLists
    <3>3. /\ out.life = s.life /\ out.loose = s.loose
          /\ out.outputs = s.outputs /\ out.current = s.current /\ out.layer_kind = s.layer_kind
          /\ out.usable_area = room.usable_area
          /\ out.layer_output = s.layer_output /\ out.fault = s.fault
          /\ out.workspace = s.workspace /\ out.mode = s.mode /\ out.keyboard = s.keyboard
          /\ out.focus_view = s.focus_view /\ out.focus_layer = s.focus_layer
      BY <2>2, <2>3 DEF Unlisted, States
    <3> HIDE DEF out
    <3>4. /\ in \in States
          /\ \A p \in Output, k \in Kind :
               /\ IsInjective(in.layers[p][k])
               /\ \A m \in Layer : IsListed(in, p, k, m)
                                     <=> IsListed(out, p, k, m) \/ <<p, k, m>> = <<o, kind, l>>
      BY <2>1, <3>2, InsertedLists
    <3>5. /\ listed.layer_kind = [s.layer_kind EXCEPT ![l] = kind]
          /\ listed.loose = s.loose \ {l} /\ listed.layers = in.layers
          /\ listed.life = s.life /\ listed.usable_area = room.usable_area
          /\ listed.outputs = s.outputs /\ listed.current = s.current
          /\ listed.layer_output = s.layer_output /\ listed.fault = s.fault
          /\ listed.workspace = s.workspace /\ listed.mode = s.mode /\ listed.keyboard = s.keyboard
          /\ listed.focus_view = s.focus_view /\ listed.focus_layer = s.focus_layer
          /\ listed \in States
      BY <2>1, <3>2, <3>3, <3>4 DEF Inserted, States
    <3> HIDE DEF in, listed
    <3>6. \A p \in Output, k \in Kind, m \in Layer :
            IsListed(listed, p, k, m)
              <=> (m # l /\ IsListed(s, p, k, m)) \/ <<p, k, m>> = <<o, kind, l>>
      <4>1. \A p \in Output, k \in Kind, m \in Layer :
              /\ IsListed(listed, p, k, m) <=> IsListed(in, p, k, m)
              /\ IsListed(room, p, k, m) <=> IsListed(s, p, k, m)
        BY <2>3, <3>5 DEF IsListed
      <4> QED
        BY <3>2, <3>4, <4>1
    <3>7. LayersFine(listed, closing, {})
      <4>0. s.layer_kind \in [Layer -> Kind \cup {NULL}] /\
                \A p \in Output : room.usable_area[p] \subseteq Layer
        BY <2>2 DEF States
      <4>1. Rooms(listed)
        BY <2>1, <2>2, <3>5, <4>0 DEF LayersFine, Rooms, Listed
      <4>2. Listed(listed, closing)
        BY <2>1, <3>4, <3>5, <3>6, <4>0 DEF LayersFine, Listed
      <4>3. Known(listed)
        <5>1. \A m \in Layer : s.layer_output[m] \in Output \cup {NULL} /\
                  s.layer_kind[m] \in Kind \cup {NULL}
          BY DEF States
        <5>2. \A m \in Layer \ {l} :
                s.life[m] \in {"new", "initialized", "mapped"} /\ m \notin s.loose =>
                 s.layer_output[m] \in Output /\ s.layer_kind[m] \in Kind /\
                     IsListed(listed, s.layer_output[m], s.layer_kind[m], m)
          <6> SUFFICES ASSUME NEW m \in Layer, m # l,
                              s.life[m] \in {"new", "initialized", "mapped"}, m \notin s.loose
                       PROVE  s.layer_output[m] \in Output /\ s.layer_kind[m] \in Kind /\
                                  IsListed(listed, s.layer_output[m], s.layer_kind[m], m)
            OBVIOUS
          <6>1. s.layer_output[m] \in Output /\ IsListed(s, s.layer_output[m], s.layer_kind[m], m)
            BY <5>1 DEF LayersFine, Known
          <6>2. s.layer_kind[m] \in Kind
            BY <5>1 DEF LayersFine, Known
          <6> QED
            BY <3>6, <6>1, <6>2
        <5> SUFFICES ASSUME NEW m \in Layer
                     PROVE  /\ s.layer_output[m] \in s.outputs \cup {NULL}
                            /\ s.life[m] = "none" => s.layer_output[m] = NULL
                            /\ s.life[m] = "none" => m \notin s.loose \ {l}
                            /\ s.life[m] = "unmapped" => m \in s.loose \ {l}
                            /\ s.life[m] \in {"new", "initialized", "mapped"} /\
                                   m \notin s.loose \ {l} =>
                                 /\ s.layer_output[m] # NULL /\ listed.layer_kind[m] # NULL
                                 /\ IsListed(listed, s.layer_output[m], listed.layer_kind[m], m)
          BY <3>5 DEF Known
        <5>3. CASE m = l
          <6>1. listed.layer_kind[l] = kind /\ kind # NULL
            BY <3>5, <4>0, <2>1, NullIsNothing
          <6> HIDE DEF o, kind
          <6> QED
            BY <1>3, <2>1, <3>6, <5>3, <6>1 DEF o
        <5>4. CASE m # l
          <6>1. listed.layer_kind[m] = s.layer_kind[m]
            BY <3>5, <4>0, <5>4
          <6> QED
            BY <5>2, <5>4, <6>1, NullIsNothing DEF LayersFine, Known
        <5> QED
          BY <5>3, <5>4
      <4>4. Kinds(listed, {})
        BY <3>5, <4>0 DEF LayersFine, Kinds
      <4> QED
        BY <4>1, <4>2, <4>3, <4>4 DEF LayersFine
    <3>8. OneFocus(listed)
      BY <3>5 DEF OneFocus
    <3>9. Fine(listed, closing, {})
      BY <3>5, <3>7, <3>8 DEF Fine
    <3>10. t \in CursorFocus(listed, over)
      BY <1>3, <2>5 DEF CommitLayer, listed, in, out, room
    <3>11. Fine(t, closing, {})
      BY <3>9, <3>10, CursorFocusFine
    <3> QED
      BY <3>11 DEF Fine, LayersFine, Kinds
  <2> QED
    BY <2>4, <2>5
<1> QED
  BY <1>1, <1>2, <1>3

LEMMA EndRoleFine ==
  ASSUME NEW s, NEW closing, NEW given, Fine(s, closing, given),
         NEW l \in Layer, NEW over, NEW t \in EndRole(s, l, over)
  PROVE  /\ Fine(t, closing, given)
         /\ t.layer_output = s.layer_output
         /\ \A p \in Output, k \in Kind, m \in Layer :
              IsListed(t, p, k, m) => IsListed(s, p, k, m)
         /\ Running(t) => Running(s) /\ t.life = [s.life EXCEPT ![l] = "closed"]
<1> s \in States /\ OneFocus(s) /\ LayersFine(s, closing, given)
  BY DEF Fine
<1>1. PICK u : /\ u = s \/ (s.life[l] = "mapped" /\ u \in UnmapLayer(s, l, over))
               /\ t = IF Running(u) THEN [u EXCEPT !.life[l] = "closed"] ELSE u
  BY DEF EndRole
<1>2. /\ Fine(u, closing, given) /\ u.layer_output = s.layer_output
      /\ \A p \in Output, k \in Kind, m \in Layer : IsListed(u, p, k, m) => IsListed(s, p, k, m)
      /\ Running(u) => Running(s) /\ (u.life = s.life \/ u.life = [s.life EXCEPT ![l] = "unmapped"])
  BY <1>1, UnmapFine
<1>3. CASE ~Running(u)
  BY <1>1, <1>2, <1>3
<1>4. CASE Running(u)
  <2> DEFINE v == [u EXCEPT !.life[l] = "closed"]
  <2>0. s.life \in [Layer -> Life] /\ u.life \in [Layer -> Life]
    BY <1>2 DEF Fine, States
  <2>1. v.life = [s.life EXCEPT ![l] = "closed"]
    BY <1>2, <1>4, <2>0 DEF Fine, States
  <2>2. /\ v \in States
        /\ v.life = [u.life EXCEPT ![l] = "closed"] /\ v.loose = u.loose /\ v.layers = u.layers
        /\ v.outputs = u.outputs /\ v.usable_area = u.usable_area /\ v.current = u.current
        /\ v.layer_kind = u.layer_kind
        /\ v.layer_output = u.layer_output /\ v.fault = u.fault
        /\ v.workspace = u.workspace /\ v.mode = u.mode /\ v.keyboard = u.keyboard
        /\ v.focus_view = u.focus_view /\ v.focus_layer = u.focus_layer
    BY <1>2 DEF Fine, States, Life
  <2>3. t = v
    BY <1>1, <1>4
  <2> HIDE DEF v
  <2>4. OneFocus(v)
    BY <1>2, <2>2 DEF Fine, OneFocus
  <2>5. \A m \in Layer : v.life[m] = IF m = l THEN "closed" ELSE u.life[m]
    BY <2>0, <2>2
  <2>6. u.usable_area \in [Output -> SUBSET Layer]
    BY <1>2 DEF Fine, States
  <2>7. LayersFine(v, closing, given)
    <3>1. Rooms(v)
      BY <1>2, <2>2, <2>5, <2>6 DEF Fine, LayersFine, Rooms
    <3>2. Listed(v, closing)
      BY <1>2, <2>2, <2>5 DEF Fine, LayersFine, Listed, IsListed
    <3>3. Known(v)
      BY <1>2, <2>2, <2>5 DEF Fine, LayersFine, Known, IsListed
    <3>4. Kinds(v, given)
      BY <1>2, <2>2, <2>5 DEF Fine, LayersFine, Kinds
    <3> QED
      BY <3>1, <3>2, <3>3, <3>4 DEF LayersFine
  <2>8. \A p \in Output, k \in Kind, m \in Layer : IsListed(v, p, k, m) => IsListed(s, p, k, m)
    BY <1>2, <2>2 DEF IsListed
  <2> QED
    BY <1>2, <1>4, <2>1, <2>2, <2>3, <2>4, <2>7, <2>8 DEF Fine
<1> QED
  BY <1>3, <1>4

(* A layer is closed with its output: the lists of that output are the only *)
(* ones that may have it.                                                   *)
Closes(s, l, t) ==
  /\ \A m \in Layer : t.layer_output[m] \in {s.layer_output[m], NULL}
  /\ \A p \in Output, k \in Kind, m \in Layer : IsListed(t, p, k, m) => IsListed(s, p, k, m)
  /\ Running(t) => Running(s)
  /\ \A m \in Layer : Running(t) /\ (m = l \/ s.life[m] = "closed") => t.life[m] = "closed"

LEMMA CloseFine ==
  ASSUME NEW s, NEW o \in Output, Fine(s, {o}, {}),
         NEW l \in Layer, s.layer_output[l] \in {o, NULL},
         NEW over, NEW t \in Close(s, l, over)
  PROVE  Fine(t, {o}, {}) /\ Closes(s, l, t)
<1> s \in States
  BY DEF Fine
<1>1. CASE ~Running(s)
  BY <1>1 DEF Close, Closes
<1>2. CASE Running(s)
  <2>1. PICK u \in EndRole(s, l, over) :
          t = IF Running(u) THEN [u EXCEPT !.layer_output[l] = NULL] ELSE u
    BY <1>2 DEF Close
  <2>2. /\ Fine(u, {o}, {}) /\ u.layer_output = s.layer_output
        /\ \A p \in Output, k \in Kind, m \in Layer : IsListed(u, p, k, m) => IsListed(s, p, k, m)
        /\ Running(u) => u.life = [s.life EXCEPT ![l] = "closed"]
    BY EndRoleFine
  <2>3. CASE ~Running(u)
    BY <2>1, <2>2, <2>3 DEF Closes
  <2>4. CASE Running(u)
    <3>1. /\ t \in States
          /\ t.life = u.life /\ t.loose = u.loose /\ t.layers = u.layers
          /\ t.outputs = u.outputs /\ t.usable_area = u.usable_area /\ t.current = u.current
          /\ t.layer_kind = u.layer_kind
          /\ t.layer_output = [u.layer_output EXCEPT ![l] = NULL] /\ t.fault = u.fault
          /\ t.workspace = u.workspace /\ t.mode = u.mode /\ t.keyboard = u.keyboard
          /\ t.focus_view = u.focus_view /\ t.focus_layer = u.focus_layer
      BY <2>1, <2>2, <2>4 DEF Fine, States
    <3>2. /\ u.layer_output \in [Layer -> Output \cup {NULL}] /\ u.life \in [Layer -> Life]
          /\ u.usable_area \in [Output -> SUBSET Layer] /\ u.loose \subseteq Layer
          /\ s.life \in [Layer -> Life]
      BY <2>2 DEF Fine, States
    <3>3. \A m \in Layer : t.layer_output[m] = IF m = l THEN NULL ELSE u.layer_output[m]
      BY <3>1, <3>2
    <3>4. u.life[l] = "closed" /\ \A m \in Layer : s.life[m] = "closed" => u.life[m] = "closed"
      BY <2>2, <2>4, <3>2
    <3>5. OneFocus(t)
      BY <2>2, <3>1, <3>2, <3>3, NullIsNothing DEF Fine, OneFocus
    <3>6. LayersFine(t, {o}, {})
      <4>1. Rooms(t)
        BY <2>2, <3>1, <3>2, <3>3, <3>4 DEF Fine, LayersFine, Rooms
      <4>2. Listed(t, {o})
        BY <2>2, <3>1, <3>3, <3>4, NullIsNothing DEF Fine, LayersFine, Listed, IsListed
      <4>3. Known(t)
        BY <2>2, <3>1, <3>3, <3>4 DEF Fine, LayersFine, Known, IsListed
      <4>4. Kinds(t, {})
        BY <2>2, <3>1 DEF Fine, LayersFine, Kinds
      <4> QED
        BY <4>1, <4>2, <4>3, <4>4 DEF LayersFine
    <3>7. \A p \in Output, k \in Kind, m \in Layer : IsListed(t, p, k, m) => IsListed(s, p, k, m)
      BY <2>2, <3>1 DEF IsListed
    <3> QED
      BY <1>2, <2>2, <3>1, <3>3, <3>4, <3>5, <3>6, <3>7 DEF Fine, Closes
  <2> QED
    BY <2>3, <2>4
<1> QED
  BY <1>1, <1>2

LEMMA FinishFine ==
  ASSUME NEW s, Fine(s, {}, {}), NEW l \in Layer, Running(s) => s.life[l] = "closed"
  PROVE  Fine(Finish(s, l), {}, {})
<1> DEFINE t == Finish(s, l)
<1> s \in States
  BY DEF Fine
<1>1. CASE ~Running(s)
  BY <1>1 DEF Finish
<1>2. CASE Running(s) /\ s.layer_output[l] = NULL /\ l \notin s.loose
  <2>1. t = Crash(s, "freed output") /\ "freed output" \in Fault \ {"assert"}
    BY <1>2 DEF Finish, Fault
  <2> QED
    BY <2>1, CrashFine
<1>3. CASE Running(s) /\ ~(s.layer_output[l] = NULL /\ l \notin s.loose)
  <2> DEFINE out == Unlisted(s, l)
  <2>1. /\ out \in States
        /\ \A p \in Output, k \in Kind :
             /\ IsInjective(out.layers[p][k])
             /\ \A m \in Layer : IsListed(out, p, k, m) <=> m # l /\ IsListed(s, p, k, m)
    BY UnlistedLists DEF Fine, LayersFine, Listed
  <2>2. /\ out.life = s.life /\ out.loose = s.loose
        /\ out.outputs = s.outputs /\ out.current = s.current /\ out.layer_kind = s.layer_kind
        /\ out.usable_area = s.usable_area
        /\ out.layer_output = s.layer_output /\ out.fault = s.fault
        /\ out.workspace = s.workspace /\ out.mode = s.mode /\ out.keyboard = s.keyboard
        /\ out.focus_view = s.focus_view /\ out.focus_layer = s.focus_layer
    BY DEF Unlisted, States
  <2>3. t = [out EXCEPT !.life[l] = "dead", !.current[l] = NoState,
               !.layer_output[l] = NULL, !.layer_kind[l] = NULL,
               !.keyboard = IF @ = l THEN NULL ELSE @]
    BY <1>3 DEF Finish
  <2> HIDE DEF out, t
  <2>4. /\ t \in States
        /\ t.life = [s.life EXCEPT ![l] = "dead"] /\ t.loose = s.loose /\ t.layers = out.layers
        /\ t.outputs = s.outputs /\ t.usable_area = s.usable_area
        /\ t.current = [s.current EXCEPT ![l] = NoState]
        /\ t.layer_kind = [s.layer_kind EXCEPT ![l] = NULL]
        /\ t.layer_output = [s.layer_output EXCEPT ![l] = NULL] /\ t.fault = s.fault
        /\ t.workspace = s.workspace /\ t.mode = s.mode /\ t.keyboard \in {s.keyboard, NULL}
        /\ t.focus_view = s.focus_view /\ t.focus_layer = s.focus_layer
    BY <2>1, <2>2, <2>3 DEF States, Life
  <2>5. \A m \in Layer :
          /\ t.life[m] = IF m = l THEN "dead" ELSE s.life[m]
          /\ t.current[m] = IF m = l THEN NoState ELSE s.current[m]
          /\ t.layer_kind[m] = IF m = l THEN NULL ELSE s.layer_kind[m]
          /\ t.layer_output[m] = IF m = l THEN NULL ELSE s.layer_output[m]
    BY <2>4 DEF States
  <2>6. s.usable_area \in [Output -> SUBSET Layer] /\ s.loose \subseteq Layer
    BY DEF States
  <2>7. \A p \in Output, k \in Kind, m \in Layer : IsListed(t, p, k, m)
            <=> m # l /\ IsListed(s, p, k, m)
    BY <2>1, <2>4 DEF IsListed
  <2>8. OneFocus(t)
    BY <2>4, <2>5, <2>6, NullIsNothing DEF Fine, OneFocus
  <2>9. LayersFine(t, {}, {})
    <3>1. Rooms(t)
      BY <2>4, <2>5, <2>6 DEF Fine, LayersFine, Rooms
    <3>2. Listed(t, {})
      BY <2>1, <2>4, <2>5, <2>7 DEF Fine, LayersFine, Listed
    <3>3. Known(t)
      <4>1. \A m \in Layer : s.layer_output[m] \in Output \cup {NULL} /\
                s.layer_kind[m] \in Kind \cup {NULL}
        BY DEF States
      <4> QED
        BY <2>4, <2>5, <2>7, <4>1 DEF Fine, LayersFine, Known
    <3>4. Kinds(t, {})
      BY <2>4, <2>5 DEF Fine, LayersFine, Kinds
    <3> QED
      BY <3>1, <3>2, <3>3, <3>4 DEF LayersFine
  <2> QED
    BY <2>4, <2>8, <2>9 DEF Fine, t
<1> QED
  BY <1>1, <1>2, <1>3

-----------------------------------------------------------------------------
(* An output that goes                                                     *)

LEMMA ListedOnOutput ==
  ASSUME NEW s \in States, NEW o \in Output
  PROVE  /\ ListedOn(s, o) \in Seq(Layer)
         /\ \A l \in Layer : l \in ToSet(ListedOn(s, o)) <=> \E k \in Kind : IsListed(s, o, k, l)
<1> DEFINE a == s.layers[o].overlay
           b == s.layers[o].top
           c == s.layers[o].bottom
<1>1. a \in Seq(Layer) /\ b \in Seq(Layer) /\ c \in Seq(Layer)
  BY DEF States, Kind
<1>2. \A l \in Layer : (\E k \in Kind : IsListed(s, o, k, l))
          <=> l \in ToSet(a) \cup ToSet(b) \cup ToSet(c)
  BY DEF Kind, IsListed
<1>3. ListedOn(s, o) = (a \o b) \o c
  BY <1>1 DEF ListedOn
<1> HIDE DEF a, b, c
<1>4. (a \o b) \in Seq(Layer) /\ ToSet(a \o b) = ToSet(a) \cup ToSet(b)
  BY <1>1, Appended
<1>5. (a \o b) \o c \in Seq(Layer) /\ ToSet((a \o b) \o c) = ToSet(a \o b) \cup ToSet(c)
  <2> DEFINE ab == a \o b
  <2>1. ab \in Seq(Layer)
    BY <1>4
  <2> HIDE DEF ab
  <2>2. ab \o c \in Seq(Layer) /\ ToSet(ab \o c) = ToSet(ab) \cup ToSet(c)
    BY <1>1, <2>1, Appended
  <2> QED
    BY <2>2 DEF ab
<1> QED
  BY <1>2, <1>3, <1>4, <1>5

(* When close_layers is through, each layer that it found is closed.        *)
LEMMA CloseLayersFine ==
  ASSUME NEW s, Fine(s, {}, {}), NEW o \in Output,
         NEW over, NEW t \in CloseLayers(s, o, over)
  PROVE  /\ Fine(t, {o}, {})
         /\ Running(t) => \A k \in Kind, l \in Layer : IsListed(t, o, k, l) => t.life[l] = "closed"
<1> DEFINE all == ListedOn(s, o)
           S == DOMAIN all
           W == {u \in States : /\ Fine(u, {o}, {})
                                /\ \A l \in ToSet(all) : u.layer_output[l] \in {o, NULL}
                                /\ \A k \in Kind, l \in Layer : IsListed(u, o, k, l) =>
                                       IsListed(s, o, k, l)}
           C == [u \in SUBSET S |-> Max(u)]
           Closed(u) == {v \in W : Running(v) => \A i \in u : v.life[all[i]] = "closed"}
           V == [u \in SUBSET S |-> SUBSET Closed(u)]
           After(ts, l) == UNION {Close(u, l, over) : u \in ts}
           step == [p \in S \X SUBSET W |-> After(p[2], all[p[1]])]
           iter == CHOOSE iter : iter = [u \in SUBSET S |->
                     IF u = {} THEN {s} ELSE After(iter[u \ {Max(u)}], all[Max(u)])]
<1> s \in States
  BY DEF Fine
<1>1. all \in Seq(Layer) /\ S = 1 .. Len(all) /\ Len(all) \in Nat /\ IsFiniteSet(S)
  <2>1. all \in Seq(Layer)
    BY ListedOnOutput
  <2> HIDE DEF all
  <2> QED
    BY <2>1, PlacesAreFinite
<1>2. \A i \in S : all[i] \in Layer /\ all[i] \in ToSet(all)
  <2> HIDE DEF all
  <2> QED
    BY <1>1, InList
<1>3. \A l \in Layer : l \in ToSet(all) <=> \E k \in Kind : IsListed(s, o, k, l)
  BY ListedOnOutput
<1>4. CloseLayers(s, o, over) = iter[S]
  BY DEF CloseLayers, FoldLeft, MapThenFoldSet
<1>5. \A u \in SUBSET S : u # {} => C[u] \in u /\ C[u] = Max(u)
  <2> HIDE DEF all, S
  <2> QED
    BY <1>1, LastPlace
<1> HIDE DEF all, S
<1>6. {s} \in SUBSET W
  <2>1. \A l \in ToSet(all) : l \in Layer
    BY <1>1, InList
  <2>2. \A l \in ToSet(all) : s.layer_output[l] = o
    BY <1>3, <2>1 DEF Fine, LayersFine, Listed
  <2>3. LayersFine(s, {o}, {})
    BY DEF Fine, LayersFine, Listed
  <2> QED
    BY <2>2, <2>3 DEF Fine
<1>7. ASSUME NEW i \in S, NEW u \in W, NEW v \in Close(u, all[i], over)
      PROVE  /\ v \in W
             /\ Running(v) => /\ Running(u) /\ v.life[all[i]] = "closed"
                              /\ \A l \in Layer : u.life[l] = "closed" => v.life[l] = "closed"
  <2> DEFINE it == all[i]
  <2>1. it \in Layer /\ u.layer_output[it] \in {o, NULL} /\ v \in Close(u, it, over) /\
            Fine(u, {o}, {})
    BY <1>2
  <2>2. Fine(v, {o}, {}) /\ Closes(u, it, v)
    <3> HIDE DEF it, W
    <3> QED
      BY <2>1, CloseFine
  <2>3. \A l \in ToSet(all) : l \in Layer
    BY <1>1, InList
  <2> QED
    BY <2>1, <2>2, <2>3 DEF Fine, Closes
<1>8. ASSUME NEW i \in S, NEW ts \in SUBSET W PROVE After(ts, all[i]) \in SUBSET W
  <2> HIDE DEF W
  <2>1. ASSUME NEW u \in ts PROVE Close(u, all[i], over) \subseteq W
    BY <1>7
  <2> QED
    BY <2>1
<1>9. step \in [S \X SUBSET W -> SUBSET W]
  <2> HIDE DEF After, W
  <2> QED
    BY <1>8
<1>10. PICK g : IsRecursion(g, S, SUBSET W, {s}, C, step)
  <2> HIDE DEF step, W, C
  <2> QED
    BY <1>1, <1>5, <1>6, <1>9, RecursionExists
<1>11. iter = [u \in SUBSET S |-> IF u = {} THEN {s} ELSE After(iter[u \ {Max(u)}], all[Max(u)])]
  <2> DEFINE Is(f) == f = [u \in SUBSET S |->
                             IF u = {} THEN {s} ELSE After(f[u \ {Max(u)}], all[Max(u)])]
  <2>1. g \in [SUBSET S -> SUBSET W]
    BY <1>10 DEF IsRecursion
  <2>2. ASSUME NEW u \in SUBSET S
        PROVE  g[u] = IF u = {} THEN {s} ELSE After(g[u \ {Max(u)}], all[Max(u)])
    <3>1. g[u] = IF u = {} THEN {s} ELSE step[<<C[u], g[u \ {C[u]}]>>]
      BY <1>10 DEF IsRecursion
    <3>2. ASSUME u # {} PROVE step[<<C[u], g[u \ {C[u]}]>>] = After(g[u \ {Max(u)}], all[Max(u)])
      <4>1. C[u] \in S /\ C[u] = Max(u) /\ g[u \ {C[u]}] \in SUBSET W
        BY <1>5, <2>1, <3>2
      <4> HIDE DEF After, W, C
      <4> QED
        BY <4>1
    <3> QED
      BY <3>1, <3>2
  <2>3. Is(g)
    <3> HIDE DEF After, W
    <3> QED
      BY <2>1, <2>2
  <2> HIDE DEF Is
  <2>4. Is(CHOOSE f : Is(f))
    BY <2>3
  <2> QED
    BY <2>4 DEF Is
<1> HIDE DEF iter
<1>12. iter[{}] \in V[{}]
  <2>1. iter[{}] = {s}
    BY <1>11
  <2> QED
    BY <1>6, <2>1
<1>13. ASSUME NEW u \in SUBSET S, u # {}, iter[u \ {C[u]}] \in V[u \ {C[u]}]
       PROVE  iter[u] \in V[u]
  <2> DEFINE i == Max(u)
             rest == u \ {i}
  <2>1. i \in S /\ i \in u /\ C[u] = i /\ rest \in SUBSET S
    BY <1>5, <1>13
  <2>2. iter[u] = After(iter[rest], all[i])
    BY <1>11, <1>13
  <2>3. iter[rest] \in SUBSET Closed(rest)
    BY <1>13, <2>1
  <2>4. ASSUME NEW v \in iter[u] PROVE v \in Closed(u)
    <3>1. PICK w \in iter[rest] : v \in Close(w, all[i], over)
      BY <2>2
    <3>2. w \in W /\ (Running(w) => \A j \in rest : w.life[all[j]] = "closed")
      BY <2>3
    <3>3. /\ v \in W
          /\ Running(v) => /\ Running(w) /\ v.life[all[i]] = "closed"
                           /\ \A l \in Layer : w.life[l] = "closed" => v.life[l] = "closed"
      <4> HIDE DEF W
      <4> QED
        BY <1>7, <2>1, <3>1, <3>2
    <3> HIDE DEF W
    <3>4. ASSUME Running(v), NEW j \in u PROVE v.life[all[j]] = "closed"
      BY <1>2, <2>1, <3>2, <3>3, <3>4
    <3> QED
      BY <3>3, <3>4
  <2> QED
    BY <2>4
<1>14. iter[S] \in V[S]
  <2> HIDE DEF V, C
  <2> QED
    BY <1>1, <1>5, <1>12, <1>13, RecursionStays
<1>15. t \in Closed(S)
  BY <1>4, <1>14
<1>16. ASSUME Running(t), NEW k \in Kind, NEW l \in Layer, IsListed(t, o, k, l)
       PROVE  t.life[l] = "closed"
  <2>1. l \in ToSet(all)
    BY <1>3, <1>15, <1>16
  <2>2. PICK i \in S : all[i] = l
    BY <1>1, <2>1, InList
  <2> QED
    BY <1>15, <1>16, <2>2
<1> QED
  BY <1>15, <1>16

LEMMA ClearFocusFine ==
  ASSUME NEW s \in States, OneFocus(s), NEW gone \in SUBSET View
  PROVE  /\ ClearFocus(s, gone) \in States /\ OneFocus(ClearFocus(s, gone))
         /\ SameLayers(s, ClearFocus(s, gone))
         /\ ClearFocus(s, gone).mode = s.mode /\ ClearFocus(s, gone).fault = s.fault
<1> DEFINE w    == s.workspace
           left == IF s.focus_view[w] \in gone THEN FocusView(s, w, NULL) ELSE s
           t    == [left EXCEPT !.focus_view =
                      [o \in Output |-> IF @[o] \in gone THEN NULL ELSE @[o]]]
<1>1. w \in Output
  BY DEF States
<1>2. /\ left \in States /\ OneFocus(left) /\ SameLayers(s, left)
      /\ left.mode = s.mode /\ left.fault = s.fault /\ left.workspace = w
      /\ left.focus_view[w] \notin gone
  <2>1. CASE s.focus_view[w] \in gone
    <3>1. FocusView(s, w, NULL) \in States /\ OneFocus(FocusView(s, w, NULL))
          /\ SameLayers(s, FocusView(s, w, NULL))
      BY <1>1, FocusViewFine
    <3>2. /\ FocusView(s, w, NULL).mode = s.mode /\ FocusView(s, w, NULL).fault = s.fault
          /\ FocusView(s, w, NULL).workspace = w /\ FocusView(s, w, NULL).focus_view[w] = NULL
      BY <1>1 DEF FocusView, States
    <3> QED
      BY <2>1, <3>1, <3>2, NullIsNothing
  <2>2. CASE s.focus_view[w] \notin gone
    BY <2>2 DEF SameLayers
  <2> QED
    BY <2>1, <2>2
<1> HIDE DEF left, w
<1>3. /\ t.focus_layer = left.focus_layer /\ t.workspace = w /\ t.mode = left.mode
      /\ t.keyboard = left.keyboard /\ t.loose = left.loose /\ t.layer_output = left.layer_output
      /\ t.fault = left.fault
      /\ \A o \in Output : t.focus_view[o] = IF left.focus_view[o] \in gone THEN NULL ELSE left.focus_view[o]
      /\ t \in States /\ SameLayers(left, t)
  BY <1>2 DEF States, SameLayers
<1>4. ClearFocus(s, gone) = t
  BY DEF ClearFocus, left, w
<1> HIDE DEF t
<1>5. OneFocus(t)
  BY <1>1, <1>2, <1>3 DEF OneFocus
<1> QED
  BY <1>2, <1>3, <1>4, <1>5 DEF SameLayers

LEMMA MergeViewsFine ==
  ASSUME NEW s \in States, OneFocus(s), NEW o \in Output
  PROVE  /\ MergeViews(s, o) \in States /\ OneFocus(MergeViews(s, o))
         /\ SameLayers(s, MergeViews(s, o))
         /\ MergeViews(s, o).workspace = Stays /\ MergeViews(s, o).fault = s.fault
<1> DEFINE cleared == ClearFocus(s, {v \in View : s.view_output[v] = o})
           merged  == [cleared EXCEPT
                         !.view_output = [v \in View |-> IF @[v] = o THEN Stays ELSE @[v]]]
           locked  == [merged EXCEPT !.focus_view[Stays] = NULL, !.workspace = Stays]
<1>1. /\ cleared \in States /\ OneFocus(cleared) /\ SameLayers(s, cleared)
      /\ cleared.mode = s.mode /\ cleared.fault = s.fault
  BY ClearFocusFine
<1>2. MergeViews(s, o) = IF s.mode = "normal" THEN FocusView(merged, Stays, NULL) ELSE locked
  BY DEF MergeViews
<1> HIDE DEF cleared
<1>3. /\ merged \in States /\ SameLayers(cleared, merged)
      /\ merged.fault = cleared.fault /\ merged.mode = cleared.mode
      /\ merged.focus_view = cleared.focus_view /\ merged.focus_layer = cleared.focus_layer
      /\ merged.workspace = cleared.workspace /\ merged.keyboard = cleared.keyboard
      /\ merged.loose = cleared.loose /\ merged.layer_output = cleared.layer_output
  BY <1>1, StaysIsOutput DEF States, SameLayers
<1> HIDE DEF merged
<1>4. OneFocus(merged)
  BY <1>1, <1>3 DEF OneFocus
<1>5. CASE s.mode = "normal"
  <2>1. /\ FocusView(merged, Stays, NULL) \in States /\ OneFocus(FocusView(merged, Stays, NULL))
        /\ SameLayers(merged, FocusView(merged, Stays, NULL))
    BY <1>3, <1>4, FocusViewFine, StaysIsOutput
  <2>2. FocusView(merged, Stays, NULL).workspace = Stays /\
            FocusView(merged, Stays, NULL).fault = merged.fault
    BY <1>3 DEF FocusView, States
  <2> QED
    BY <1>1, <1>2, <1>3, <1>5, <2>1, <2>2 DEF SameLayers
<1>6. CASE s.mode # "normal"
  <2>1. /\ locked \in States /\ SameLayers(merged, locked)
        /\ locked.fault = merged.fault /\ locked.mode = merged.mode
        /\ locked.focus_view = [merged.focus_view EXCEPT ![Stays] = NULL]
        /\ locked.focus_layer = merged.focus_layer
        /\ locked.workspace = Stays /\ locked.keyboard = merged.keyboard
        /\ locked.loose = merged.loose /\ locked.layer_output = merged.layer_output
        /\ merged.focus_view \in [Output -> View \cup {NULL}]
    BY <1>3, StaysIsOutput DEF States, SameLayers
  <2> HIDE DEF locked
  <2>2. OneFocus(locked)
    BY <1>1, <1>3, <1>4, <1>6, <2>1 DEF OneFocus
  <2> QED
    BY <1>1, <1>2, <1>3, <1>6, <2>1, <2>2 DEF SameLayers
<1> QED
  BY <1>5, <1>6

LEMMA FreeOutputFine ==
  ASSUME NEW s, NEW o \in Output \ {Stays}, Fine(s, {o}, {}),
         Running(s) => \A k \in Kind, l \in Layer : IsListed(s, o, k, l) => s.life[l] = "closed"
  PROVE  /\ Fine(FreeOutput(s, o), {o}, {})
         /\ Running(FreeOutput(s, o)) => Fine(FreeOutput(s, o), {}, {})
<1> DEFINE t == FreeOutput(s, o)
           u == MergeViews(s, o)
<1>1. CASE ~Running(s)
  BY <1>1 DEF FreeOutput
<1>2. CASE Running(s)
  <2>1. /\ u \in States /\ OneFocus(u) /\ SameLayers(s, u)
        /\ u.workspace = Stays /\ u.fault = s.fault
    BY MergeViewsFine DEF Fine
  <2>2. LayersFine(u, {o}, {})
    BY <2>1, SameLayersFine DEF Fine
  <2>3. \A k \in Kind, l \in Layer : IsListed(u, o, k, l) => u.life[l] = "closed"
    BY <1>2, <2>1 DEF SameLayers, IsListed
  <2>4. t = [u EXCEPT
               !.outputs = @ \ {o}, !.pointer = IF @ = o THEN Stays ELSE @,
               !.layers[o] = [k \in Kind |-> <<>>], !.usable_area[o] = {},
               !.focus_view[o] = NULL, !.focus_layer[o] = NULL,
               !.layer_output = [l \in Layer |-> IF @[l] = o THEN NULL ELSE @[l]]]
    BY <1>2 DEF FreeOutput
  <2> HIDE DEF u, t
  <2>5. /\ t \in States
        /\ t.life = u.life /\ t.current = u.current /\ t.loose = u.loose
        /\ t.layer_kind = u.layer_kind /\ t.fault = u.fault
        /\ t.workspace = u.workspace /\ t.mode = u.mode /\ t.keyboard = u.keyboard
        /\ t.outputs = u.outputs \ {o}
        /\ t.layers = [u.layers EXCEPT ![o] = [k \in Kind |-> <<>>]]
        /\ t.usable_area = [u.usable_area EXCEPT ![o] = {}]
        /\ t.focus_view = [u.focus_view EXCEPT ![o] = NULL]
        /\ t.focus_layer = [u.focus_layer EXCEPT ![o] = NULL]
        /\ t.layer_output = [l \in Layer |-> IF u.layer_output[l] = o THEN NULL ELSE u.layer_output[l]]
    <3>1. [k \in Kind |-> <<>>] \in [Kind -> Seq(Layer)]
      OBVIOUS
    <3>2. /\ u.layers \in [Output -> [Kind -> Seq(Layer)]] /\
                 u.usable_area \in [Output -> SUBSET Layer]
          /\ u.focus_view \in [Output -> View \cup {NULL}] /\
                 u.focus_layer \in [Output -> Layer \cup {NULL}]
          /\ u.layer_output \in [Layer -> Output \cup {NULL}] /\ u.pointer \in Output
          /\ u.outputs \subseteq Output
      BY <2>1 DEF States
    <3>3. /\ [u.layers EXCEPT ![o] = [k \in Kind |-> <<>>]] \in [Output -> [Kind -> Seq(Layer)]]
          /\ [u.usable_area EXCEPT ![o] = {}] \in [Output -> SUBSET Layer]
          /\ [u.focus_view EXCEPT ![o] = NULL] \in [Output -> View \cup {NULL}]
          /\ [u.focus_layer EXCEPT ![o] = NULL] \in [Output -> Layer \cup {NULL}]
          /\ [l \in Layer |-> IF u.layer_output[l] = o THEN NULL ELSE u.layer_output[l]]
               \in [Layer -> Output \cup {NULL}]
          /\ (IF u.pointer = o THEN Stays ELSE u.pointer) \in Output
      BY <3>1, <3>2, StaysIsOutput
    <3>4. /\ t.life = u.life /\ t.current = u.current /\ t.loose = u.loose
          /\ t.layer_kind = u.layer_kind /\ t.fault = u.fault
          /\ t.workspace = u.workspace /\ t.mode = u.mode /\ t.keyboard = u.keyboard
          /\ t.outputs = u.outputs \ {o} /\ t.view_output = u.view_output
          /\ t.pointer = (IF u.pointer = o THEN Stays ELSE u.pointer)
          /\ t.layers = [u.layers EXCEPT ![o] = [k \in Kind |-> <<>>]]
          /\ t.usable_area = [u.usable_area EXCEPT ![o] = {}]
          /\ t.focus_view = [u.focus_view EXCEPT ![o] = NULL]
          /\ t.focus_layer = [u.focus_layer EXCEPT ![o] = NULL]
          /\ t.layer_output = [l \in Layer |-> IF u.layer_output[l] = o THEN NULL ELSE u.layer_output[l]]
      BY <2>1, <2>4 DEF States
    <3>5. t \in States
      <4>1. t = [outputs |-> t.outputs, layers |-> t.layers,
                 usable_area |-> t.usable_area, life |-> t.life,
                 current |-> t.current, layer_kind |-> t.layer_kind,
                 layer_output |-> t.layer_output,
                 loose |-> t.loose, view_output |-> t.view_output, workspace |-> t.workspace,
                 focus_view |-> t.focus_view, focus_layer |-> t.focus_layer,
                 keyboard |-> t.keyboard,
                 pointer |-> t.pointer, mode |-> t.mode, fault |-> t.fault]
        BY <2>1, <2>4 DEF States
      <4>2. /\ t.life = u.life /\ t.current = u.current /\ t.loose = u.loose
            /\ t.layer_kind = u.layer_kind /\ t.fault = u.fault
            /\ t.workspace = u.workspace /\ t.mode = u.mode /\ t.keyboard = u.keyboard
            /\ t.view_output = u.view_output
        BY <3>4
      <4>3. /\ t.outputs \in SUBSET Output /\ t.pointer \in Output
            /\ t.layers \in [Output -> [Kind -> Seq(Layer)]]
            /\ t.usable_area \in [Output -> SUBSET Layer]
            /\ t.focus_view \in [Output -> View \cup {NULL}]
            /\ t.focus_layer \in [Output -> Layer \cup {NULL}]
            /\ t.layer_output \in [Layer -> Output \cup {NULL}]
        BY <3>2, <3>3, <3>4
      <4> QED
        BY <2>1, <4>1, <4>2, <4>3 DEF States
    <3> QED
      BY <3>4, <3>5
  <2>6. /\ u.layers \in [Output -> [Kind -> Seq(Layer)]] /\
               u.usable_area \in [Output -> SUBSET Layer]
        /\ u.focus_view \in [Output -> View \cup {NULL}] /\
               u.focus_layer \in [Output -> Layer \cup {NULL}]
        /\ u.layer_output \in [Layer -> Output \cup {NULL}] /\ u.loose \subseteq Layer
        /\ u.layer_kind \in [Layer -> Kind \cup {NULL}]
    BY <2>1 DEF States
  <2>7. \A p \in Output, k \in Kind :
          /\ t.layers[p][k] = IF p = o THEN <<>> ELSE u.layers[p][k]
          /\ \A l \in Layer : IsListed(t, p, k, l) <=> p # o /\ IsListed(u, p, k, l)
    <3>1. \A p \in Output, k \in Kind : t.layers[p][k] = IF p = o THEN <<>> ELSE u.layers[p][k]
      BY <2>5, <2>6
    <3>2. ToSet(<<>>) = {}
      BY DEF ToSet
    <3> QED
      BY <3>1, <3>2 DEF IsListed
  <2>8. IsInjective(<<>>)
    BY DEF IsInjective
  <2>9. OneFocus(t)
    <3>1. /\ \A w \in Output : t.focus_view[w] = IF w = o THEN NULL ELSE u.focus_view[w]
          /\ \A w \in Output : t.focus_layer[w] = IF w = o THEN NULL ELSE u.focus_layer[w]
          /\ \A l \in Layer : t.layer_output[l] \in {u.layer_output[l], NULL}
      BY <2>5, <2>6
    <3> QED
      BY <2>1, <2>5, <2>6, <3>1, StaysIsOutput, NullIsNothing DEF OneFocus
  <2>10. LayersFine(t, {}, {})
    <3>1. Rooms(t)
      BY <2>2, <2>5, <2>6 DEF LayersFine, Rooms
    <3>2. Listed(t, {})
      BY <2>2, <2>5, <2>6, <2>7, <2>8 DEF LayersFine, Listed
    <3>3. Known(t)
      <4> SUFFICES ASSUME NEW l \in Layer
                   PROVE  /\ t.layer_output[l] \in t.outputs \cup {NULL}
                          /\ t.life[l] = "none" => t.layer_output[l] = NULL
                          /\ t.life[l] = "none" => l \notin t.loose
                          /\ t.life[l] = "unmapped" => l \in t.loose
                          /\ t.life[l] \in {"new", "initialized", "mapped"} /\ l \notin t.loose =>
                               /\ t.layer_output[l] # NULL /\ t.layer_kind[l] # NULL
                               /\ IsListed(t, t.layer_output[l], t.layer_kind[l], l)
        BY DEF Known
      <4>1. CASE u.layer_output[l] = o
        BY <2>2, <2>3, <2>5, <2>6, <4>1, NullIsNothing DEF LayersFine, Known
      <4>2. CASE u.layer_output[l] # o
        <5>1. t.layer_output[l] = u.layer_output[l]
          BY <2>5, <4>2
        <5> QED
          BY <2>2, <2>5, <2>6, <2>7, <4>2, <5>1 DEF LayersFine, Known
      <4> QED
        BY <4>1, <4>2
    <3>4. Kinds(t, {})
      BY <2>2, <2>5 DEF LayersFine, Kinds
    <3> QED
      BY <3>1, <3>2, <3>3, <3>4 DEF LayersFine
  <2>11. LayersFine(t, {o}, {})
    BY <2>10 DEF LayersFine, Listed
  <2> QED
    BY <2>5, <2>9, <2>10, <2>11 DEF Fine, t
<1> QED
  BY <1>1, <1>2

-----------------------------------------------------------------------------
(* The events                                                              *)

LEMMA FineIsSafe ==
  ASSUME NEW closing \in SUBSET Output, NEW given \in SUBSET Layer, NEW s,
         Fine(s, closing, given), Running(s) => Fine(s, {}, {})
  PROVE  Safe(s)
<1>1. LayersFine(s, Output, Layer)
  BY DEF Fine, LayersFine, Listed, Kinds
<1> QED
  BY <1>1 DEF Fine, Safe

LEMMA HandledIsSafe ==
  ASSUME NEW results, Handled(results), \A t \in results : Safe(t)
  PROVE  IInv'
<1>1. PICK t \in results : Become(t)
  BY DEF Handled
<1>2. t \in States /\ Safe(t)
  BY <1>1 DEF Safe
<1>3. Now' = t
  BY <1>1, <1>2 DEF Now, Become, States
<1> QED
  BY <1>2, <1>3 DEF IInv

(* A handler starts from a state that is fine, and what it has changed of   *)
(* it before it goes on is still so.                                        *)
LEMMA NowIsFine ==
  ASSUME IInv, Running(Now)
  PROVE  Fine(Now, {}, {})
BY DEF IInv, Safe, Fine

LEMMA FocusesFine ==
  ASSUME NEW s, Fine(s, {}, {}), NEW t \in States, SameLayers(s, t), OneFocus(t)
  PROVE  Fine(t, {}, {})
BY SameLayersFine DEF Fine

LEMMA GivenFine ==
  ASSUME NEW s, Fine(s, {}, {}), NEW l \in Layer, NEW state \in State
  PROVE  /\ Fine([s EXCEPT !.current[l] = state], {}, {l})
         /\ [s EXCEPT !.current[l] = state].life = s.life
         /\ [s EXCEPT !.current[l] = state].current[l] = state
<1> DEFINE t == [s EXCEPT !.current[l] = state]
<1> s \in States
  BY DEF Fine
<1>1. /\ t \in States
      /\ t.life = s.life /\ t.loose = s.loose /\ t.layers = s.layers
      /\ t.outputs = s.outputs /\ t.usable_area = s.usable_area
      /\ t.layer_kind = s.layer_kind
      /\ t.layer_output = s.layer_output /\ t.fault = s.fault
      /\ t.workspace = s.workspace /\ t.mode = s.mode /\ t.keyboard = s.keyboard
      /\ t.focus_view = s.focus_view /\ t.focus_layer = s.focus_layer
      /\ \A m \in Layer : t.current[m] = IF m = l THEN state ELSE s.current[m]
  BY DEF States
<1> HIDE DEF t
<1>2. OneFocus(t)
  BY <1>1 DEF Fine, OneFocus
<1>3. LayersFine(t, {}, {l})
  <2>1. Rooms(t)
    BY <1>1 DEF Fine, LayersFine, Rooms
  <2>2. Listed(t, {})
    BY <1>1 DEF Fine, LayersFine, Listed, IsListed
  <2>3. Known(t)
    BY <1>1 DEF Fine, LayersFine, Known, IsListed
  <2>4. Kinds(t, {l})
    BY <1>1 DEF Fine, LayersFine, Kinds
  <2> QED
    BY <2>1, <2>2, <2>3, <2>4 DEF LayersFine
<1> QED
  BY <1>1, <1>2, <1>3 DEF Fine, t

(* A layer that lives on.                                                   *)
LEMMA LivesFine ==
  ASSUME NEW s, NEW given, Fine(s, {}, given), NEW l \in Layer,
         NEW to \in {"initialized", "mapped"},
         s.life[l] \in {"new", "unmapped", "initialized"}, to = "mapped" =>
             l \in given /\ s.life[l] = "initialized"
  PROVE  /\ Fine([s EXCEPT !.life[l] = to], {}, given)
         /\ [s EXCEPT !.life[l] = to].life[l] = to
         /\ [s EXCEPT !.life[l] = to].current = s.current
         /\ [s EXCEPT !.life[l] = to].layer_output = s.layer_output
<1> DEFINE t == [s EXCEPT !.life[l] = to]
<1> s \in States
  BY DEF Fine
<1>1. /\ t \in States
      /\ t.current = s.current /\ t.loose = s.loose /\ t.layers = s.layers
      /\ t.outputs = s.outputs /\ t.usable_area = s.usable_area
      /\ t.layer_kind = s.layer_kind
      /\ t.layer_output = s.layer_output /\ t.fault = s.fault
      /\ t.workspace = s.workspace /\ t.mode = s.mode /\ t.keyboard = s.keyboard
      /\ t.focus_view = s.focus_view /\ t.focus_layer = s.focus_layer
      /\ \A m \in Layer : t.life[m] = IF m = l THEN to ELSE s.life[m]
  BY DEF States, Life
<1> HIDE DEF t
<1>2. OneFocus(t)
  BY <1>1 DEF Fine, OneFocus
<1>3. LayersFine(t, {}, given)
  <2>1. Rooms(t)
    <3>1. s.usable_area \in [Output -> SUBSET Layer]
      BY DEF States
    <3> QED
      BY <1>1, <3>1 DEF Fine, LayersFine, Rooms
  <2>2. Listed(t, {})
    BY <1>1 DEF Fine, LayersFine, Listed, IsListed
  <2>3. Known(t)
    BY <1>1 DEF Fine, LayersFine, Known, IsListed
  <2>4. Kinds(t, given)
    BY <1>1 DEF Fine, LayersFine, Kinds
  <2> QED
    BY <2>1, <2>2, <2>3, <2>4 DEF LayersFine
<1> QED
  BY <1>1, <1>2, <1>3 DEF Fine, t

LEMMA NewLayerSafe ==
  ASSUME IInv, NEW l \in Layer, NEW o \in Output, NEW k \in Kind, NewLayer(l, o, k)
  PROVE  IInv'
<1> DEFINE s  == Now
           in == Inserted(s, o, k, l)
           t  == [in EXCEPT !.life[l] = "new", !.layer_kind[l] = k, !.layer_output[l] = o]
<1>1. Handled({t}) /\ life[l] = "none" /\ o \in outputs
  BY DEF NewLayer
<1>2. Fine(s, {}, {})
  BY <1>1, NowIsFine DEF Handled
<1>3. s.life[l] = "none" /\ o \in s.outputs
  BY <1>1 DEF Now
<1> HIDE DEF s
<1> s \in States
  BY <1>2 DEF Fine
<1>4. s.layer_output[l] = NULL /\ l \notin s.loose
  BY <1>2, <1>3 DEF Fine, LayersFine, Known
<1>5. \A p \in Output, j \in Kind : IsInjective(s.layers[p][j]) /\ ~IsListed(s, p, j, l)
  BY <1>2, <1>4, NullIsNothing DEF Fine, LayersFine, Listed
<1>6. /\ in \in States
      /\ \A p \in Output, j \in Kind :
           /\ IsInjective(in.layers[p][j])
           /\ \A m \in Layer : IsListed(in, p, j, m)
                  <=> IsListed(s, p, j, m) \/ <<p, j, m>> = <<o, k, l>>
  BY <1>5, InsertedLists
<1>7. /\ in.life = s.life /\ in.loose = s.loose
      /\ in.outputs = s.outputs /\ in.current = s.current /\ in.layer_kind = s.layer_kind
      /\ in.usable_area = s.usable_area
      /\ in.layer_output = s.layer_output /\ in.fault = s.fault
      /\ in.workspace = s.workspace /\ in.mode = s.mode /\ in.keyboard = s.keyboard
      /\ in.focus_view = s.focus_view /\ in.focus_layer = s.focus_layer
  BY DEF Inserted, States
<1> HIDE DEF in
<1>8. /\ t \in States
      /\ t.loose = s.loose /\ t.layers = in.layers
      /\ t.outputs = s.outputs /\ t.usable_area = s.usable_area /\ t.current = s.current
      /\ t.fault = s.fault
      /\ t.workspace = s.workspace /\ t.mode = s.mode /\ t.keyboard = s.keyboard
      /\ t.focus_view = s.focus_view /\ t.focus_layer = s.focus_layer
      /\ \A m \in Layer : /\ t.life[m] = IF m = l THEN "new" ELSE s.life[m]
                          /\ t.layer_kind[m] = IF m = l THEN k ELSE s.layer_kind[m]
                          /\ t.layer_output[m] = IF m = l THEN o ELSE s.layer_output[m]
  BY <1>6, <1>7 DEF States, Life
<1>9. \A p \in Output, j \in Kind, m \in Layer :
        IsListed(t, p, j, m) <=> IsListed(s, p, j, m) \/ <<p, j, m>> = <<o, k, l>>
  BY <1>6, <1>8 DEF IsListed
<1> HIDE DEF t
<1>10. /\ s.layer_kind \in [Layer -> Kind \cup {NULL}] /\
              s.layer_output \in [Layer -> Output \cup {NULL}]
       /\ s.usable_area \in [Output -> SUBSET Layer] /\ s.loose \subseteq Layer
  BY DEF States
<1>11. OneFocus(t)
  BY <1>2, <1>4, <1>8, <1>10 DEF Fine, OneFocus
<1>12. LayersFine(t, {}, {})
  <2>1. Rooms(t)
    <3>1. \A p \in Output : l \notin s.usable_area[p]
      BY <1>2, <1>3, <1>4, NullIsNothing DEF Fine, LayersFine, Rooms
    <3> QED
      BY <1>2, <1>8, <1>10, <3>1 DEF Fine, LayersFine, Rooms
  <2>2. Listed(t, {})
    BY <1>2, <1>3, <1>4, <1>5, <1>6, <1>8, <1>9 DEF Fine, LayersFine, Listed
  <2>3. Known(t)
    <3> SUFFICES ASSUME NEW m \in Layer
                 PROVE  /\ t.layer_output[m] \in t.outputs \cup {NULL}
                        /\ t.life[m] = "none" => t.layer_output[m] = NULL
                        /\ t.life[m] = "none" => m \notin t.loose
                        /\ t.life[m] = "unmapped" => m \in t.loose
                        /\ t.life[m] \in {"new", "initialized", "mapped"} /\ m \notin t.loose =>
                             /\ t.layer_output[m] # NULL /\ t.layer_kind[m] # NULL
                             /\ IsListed(t, t.layer_output[m], t.layer_kind[m], m)
      BY DEF Known
    <3>1. CASE m = l
      BY <1>3, <1>8, <1>9, <3>1, NullIsNothing
    <3>2. CASE m # l
      BY <1>2, <1>8, <1>9, <1>10, <3>2 DEF Fine, LayersFine, Known
    <3> QED
      BY <3>1, <3>2
  <2>4. Kinds(t, {})
    BY <1>2, <1>8 DEF Fine, LayersFine, Kinds
  <2> QED
    BY <2>1, <2>2, <2>3, <2>4 DEF LayersFine
<1>13. Safe(t)
  BY <1>8, <1>11, <1>12, FineIsSafe DEF Fine
<1> QED
  BY <1>1, <1>13, HandledIsSafe

(* hikari_server_cursor_focus ends most of the handlers.                    *)
LEMMA CursorFocusSafe ==
  ASSUME NEW s, Fine(s, {}, {}), NEW over, NEW t \in CursorFocus(s, over)
  PROVE  Safe(t)
BY CursorFocusFine, FineIsSafe

LEMMA CommitFirstSafe ==
  ASSUME IInv, NEW l \in Layer, NEW state \in State, CommitFirst(l, state)
  PROVE  IInv'
<1> DEFINE s     == Now
           given == [s EXCEPT !.current[l] = state]
           t     == [given EXCEPT !.life[l] = "initialized"]
           end   == IF layer_output[l] = NULL THEN Crash(t, "freed output") ELSE t
<1>1. Handled({end}) /\ life[l] \in {"new", "unmapped"}
  <2>1. [s EXCEPT !.current[l] = state, !.life[l] = "initialized"] = t
    OBVIOUS
  <2> QED
    BY <2>1 DEF CommitFirst
<1>2. Fine(s, {}, {})
  BY <1>1, NowIsFine DEF Handled
<1>3. s.life[l] \in {"new", "unmapped"} /\ s.life[l] # "mapped"
  BY <1>1 DEF Now
<1> HIDE DEF s
<1>4. Fine(given, {}, {l}) /\ given.life = s.life
  BY <1>2, GivenFine
<1> HIDE DEF given
<1>5. Fine(t, {}, {l})
  <2>1. given.life[l] \in {"new", "unmapped", "initialized"} /\ "initialized" # "mapped"
    BY <1>3, <1>4
  <2> QED
    BY <1>4, <2>1, LivesFine
<1> HIDE DEF t
<1>6. Fine(t, {}, {})
  <2>1. t.life[l] = "initialized"
    BY <1>4 DEF Fine, States, t
  <2> QED
    BY <1>5, <2>1 DEF Fine, LayersFine, Kinds
<1>7. Fine(end, {}, {})
  BY <1>6, CrashFine DEF Fault
<1> QED
  BY <1>1, <1>7, FineIsSafe, HandledIsSafe

LEMMA CommitBufferSafe ==
  ASSUME IInv, NEW l \in Layer, NEW state \in State, CommitBuffer(l, state)
  PROVE  IInv'
<1> DEFINE s      == Now
           given  == [s EXCEPT !.current[l] = state]
           mapped == [given EXCEPT !.life[l] = "mapped"]
<1>1. PICK over \in Over(mapped), moved \in BOOLEAN :
        Handled(UNION {CommitLayer(t, l, over, moved) : t \in MapLayer(given, l, over)})
  BY DEF CommitBuffer
<1>2. Fine(s, {}, {})
  BY <1>1, NowIsFine DEF Handled
<1>3. s.life[l] = "initialized"
  BY DEF CommitBuffer, Now
<1> DEFINE ends == UNION {CommitLayer(t, l, over, moved) : t \in MapLayer(given, l, over)}
<1>4. ends = UNION {CommitLayer(t, l, over, moved) : t \in CursorFocus(mapped, over)}
  BY DEF MapLayer
<1> HIDE DEF s
<1>5. Fine(given, {}, {l}) /\ given.life = s.life /\ given.current[l] = state
  BY <1>2, GivenFine
<1> HIDE DEF given
<1>6. Fine(mapped, {}, {l}) /\ mapped.life[l] = "mapped" /\ mapped.current[l] = state
  <2>1. given.life[l] \in {"new", "unmapped", "initialized"} /\ given.life[l] = "initialized"
    BY <1>3, <1>5
  <2>2. Fine(mapped, {}, {l})
    BY <1>5, <2>1, LivesFine
  <2> QED
    BY <1>5, <2>2 DEF Fine, States
<1> HIDE DEF mapped
<1>7. ASSUME NEW t \in ends PROVE Safe(t)
  <2>1. PICK u \in CursorFocus(mapped, over) : t \in CommitLayer(u, l, over, moved)
    BY <1>4, <1>7
  <2>2. Fine(u, {}, {l}) /\ u.life[l] = "mapped" /\ u.current[l] = state
    BY <1>6, <2>1, CursorFocusFine DEF SameLayers
  <2>3. Fine(t, {}, {l}) /\ (Running(t) => Fine(t, {}, {}))
    BY <2>1, <2>2, CommitFine
  <2> QED
    BY <2>3, FineIsSafe
<1> HIDE DEF ends
<1> QED
  BY <1>1, <1>7, HandledIsSafe DEF ends

LEMMA CommitSafe ==
  ASSUME IInv, NEW l \in Layer, NEW state \in State, Commit(l, state)
  PROVE  IInv'
<1> DEFINE s     == Now
           given == [s EXCEPT !.current[l] = state]
<1>1. PICK over \in Over(given), moved \in BOOLEAN : Handled(CommitLayer(given, l, over, moved))
  BY DEF Commit
<1>2. Fine(s, {}, {})
  BY <1>1, NowIsFine DEF Handled
<1>3. s.life[l] = "mapped"
  BY DEF Commit, Now
<1> HIDE DEF s
<1>4. Fine(given, {}, {l}) /\ given.life[l] = "mapped" /\ given.current[l] = state
  BY <1>2, <1>3, GivenFine
<1> HIDE DEF given
<1>5. ASSUME NEW t \in CommitLayer(given, l, over, moved) PROVE Safe(t)
  BY <1>4, <1>5, CommitFine, FineIsSafe
<1> QED
  BY <1>1, <1>5, HandledIsSafe

LEMMA EndsSafe ==
  ASSUME IInv, NEW l \in Layer, CommitNothing(l) \/ CommitLate(l) \/ DestroyRole(l)
  PROVE  IInv'
<1>1. Fine(Now, {}, {})
  BY NowIsFine DEF CommitNothing, CommitLate, DestroyRole, Handled
<1>2. CASE CommitNothing(l)
  <2>1. PICK over : Handled(UnmapLayer(Now, l, over))
    BY <1>2 DEF CommitNothing
  <2>2. Now.life[l] = "mapped"
    BY <1>2 DEF CommitNothing, Now
  <2>3. ASSUME NEW t \in UnmapLayer(Now, l, over) PROVE Safe(t)
    BY <1>1, <2>2, <2>3, UnmapFine, FineIsSafe
  <2> QED
    BY <2>1, <2>3, HandledIsSafe
<1>3. CASE CommitLate(l)
  <2>1. Fine(Crash(Now, "freed surface"), {}, {})
    BY <1>1, CrashFine DEF Fault
  <2> QED
    BY <1>3, <2>1, FineIsSafe, HandledIsSafe DEF CommitLate
<1>4. CASE DestroyRole(l)
  <2>1. PICK over : Handled(EndRole(Now, l, over))
    BY <1>4 DEF DestroyRole
  <2>2. ASSUME NEW t \in EndRole(Now, l, over) PROVE Safe(t)
    BY <1>1, <2>2, EndRoleFine, FineIsSafe
  <2> QED
    BY <2>1, <2>2, HandledIsSafe
<1> QED
  BY <1>2, <1>3, <1>4

LEMMA DestroySurfaceSafe ==
  ASSUME IInv, NEW l \in Layer, DestroySurface(l)
  PROVE  IInv'
<1>1. PICK over :
        Handled({Finish(t, l) : t \in IF HasRole(Now, l) THEN EndRole(Now, l, over) ELSE {Now}})
  BY DEF DestroySurface
<1>2. Fine(Now, {}, {})
  BY <1>1, NowIsFine DEF Handled
<1>3. HasRole(Now, l) \/ Now.life[l] = "closed"
  BY DEF DestroySurface, Now
<1>4. ASSUME NEW t \in IF HasRole(Now, l) THEN EndRole(Now, l, over) ELSE {Now}
      PROVE  Safe(Finish(t, l))
  <2>1. Fine(t, {}, {}) /\ (Running(t) => t.life[l] = "closed")
    <3>1. CASE HasRole(Now, l)
      <4>1. Fine(t, {}, {}) /\ (Running(t) => t.life = [Now.life EXCEPT ![l] = "closed"])
        BY <1>2, <1>4, <3>1, EndRoleFine
      <4>2. Now.life \in [Layer -> Life]
        BY <1>2 DEF Fine, States
      <4> QED
        BY <4>1, <4>2
    <3>2. CASE ~HasRole(Now, l)
      BY <1>2, <1>3, <1>4, <3>2
    <3> QED
      BY <3>1, <3>2
  <2> QED
    BY <2>1, FinishFine, FineIsSafe
<1> QED
  BY <1>1, <1>4, HandledIsSafe

LEMMA PointerMotionSafe ==
  ASSUME IInv, NEW o \in Output, PointerMotion(o)
  PROVE  IInv'
<1> DEFINE s == Now
           t == [s EXCEPT !.pointer = o]
<1>1. PICK over : Handled(CursorFocus(t, over))
  BY DEF PointerMotion
<1>2. Fine(s, {}, {})
  BY <1>1, NowIsFine DEF Handled
<1> HIDE DEF s
<1>3. t \in States /\ SameLayers(s, t) /\ OneFocus(t)
  BY <1>2 DEF Fine, States, SameLayers, OneFocus
<1> HIDE DEF t
<1>4. Fine(t, {}, {})
  BY <1>2, <1>3, FocusesFine
<1> QED
  BY <1>1, <1>4, CursorFocusSafe, HandledIsSafe

LEMMA QuitViewSafe ==
  ASSUME IInv, QuitView
  PROVE  IInv'
<1> DEFINE s == Now
           l == focus_layer[workspace]
<1>1. PICK over, less :
        Handled(IF l = NULL THEN CursorFocus(s, over)
                ELSE IF focus_view[workspace] # NULL THEN {Crash(s, "assert")}
                ELSE IF ~HasRole(s, l) THEN {Crash(s, "freed surface")}
                ELSE EndRole(s, l, less))
  BY DEF QuitView
<1>2. Fine(s, {}, {})
  BY <1>1, NowIsFine DEF Handled
<1>3. l \in Layer \cup {NULL} /\ (l # NULL => focus_view[workspace] = NULL)
  <2>1. s.focus_layer[s.workspace] = l /\ s.focus_view[s.workspace] = focus_view[workspace]
    BY DEF Now
  <2> QED
    BY <1>2, <2>1 DEF Fine, OneFocus, States
<1> HIDE DEF l, s
<1>4. CASE l = NULL
  BY <1>1, <1>2, <1>4, CursorFocusSafe, HandledIsSafe
<1>5. CASE l # NULL /\ ~HasRole(s, l)
  <2>1. Fine(Crash(s, "freed surface"), {}, {})
    BY <1>2, CrashFine DEF Fault
  <2> QED
    BY <1>1, <1>3, <1>5, <2>1, FineIsSafe, HandledIsSafe
<1>6. CASE l # NULL /\ HasRole(s, l)
  <2>1. ASSUME NEW t \in EndRole(s, l, less) PROVE Safe(t)
    BY <1>2, <1>3, <1>6, <2>1, EndRoleFine, FineIsSafe
  <2> QED
    BY <1>1, <1>3, <1>6, <2>1, HandledIsSafe
<1> QED
  BY <1>4, <1>5, <1>6

LEMMA CycleWorkspaceSafe ==
  ASSUME IInv, NEW o \in Output, CycleWorkspace(o)
  PROVE  IInv'
<1> DEFINE s == Now
           t == [s EXCEPT !.pointer = o]
<1>1. PICK over \in Over(s), v \in FirstView(s, o) :
        Handled(IF v # NULL THEN {FocusView(t, o, v)} ELSE CursorFocus(t, over))
  BY DEF CycleWorkspace
<1>2. Fine(s, {}, {})
  BY <1>1, NowIsFine DEF Handled
<1>3. s.mode = "normal"
  BY DEF CycleWorkspace, Now
<1> HIDE DEF s
<1>4. t \in States /\ SameLayers(s, t) /\ OneFocus(t) /\ t.mode = "normal"
  BY <1>2, <1>3 DEF Fine, States, SameLayers, OneFocus
<1>5. v \in View \cup {NULL}
  BY <1>2 DEF Fine, FirstView, States
<1> HIDE DEF t
<1>6. Fine(t, {}, {})
  BY <1>2, <1>4, FocusesFine
<1>7. Fine(FocusView(t, o, v), {}, {})
  BY <1>4, <1>5, <1>6, FocusViewFine, FocusesFine
<1>8. CASE v # NULL
  BY <1>1, <1>7, <1>8, FineIsSafe, HandledIsSafe
<1>9. CASE v = NULL
  BY <1>1, <1>6, <1>9, CursorFocusSafe, HandledIsSafe
<1> QED
  BY <1>8, <1>9

LEMMA ShowViewSafe ==
  ASSUME IInv, NEW v \in View, ShowView(v)
  PROVE  IInv'
<1> DEFINE s == Now
           t == [s EXCEPT !.view_output[v] = workspace]
<1>1. PICK over : Handled(CursorFocus(t, over))
  BY DEF ShowView
<1>2. Fine(s, {}, {})
  BY <1>1, NowIsFine DEF Handled
<1>3. workspace \in Output
  BY <1>2 DEF Fine, States, Now
<1> HIDE DEF s
<1>4. t \in States /\ SameLayers(s, t) /\ OneFocus(t)
  BY <1>2, <1>3 DEF Fine, States, SameLayers, OneFocus
<1> HIDE DEF t
<1>5. Fine(t, {}, {})
  BY <1>2, <1>4, FocusesFine
<1> QED
  BY <1>1, <1>5, CursorFocusSafe, HandledIsSafe

LEMMA HideViewSafe ==
  ASSUME IInv, NEW v \in View, HideView(v)
  PROVE  IInv'
<1> DEFINE s == Now
           u == ClearFocus(s, {v})
           t == [u EXCEPT !.view_output[v] = NULL]
<1>1. PICK over : Handled(CursorFocus(t, over))
  BY DEF HideView
<1>2. Fine(s, {}, {})
  BY <1>1, NowIsFine DEF Handled
<1> HIDE DEF s
<1>3. u \in States /\ SameLayers(s, u) /\ OneFocus(u)
  BY <1>2, ClearFocusFine DEF Fine
<1> HIDE DEF u
<1>4. t \in States /\ SameLayers(u, t) /\ OneFocus(t)
  BY <1>3 DEF States, SameLayers, OneFocus
<1> HIDE DEF t
<1>5. Fine(t, {}, {})
  <2>1. Fine(u, {}, {})
    BY <1>2, <1>3, FocusesFine
  <2> QED
    BY <1>4, <2>1, FocusesFine
<1> QED
  BY <1>1, <1>5, CursorFocusSafe, HandledIsSafe

LEMMA LockedMode ==
  ASSUME NEW s \in States
  PROVE  [s EXCEPT !.mode = "lock"] \in States
BY DEF States

LEMMA LockSafe ==
  ASSUME IInv, Lock
  PROVE  IInv'
<1> DEFINE s    == Now
           w    == workspace
           l    == focus_layer[w]
           v    == focus_view[w]
           left == IF l # NULL THEN [s EXCEPT !.focus_layer[w] = NULL, !.keyboard = NULL]
                   ELSE IF v # NULL THEN FocusView(s, w, NULL) ELSE s
           t    == [left EXCEPT !.mode = "lock"]
<1>1. Handled({IF l # NULL /\ v # NULL THEN Crash(s, "assert") ELSE t})
  BY DEF Lock
<1>2. Fine(s, {}, {})
  BY <1>1, NowIsFine DEF Handled
<1>3. s.workspace = w /\ s.focus_layer[w] = l /\ s.focus_view[w] = v
  BY DEF Now
<1> HIDE DEF s, w, l, v
<1> s \in States
  BY <1>2 DEF Fine
<1>4. w \in Output /\ l \in Layer \cup {NULL} /\ v \in View \cup {NULL} /\ ~(l # NULL /\ v # NULL)
  BY <1>2, <1>3 DEF Fine, OneFocus, States
<1>5. left \in States /\ SameLayers(s, left) /\ OneFocus(left) /\ left.keyboard = NULL
  <2>1. CASE l # NULL
    <3>1. left = [s EXCEPT !.focus_layer[w] = NULL, !.keyboard = NULL]
      BY <2>1
    <3> HIDE DEF left
    <3>2. left \in States /\ SameLayers(s, left)
      BY <1>4, <3>1 DEF States, SameLayers
    <3>3. /\ left.focus_layer = [s.focus_layer EXCEPT ![w] = NULL] /\ left.keyboard = NULL
          /\ left.focus_view = s.focus_view /\ left.fault = s.fault
          /\ left.loose = s.loose /\ left.layer_output = s.layer_output
          /\ s.focus_layer \in [Output -> Layer \cup {NULL}] /\ s.loose \subseteq Layer
      BY <1>4, <3>1 DEF States
    <3>4. OneFocus(left)
      BY <1>2, <1>4, <3>3, NullIsNothing DEF Fine, OneFocus
    <3> QED
      BY <3>2, <3>3, <3>4
  <2>2. CASE l = NULL /\ v # NULL
    <3>1. left = FocusView(s, w, NULL)
      BY <2>2
    <3>2. left.keyboard = NULL
      BY <3>1 DEF FocusView, States
    <3> QED
      BY <1>2, <1>4, <3>1, <3>2, FocusViewFine DEF Fine
  <2>3. CASE l = NULL /\ v = NULL
    BY <1>2, <1>3, <2>3 DEF Fine, OneFocus, SameLayers
  <2> QED
    BY <2>1, <2>2, <2>3
<1> HIDE DEF left
<1>6. t \in States /\ SameLayers(left, t) /\ OneFocus(t)
  <2>1. t \in States
    BY <1>5, LockedMode
  <2>a. SameLayers(left, t)
    BY <1>5 DEF States, SameLayers
  <2>2. /\ t.focus_view = left.focus_view /\ t.focus_layer = left.focus_layer
        /\ t.keyboard = NULL /\ t.loose = left.loose /\ t.layer_output = left.layer_output
        /\ t.fault = left.fault
    BY <1>5 DEF States
  <2> HIDE DEF t
  <2>3. OneFocus(t)
    BY <1>5, <2>2 DEF OneFocus
  <2> QED
    BY <2>1, <2>a, <2>3
<1> HIDE DEF t
<1>7. Fine(t, {}, {})
  BY <1>2, <1>5, <1>6, FocusesFine
<1> QED
  BY <1>1, <1>4, <1>7, FineIsSafe, HandledIsSafe

LEMMA UnlockSafe ==
  ASSUME IInv, Unlock
  PROVE  IInv'
<1> DEFINE s == Now
           t == [s EXCEPT !.mode = "normal"]
<1>1. PICK over : Handled(CursorFocus(t, over))
  BY DEF Unlock
<1>2. Fine(s, {}, {})
  BY <1>1, NowIsFine DEF Handled
<1> HIDE DEF s
<1>3. t \in States /\ SameLayers(s, t) /\ OneFocus(t)
  BY <1>2 DEF Fine, States, SameLayers, OneFocus
<1> HIDE DEF t
<1>4. Fine(t, {}, {})
  BY <1>2, <1>3, FocusesFine
<1> QED
  BY <1>1, <1>4, CursorFocusSafe, HandledIsSafe

LEMMA OutputAddSafe ==
  ASSUME IInv, NEW o \in Output, OutputAdd(o)
  PROVE  IInv'
<1> DEFINE s == Now
           t == [s EXCEPT !.outputs = @ \cup {o}]
<1>1. Handled({t})
  BY DEF OutputAdd
<1>2. Fine(s, {}, {})
  BY <1>1, NowIsFine DEF Handled
<1> HIDE DEF s
<1>3. /\ t \in States
      /\ t.current = s.current /\ t.loose = s.loose /\ t.layers = s.layers
      /\ t.outputs = s.outputs \cup {o} /\ t.usable_area = s.usable_area
      /\ t.layer_kind = s.layer_kind /\ t.life = s.life
      /\ t.layer_output = s.layer_output /\ t.fault = s.fault
      /\ t.workspace = s.workspace /\ t.mode = s.mode /\ t.keyboard = s.keyboard
      /\ t.focus_view = s.focus_view /\ t.focus_layer = s.focus_layer
  BY <1>2 DEF Fine, States
<1> HIDE DEF t
<1>4. OneFocus(t)
  BY <1>2, <1>3 DEF Fine, OneFocus
<1>5. LayersFine(t, {}, {})
  <2>1. Rooms(t)
    BY <1>2, <1>3 DEF Fine, LayersFine, Rooms
  <2>2. Listed(t, {})
    BY <1>2, <1>3 DEF Fine, LayersFine, Listed, IsListed
  <2>3. Known(t)
    BY <1>2, <1>3 DEF Fine, LayersFine, Known, IsListed
  <2>4. Kinds(t, {})
    BY <1>2, <1>3 DEF Fine, LayersFine, Kinds
  <2> QED
    BY <2>1, <2>2, <2>3, <2>4 DEF LayersFine
<1>6. Safe(t)
  BY <1>3, <1>4, <1>5, FineIsSafe DEF Fine
<1> QED
  BY <1>1, <1>6, HandledIsSafe

LEMMA OutputRemoveSafe ==
  ASSUME IInv, NEW o \in Output, OutputRemove(o)
  PROVE  IInv'
<1>1. PICK over : Handled({FreeOutput(s, o) : s \in CloseLayers(Now, o, over)})
  BY DEF OutputRemove
<1>2. Fine(Now, {}, {})
  BY <1>1, NowIsFine DEF Handled
<1>3. o # Stays
  BY DEF OutputRemove
<1>4. ASSUME NEW s \in CloseLayers(Now, o, over) PROVE Safe(FreeOutput(s, o))
  <2>1. /\ Fine(s, {o}, {})
        /\ Running(s) => \A k \in Kind, l \in Layer : IsListed(s, o, k, l) => s.life[l] = "closed"
    BY <1>2, <1>4, CloseLayersFine
  <2>2. /\ Fine(FreeOutput(s, o), {o}, {})
        /\ Running(FreeOutput(s, o)) => Fine(FreeOutput(s, o), {}, {})
    BY <1>3, <2>1, FreeOutputFine
  <2> QED
    BY <2>2, FineIsSafe
<1> QED
  BY <1>1, <1>4, HandledIsSafe

-----------------------------------------------------------------------------
(* The theorems                                                            *)

LEMMA InitIsSafe == Init => IInv
<1> SUFFICES ASSUME Init PROVE Safe(Now)
  BY DEF IInv
<1> DEFINE s == Now
<1>1. /\ s.outputs = {Stays} /\ s.workspace = Stays /\ s.pointer = Stays
      /\ s.layers = [o \in Output |-> [k \in Kind |-> <<>>]]
      /\ s.usable_area = [o \in Output |-> {}]
      /\ s.life = [l \in Layer |-> "none"] /\ s.current = [l \in Layer |-> NoState]
      /\ s.layer_kind = [l \in Layer |-> NULL]
      /\ s.layer_output = [l \in Layer |-> NULL] /\ s.loose = {}
      /\ s.view_output = [v \in View |-> NULL]
      /\ s.focus_view = [o \in Output |-> NULL] /\ s.focus_layer = [o \in Output |-> NULL]
      /\ s.keyboard = NULL /\ s.mode = "normal" /\ s.fault = "none"
  BY DEF Init, Now
<1>2. s \in States
  BY StaysIsOutput DEF Init, Now, States, Life, Fault
<1> HIDE DEF s
<1>3. OneFocus(s)
  BY <1>1 DEF OneFocus
<1>4. \A o \in Output, k \in Kind : IsInjective(s.layers[o][k]) /\ \A l : ~IsListed(s, o, k, l)
  BY <1>1 DEF IsListed, ToSet, IsInjective
<1>5. LayersFine(s, {}, {})
  BY <1>1, <1>4 DEF LayersFine, Rooms, Listed, Known, Kinds
<1>6. Fine(s, {}, {})
  BY <1>2, <1>3, <1>5 DEF Fine
<1> QED
  BY <1>6, FineIsSafe DEF s

LEMMA NextIsSafe == IInv /\ [Next]_vars => IInv'
<1> SUFFICES ASSUME IInv, [Next]_vars PROVE IInv'
  OBVIOUS
<1>1. CASE UNCHANGED vars
  <2>1. Now' = Now
    BY <1>1 DEF vars, Now
  <2> QED
    BY <2>1 DEF IInv
<1>2. ASSUME NEW l \in Layer, NEW o \in Output, NEW k \in Kind, NewLayer(l, o, k) PROVE IInv'
  BY <1>2, NewLayerSafe
<1>3. ASSUME NEW l \in Layer, NEW state \in State,
             CommitFirst(l, state) \/ CommitBuffer(l, state) \/ Commit(l, state)
      PROVE  IInv'
  BY <1>3, CommitFirstSafe, CommitBufferSafe, CommitSafe
<1>4. ASSUME NEW l \in Layer,
             CommitNothing(l) \/ CommitLate(l) \/ DestroyRole(l) \/ DestroySurface(l)
      PROVE  IInv'
  BY <1>4, EndsSafe, DestroySurfaceSafe
<1>5. ASSUME NEW o \in Output,
             PointerMotion(o) \/ CycleWorkspace(o) \/ OutputAdd(o) \/ OutputRemove(o)
      PROVE  IInv'
  BY <1>5, PointerMotionSafe, CycleWorkspaceSafe, OutputAddSafe, OutputRemoveSafe
<1>6. ASSUME NEW v \in View, ShowView(v) \/ HideView(v) PROVE IInv'
  BY <1>6, ShowViewSafe, HideViewSafe
<1>7. CASE QuitView \/ Lock \/ Unlock
  BY <1>7, QuitViewSafe, LockSafe, UnlockSafe
<1> QED
  BY <1>1, <1>2, <1>3, <1>4, <1>5, <1>6, <1>7 DEF Next

(* The inductive invariant of the layers and the focus holds in every state, *)
(* in one in which a handler met what is gone as far as the handler came.    *)
THEOREM LayerShellInvariant == Spec => []IInv
<1> QED
  BY InitIsSafe, NextIsSafe, PTL DEF Spec

(* Whoever has the keyboard is the one focus, a view or a layer, of the      *)
(* current workspace, nobody has it while the screen is locked, and the      *)
(* assertions of hikari_workspace_quit_view and hikari_lock_mode_enter hold.  *)
THEOREM KeysAlwaysGoToTheFocus == Spec => []KeysGoToTheFocus
<1>1. IInv => KeysGoToTheFocus
  <2> SUFFICES ASSUME IInv PROVE KeysGoToTheFocus
    OBVIOUS
  <2>1. /\ fault # "assert"
        /\ keyboard # NULL =>
             mode = "normal" /\ keyboard \in {focus_view[workspace], focus_layer[workspace]}
    BY DEF IInv, Safe, OneFocus, Now
  <2>2. focus_view[workspace] = NULL \/ focus_layer[workspace] = NULL
    BY DEF IInv, Safe, OneFocus, Now, States
  <2> QED
    BY <2>1, <2>2 DEF KeysGoToTheFocus
<1> QED
  BY <1>1, LayerShellInvariant, PTL

(* A layer that was unmapped is the focus of no workspace of its output, and *)
(* none leaves room for it (unmap of layer_shell.c).                         *)
THEOREM UnmappedLayersLeaveNothing == Spec => []GoneLayersLeaveNothing
<1>1. IInv => GoneLayersLeaveNothing
  <2> SUFFICES ASSUME IInv, NEW l \in Layer, NEW o \in outputs, l \in loose
               PROVE  /\ l \notin usable_area[o]
                      /\ focus_layer[o] = l => layer_output[l] # o
    BY DEF GoneLayersLeaveNothing
  <2>1. o \in Output
    BY DEF IInv, Safe, States, Now
  <2>2. Rooms(Now) /\ OneFocus(Now)
    BY DEF IInv, Safe, LayersFine
  <2> QED
    BY <2>1, <2>2 DEF Rooms, OneFocus, Now
<1> QED
  BY <1>1, LayerShellInvariant, PTL

(* From its initialization on a layer is once in the list of its output and  *)
(* of the layer it has committed, and in no other (hikari_layer_init,        *)
(* commit_handler); one that was unmapped and mapped again is in none.       *)
THEOREM LayersAreAlwaysListed == Spec => []LayersAreListed
<1>1. IInv => LayersAreListed
  <2> SUFFICES ASSUME IInv, fault = "none", NEW l \in Layer
               PROVE  LET places == {p \in outputs \X Kind : IsListed(Now, p[1], p[2], l)}
                      IN  /\ places \subseteq {<<layer_output[l], layer_kind[l]>>}
                          /\ \A o \in outputs, k \in Kind : IsInjective(layers[o][k])
                          /\ life[l] = "mapped" => (places = {} <=> l \in loose)
                          /\ life[l] = "mapped" /\ places # {} => layer_kind[l] = current[l].kind
    BY DEF LayersAreListed
  <2> DEFINE places == {p \in outputs \X Kind : IsListed(Now, p[1], p[2], l)}
  <2>1. LayersFine(Now, {}, {}) /\ Now \in States
    BY DEF IInv, Safe, Running, Now
  <2>2. outputs \subseteq Output
    BY <2>1 DEF States, Now
  <2>3. \A p \in places : p = <<layer_output[l], layer_kind[l]>> /\ l \notin loose
    <3> SUFFICES ASSUME NEW o \in outputs, NEW k \in Kind, IsListed(Now, o, k, l)
                 PROVE  layer_output[l] = o /\ layer_kind[l] = k /\ l \notin loose
      OBVIOUS
    <3>1. Listed(Now, {})
      BY <2>1 DEF LayersFine
    <3> QED
      BY <2>2, <3>1 DEF Listed, Now
  <2>4. \A o \in outputs, k \in Kind : IsInjective(layers[o][k])
    BY <2>1, <2>2 DEF LayersFine, Listed, Now
  <2>5. ASSUME life[l] = "mapped", l \notin loose
        PROVE  <<layer_output[l], layer_kind[l]>> \in places
    <3>1. /\ layer_output[l] \in outputs \cup {NULL} /\ layer_output[l] # NULL /\
                 layer_kind[l] # NULL
          /\ IsListed(Now, layer_output[l], layer_kind[l], l)
      BY <2>1, <2>5 DEF LayersFine, Known, Now
    <3>2. layer_kind[l] \in Kind
      BY <2>1, <3>1 DEF States, Now
    <3> QED
      BY <3>1, <3>2
  <2>6. life[l] = "mapped" /\ l \notin loose => layer_kind[l] = current[l].kind
    BY <2>1 DEF LayersFine, Kinds, Now
  <2> HIDE DEF places
  <2>7. /\ places \subseteq {<<layer_output[l], layer_kind[l]>>}
        /\ life[l] = "mapped" => (places = {} <=> l \in loose)
        /\ life[l] = "mapped" /\ places # {} => layer_kind[l] = current[l].kind
    BY <2>3, <2>5, <2>6
  <2> QED
    BY <2>4, <2>7 DEF places
<1> QED
  BY <1>1, LayerShellInvariant, PTL
=============================================================================
