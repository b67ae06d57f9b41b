--------------------------------- MODULE Input ---------------------------------
(***************************************************************************)
(* Keyboards, mouse bindings and switches, and the reload that exchanges    *)
(* the configuration under them (keyboard.c, cursor.c, switch.c,            *)
(* normal_mode.c, input_grab_mode.c, hikari_configuration_reload).          *)
(*                                                                         *)
(* Bindings and switches point to actions that the configuration owns.  A   *)
(* reload frees them: live says of a pointer that its configuration still  *)
(* is the one in force.  A handler runs to its end, so the operations below *)
(* map a state of the server (the record S) to the next.                    *)
(***************************************************************************)
EXTENDS Configuration

CONSTANTS
  Keyboard, Switch,   \* the names of the devices
  Code,               \* the key codes of the kernel
  Symbols,            \* the symbol of each key, for each xkb layout
  Modifiers           \* the sets of modifiers that may be held

ASSUME CodesAreNumbers == Code \subseteq Nat \ {0}

VARIABLES
  keyboards,   \* hikari_server.keyboards: the bindings of those plugged in
  cursor,      \* hikari_server.cursor.bindings
  switches,    \* hikari_server.switches
  mode,        \* the mode of the server
  modifiers,   \* hikari_server.keyboard_state.modifiers
  pending,     \* hikari_server.normal_mode.pending_action
  fault,       \* how the server crashed: an assertion, a call or read of no value
  ran,         \* the actions that the last event ran
  owed,        \* the end actions of the bindings that began
  lid          \* whether each switch physically is on

vars == <<file, conf, keyboards, cursor, switches, mode, modifiers, pending, fault, ran, owed, lid>>

S == [file |-> file, conf |-> conf, keyboards |-> keyboards, cursor |-> cursor,
      switches |-> switches, mode |-> mode, pending |-> pending, fault |-> fault,
      ran |-> <<>>, owed |-> owed]

Become(s) ==
  /\ file' = s.file /\ conf' = s.conf
  /\ keyboards' = s.keyboards /\ cursor' = s.cursor /\ switches' = s.switches
  /\ mode' = s.mode /\ pending' = s.pending /\ fault' = s.fault
  /\ ran' = s.ran /\ owed' = s.owed

(* What loading a document makes.  The code of a mouse binding that was not  *)
(* stored is whatever the memory held, 0 for those that no button has.       *)
Outcomes(c) ==
  LET open == {i \in DOMAIN c.buttons : c.buttons[i].key.type = "garbage"}
      Held(b, code) == [b EXCEPT !.key.type = "code", !.key.value = code]
  IN  IF c = Refused THEN {c}
      ELSE {[c EXCEPT !.buttons = [i \in DOMAIN @ |->
                                     IF i \in open THEN Held(@[i], held[i]) ELSE @[i]]] :
              held \in [open -> Code \cup {0}]}

Loads == [f \in Files |-> Outcomes(Load(Content(f)))]

Crash(s, how) == [s EXCEPT !.fault = how]
Runs(s) == s.fault = "none"

--------------------------------------------------------------------------------
(* The bindings of a device, by modifiers: a key that is bound by its symbol *)
(* is the first that has the symbol in the keymap, or the key 0.             *)

KeyCode(key, layout) ==
  IF key.type = "code" THEN key.value
  ELSE LET having == {c \in Code : Symbols[layout][c] = key.value}
       IN  IF having = {} THEN 0 ELSE Min(having)

Bindings(list, layout) ==
  [m \in Modifiers |->
     LET these == SelectSeq(list, LAMBDA b : b.key.mods = m)
     IN  [i \in DOMAIN these |->
            [code |-> KeyCode(these[i].key, layout), action |-> these[i].action]]]

(* The first binding for a code, NULL if there is none.                    *)
Bound(bindings, code) ==
  LET matching == {i \in DOMAIN bindings : bindings[i].code = code}
  IN  IF matching = {} THEN NULL ELSE bindings[Min(matching)].action

ConfigureKeyboard(s, k) ==
  LET config == Resolve(s.conf.keyboards, k)
  IN  IF config = NULL THEN Crash(s, "assert")
      ELSE IF config.keymap = NULL THEN Crash(s, "assert")
      ELSE [s EXCEPT !.keyboards[k] =
              [bindings |-> Bindings(s.conf.keys, config.keymap.layout), live |-> TRUE]]

ConfigureCursor(s) ==
  [s EXCEPT !.cursor = [bindings |-> Bindings(s.conf.buttons, NULL), live |-> TRUE]]

(* A switch that the configuration does not name loses its action, but goes *)
(* on listening once it was configured.                                     *)
ConfigureSwitchOnly(s, w) ==
  LET config == ResolveSwitch(s.conf, w)
  IN  IF config = NULL THEN s
      ELSE [s EXCEPT !.switches[w] =
              [@ EXCEPT !.action = config.action, !.listens = TRUE, !.live = TRUE]]

ConfigureSwitch(s, w) ==
  LET config == ResolveSwitch(s.conf, w)
  IN  IF config = NULL THEN [s EXCEPT !.switches[w].action = NULL]
      ELSE [s EXCEPT !.switches[w] =
              [@ EXCEPT !.action = config.action, !.listens = TRUE, !.live = TRUE]]

--------------------------------------------------------------------------------
(* hikari_configuration_reload: a document that is refused is discarded,    *)
(* else the old configuration is freed and all devices are configured anew. *)

Plugged(devices) == {d \in DOMAIN devices : devices[d] # NULL}

Freed(s) ==
  LET Stale(p) == IF p = NULL THEN NULL ELSE [p EXCEPT !.live = FALSE]
  IN  [s EXCEPT !.keyboards = [k \in Keyboard |-> Stale(@[k])], !.cursor = Stale(@),
                !.switches  = [w \in Switch |-> Stale(@[w])], !.pending = Stale(@)]

Each(Configure(_, _), s, devices) ==
  FoldLeft(LAMBDA t, d : IF Runs(t) THEN Configure(t, d) ELSE t, s, SetToSeq(devices))

Reload(s, env) ==
  LET c     == env.conf
      owned == [Freed(s) EXCEPT !.file = env.file, !.conf = c]
      keyed == Each(ConfigureKeyboard, ConfigureCursor(owned), Plugged(s.keyboards))
  IN  IF c = Refused THEN s ELSE Each(ConfigureSwitch, keyed, Plugged(s.switches))

--------------------------------------------------------------------------------
(* Actions.  env is what they find: the file on the disk, with what loading *)
(* it makes, and whether a view has the focus.  Actions that touch none of *)
(* this are "execute".                                                     *)

EnterNormalIdle(s) == [s EXCEPT !.mode = "normal", !.pending = NULL]
EnterNormal(s) == [s EXCEPT !.mode = "normal"]

Run(s, event, what, by, env) ==
  LET t == [s EXCEPT !.ran = Append(@, [what |-> what, by |-> by])]
  IN  CASE event.do \in {"none", "garbage"} -> Crash(s, "call")
        [] event.do = "reload"  -> Reload(t, env)
        [] event.do = "lock"    -> [t EXCEPT !.mode = "lock"]
        [] event.do = "grab"    -> IF env.focused THEN [t EXCEPT !.mode = "grab"] ELSE t
        [] event.do = "execute" -> t

(* handle_pending_action: the pointer is cleared after the action has run.  *)
HandlePending(s, env) ==
  IF ~s.pending.live THEN Crash(s, "dangling")
  ELSE LET t == Run([s EXCEPT !.owed = @ \ {s.pending.event}], s.pending.event, "end", "binding", env)
       IN  [t EXCEPT !.pending = NULL]

(* handle_input, with the bindings of a device for the modifiers that are   *)
(* held; the end action waits for the next event.                           *)
HandleInput(s, device, code, env) ==
  LET action == Bound(device.bindings[modifiers], code)
      armed  == IF action.end.do = "none" THEN s
                ELSE [s EXCEPT !.pending = [event |-> action.end, live |-> TRUE],
                               !.owed = @ \cup {action.end}]
  IN  IF action = NULL THEN s
      ELSE IF ~device.live THEN Crash(s, "dangling")
      ELSE IF action.begin.do = "none" THEN armed
      ELSE Run(armed, action.begin, "begin", "binding", env)

(* A press or a release in normal mode, of a key or of a button.            *)
NormalEvent(s, device, code, pressed, env) ==
  IF s.pending # NULL THEN HandlePending(s, env)
  ELSE IF pressed THEN HandleInput(s, device, code, env) ELSE s

(* The mode that passes all keys on is left by the binding that enters it.  *)
GrabEvent(s, device, code, pressed) ==
  LET action == Bound(device.bindings[modifiers], code)
  IN  IF ~pressed \/ action = NULL THEN s
      ELSE IF ~device.live THEN Crash(s, "dangling")
      ELSE IF action.begin.do = "grab" THEN EnterNormal(s) ELSE s

(* execute_action of switch.c                                              *)
Execute(s, event, what, w, env) ==
  IF s.mode = "lock" THEN s
  ELSE Run(IF s.mode = "normal" THEN s ELSE EnterNormal(s), event, what, w, env)

(* toggle_handler: the address of begin is NULL when there is no action,    *)
(* that of end is not.  The second condition follows on the first one.      *)
TurnOn(s, w, env) ==
  LET swtch == s.switches[w]
      begun == IF swtch.action = NULL THEN s
               ELSE IF ~swtch.live THEN Crash(s, "dangling")
               ELSE Execute(s, swtch.action.begin, "begin", w, env)
  IN  IF swtch.state = "off" THEN [begun EXCEPT !.switches[w].state = "on"] ELSE s

TurnOff(s, w, env) ==
  LET swtch == s.switches[w]
      ended == IF swtch.action = NULL THEN Crash(s, "call")
               ELSE IF ~swtch.live THEN Crash(s, "dangling")
               ELSE Execute(s, swtch.action.end, "end", w, env)
  IN  IF Runs(s) /\ swtch.state = "on" THEN [ended EXCEPT !.switches[w].state = "off"] ELSE s

--------------------------------------------------------------------------------
(* The events                                                              *)

Init ==
  /\ file \in Files
  /\ conf \in Loads[file] /\ conf # Refused
  /\ keyboards = [k \in Keyboard |-> NULL]
  /\ cursor = [bindings |-> Bindings(conf.buttons, NULL), live |-> TRUE]
  /\ switches = [w \in Switch |-> NULL]
  /\ mode = "normal" /\ modifiers = {} /\ pending = NULL
  /\ fault = "none" /\ ran = <<>> /\ owed = {}
  /\ lid = [w \in Switch |-> FALSE]

Running == fault = "none"

Environment ==
  UNION {{[file |-> f, conf |-> c, focused |-> b] : c \in Loads[f], b \in BOOLEAN} : f \in Files}

Handled(device, code, pressed, env) ==
  CASE mode = "normal" -> NormalEvent(S, device, code, pressed, env)
    [] mode = "grab"   -> GrabEvent(S, device, code, pressed)
    [] mode = "lock"   -> S

KeyEvent(k, code, pressed, env) ==
  /\ Running /\ keyboards[k] # NULL
  /\ Become(Handled(keyboards[k], code, pressed, env))
  /\ UNCHANGED <<modifiers, lid>>

ButtonEvent(code, pressed, env) ==
  /\ Running /\ mode = "normal"
  /\ Become(NormalEvent(S, cursor, code, pressed, env))
  /\ UNCHANGED <<modifiers, lid>>

ModifiersEvent(k, held) ==
  /\ Running /\ keyboards[k] # NULL
  /\ modifiers' = held /\ Become(S)
  /\ UNCHANGED lid

Toggle(w, env) ==
  /\ Running /\ switches[w] # NULL /\ switches[w].listens
  /\ lid' = [lid EXCEPT ![w] = ~@]
  /\ Become(TurnOff(TurnOn(S, w, env), w, env))
  /\ UNCHANGED modifiers

PlugKeyboard(k) ==
  /\ Running /\ keyboards[k] = NULL
  /\ Become(ConfigureKeyboard(S, k))
  /\ UNCHANGED <<modifiers, lid>>

UnplugKeyboard(k) ==
  /\ Running /\ keyboards[k] # NULL
  /\ Become([S EXCEPT !.keyboards[k] = NULL])
  /\ UNCHANGED <<modifiers, lid>>

PlugSwitch(w) ==
  /\ Running /\ switches[w] = NULL
  /\ LET fresh == [state |-> "off", action |-> NULL, listens |-> FALSE, live |-> TRUE]
     IN  Become(ConfigureSwitch([S EXCEPT !.switches[w] = fresh], w))
  /\ UNCHANGED <<modifiers, lid>>

UnplugSwitch(w) ==
  /\ Running /\ switches[w] # NULL
  /\ Become([S EXCEPT !.switches[w] = NULL])
  /\ UNCHANGED <<modifiers, lid>>

(* The password was right (module Session).                                *)
Unlock ==
  /\ Running /\ mode = "lock"
  /\ Become(EnterNormal(S))
  /\ UNCHANGED <<modifiers, lid>>

NormalKey ==
  /\ mode = "normal"
  /\ \E k \in Keyboard, code \in Code, pressed \in BOOLEAN, env \in Environment :
       KeyEvent(k, code, pressed, env)

Next ==
  \/ \E k \in Keyboard, code \in Code, pressed \in BOOLEAN, env \in Environment :
       KeyEvent(k, code, pressed, env)
  \/ \E code \in Code, pressed \in BOOLEAN, env \in Environment :
       ButtonEvent(code, pressed, env)
  \/ \E k \in Keyboard, held \in Modifiers : ModifiersEvent(k, held)
  \/ \E w \in Switch, env \in Environment : Toggle(w, env)
  \/ \E k \in Keyboard : PlugKeyboard(k) \/ UnplugKeyboard(k)
  \/ \E w \in Switch : PlugSwitch(w) \/ UnplugSwitch(w)
  \/ Unlock

Spec == Init /\ [][Next]_vars

(* The user who locked the screen unlocks it, and goes on using a keyboard. *)
FairSpec == Spec /\ SF_vars(NormalKey) /\ WF_vars(Unlock)

--------------------------------------------------------------------------------
(* After every reload, plug and unplug, the devices point into the          *)
(* configuration in force and not into one that was freed, and a switch has *)
(* the action that the configuration in force gives it, if any.             *)
DevicesAreCurrent ==
  /\ cursor.live
  /\ \A k \in Plugged(keyboards) : keyboards[k].live
  /\ \A w \in Plugged(switches) :
       LET config == ResolveSwitch(conf, w)
       IN  IF config = NULL THEN switches[w].action = NULL
           ELSE switches[w].live /\ switches[w].action = config.action

(* A key does what the last line says that the document has for it, be it  *)
(* bound by its code or by the symbol that it has on that keyboard.         *)
LastBindingWins ==
  \A k \in Plugged(keyboards), m \in Modifiers, code \in Code :
    LET layout == FirstOf(WrittenName(k, "layout"), WrittenName("*", "layout"), EnvLayout)
        lines  == Written(<<"bindings", "keyboard">>)
        Means(key) == IF key.type = "code" THEN key.value - 8 = code
                      ELSE /\ Symbols[layout][code] = key.value
                           /\ \A c \in Code : Symbols[layout][c] = key.value => code <= c
        said   == {i \in DOMAIN lines : lines[i].key.mods = m /\ Means(lines[i].key)}
    IN  Bound(keyboards[k].bindings[m], code) =
          IF lines = NULL THEN NULL
          ELSE IF said = {} THEN NULL
          ELSE ParseAction(conf, NoAction, lines[Max(said)].value)

(* The manual, share/man/man1/hikari.md:562: the end action is triggered     *)
(* when a key is released or another one is pressed, and a begin action is   *)
(* definitely followed by it, if need be after the screen was locked and    *)
(* unlocked.  (Not while all keys are passed on or no keyboard is left, and  *)
(* not after a reload that freed it.)                                       *)
EndFollowsBegin ==
  (owed # {}) ~> (owed = {} \/ mode = "grab" \/ Plugged(keyboards) = {} \/ ~Running)

================================================================================
