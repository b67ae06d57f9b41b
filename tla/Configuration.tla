----------------------------- MODULE Configuration -----------------------------
(***************************************************************************)
(* The configuration file and what is made of it (configuration.c,        *)
(* action.c, view_config.c, binding_config.c, keyboard_config.c,           *)
(* pointer_config.c, output_config.c).  A document is a sequence of        *)
(* sections, a section an object, an object a sequence of entries          *)
(* [key, value] in the order in which libucl iterates over them.  The       *)
(* parsers fill the lists of a fresh configuration; an entry is inserted at *)
(* the head of its list, and the first entry that a parser rejects refuses *)
(* the whole document.                                                     *)
(*                                                                         *)
(* A value of the wrong type or outside of its range is Bad, whichever it  *)
(* is; colours, paths, commands and most numbers are strings.              *)
(***************************************************************************)
EXTENDS Integers, FiniteSets, SequencesExt, Splits

CONSTANTS
  Bad,         \* a value that its parser rejects
  Refused,     \* the result of a parser that fails
  NULL,        \* no object, no command, no keymap
  Builtin,     \* the names of the actions that need no definition
  Layout,      \* the xkb layouts for which a keymap can be compiled
  EnvLayout,   \* XKB_DEFAULT_LAYOUT of the environment, or NULL
  Pool,        \* the sections that a document may have, a sequence
  Files,       \* the documents: sequences of indices of Pool
  Area,        \* the usable area of an output, a box
  Views        \* the views of a sheet: sequences of the sizes that they have

ASSUME EnvironmentCompiles == EnvLayout \in Layout \cup {NULL}

(* A parser walks over the entries of an object and gives up at the first  *)
(* that fails.                                                             *)
Entries(Parser(_, _), c, object) ==
  FoldLeft(LAMBDA d, e : IF d = Refused THEN Refused ELSE Parser(d, e), c, object)

Lookup(object, key) ==
  LET found == SelectSeq(object, LAMBDA e : e.key = key)
  IN  IF found = <<>> THEN NULL ELSE found[1].value

Keys(object) == {object[i].key : i \in DOMAIN object}

--------------------------------------------------------------------------------
(* Options: a value, and whether the document gives it (option.h).         *)

Default(value) == [configured |-> FALSE, value |-> value]
Given(value)   == [configured |-> TRUE, value |-> value]
MergeOver(own, star) == IF star.configured THEN Given(star.value) ELSE own
Merge(own, star) == IF own.configured THEN own ELSE Given(star.value)

SetOption(options, e) ==
  IF e.key \in DOMAIN options /\ e.value # Bad
    THEN [options EXCEPT ![e.key] = Given(e.value)]
    ELSE Refused

(* The list entry for a name, else the one for "*" (resolve_*_config).     *)
Resolve(list, name) ==
  LET named(n) == SelectSeq(list, LAMBDA l : l.name = n)
  IN  IF named(name) # <<>> THEN named(name)[1]
      ELSE IF named("*") # <<>> THEN named("*")[1] ELSE NULL

(* All entries but "*" take over what the "*" entry has and they have not. *)
MergeAll(MergeOne(_, _), list) ==
  LET star == Resolve(list, "*")
  IN  [i \in DOMAIN list |->
         IF star = NULL \/ list[i].name = "*" THEN list[i] ELSE MergeOne(list[i], star)]

--------------------------------------------------------------------------------
(* ui: an option that is not known is ignored here, everywhere else but in *)
(* outputs it is an error.                                                  *)

UiOption == {"font", "border", "gap", "step", "border_style", "corner_length"}
ColorKey == {"selected", "grouped", "first", "conflict", "insert", "foreground", "background"}
Corner   == {"nw", "ne", "sw", "se"}
Edge     == {"n", "s", "e", "w"} \cup Corner

Uniform(color) == [edges |-> [e \in Edge |-> color], corners |-> {}]

(* The base colour is looked for first, whatever its place in the object.  *)
ParseBorderColor(border, object) ==
  LET base    == Lookup(object, "base")
      based   == IF base = NULL THEN border ELSE IF base = Bad THEN Refused ELSE Uniform(base)
      rest    == SelectSeq(object, LAMBDA e : e.key # "base")
      Side(b, e) == IF e.value = Bad \/ e.key \notin Edge THEN Refused
                    ELSE [b EXCEPT !.edges[e.key] = e.value]
      colored == IF based = Refused THEN Refused ELSE Entries(Side, based, rest)
  IN  IF colored = Refused THEN Refused
      ELSE [colored EXCEPT !.corners = Keys(rest) \cap Corner]

ColorEntry(c, e) ==
  IF e.value = Bad \/ e.key \notin ColorKey \cup {"active", "inactive"} THEN Refused
  ELSE IF e.key \in ColorKey THEN [c EXCEPT !.colors[e.key] = e.value]
  ELSE LET border == ParseBorderColor(c.borders[e.key], e.value)
       IN  IF border = Refused THEN Refused ELSE [c EXCEPT !.borders[e.key] = border]

UiEntry(c, e) ==
  IF e.key = "colorscheme" THEN Entries(ColorEntry, c, e.value)
  ELSE IF e.key \notin UiOption THEN c
  ELSE IF e.value = Bad THEN Refused
  ELSE IF e.key = "border_style" /\ e.value = "mwm"
    THEN [c EXCEPT !.ui.border_style = "mwm", !.ui.corner_length = 20]
    ELSE [c EXCEPT !.ui[e.key] = e.value]

--------------------------------------------------------------------------------
(* views: the properties of a view and those of its children.              *)

Property == {"group", "sheet", "mark", "position", "focus", "invisible", "floating", "public"}

NoProperties ==
  [p \in Property |-> IF p \in {"group", "sheet", "mark"} THEN NULL
                      ELSE IF p = "position" THEN "auto" ELSE FALSE]

ParseProperty(properties, e) ==
  CASE e.key = "inherit" -> properties
    [] e.key \in Property /\ e.value # Bad -> [properties EXCEPT ![e.key] = e.value]
    [] OTHER -> Refused

(* An attribute to inherit is a name, an object with properties of the     *)
(* child's own (of which what precedes a mistake counts), or an error.     *)
InheritItem(own, child, item) ==
  IF item = Bad THEN Refused
  ELSE IF item.type = "name" THEN
    IF item.of = "publicview" THEN [child EXCEPT !.public = own.public]
    ELSE IF item.of \in Property \ {"public"} THEN [child EXCEPT ![item.of] = own[item.of]]
    ELSE child
  ELSE
    LET Wrong(j) == ParseProperty(NoProperties, item.of[j]) = Refused
        stop == Min({j \in DOMAIN item.of : Wrong(j)} \cup {Len(item.of) + 1})
    IN  Entries(ParseProperty, child, SubSeq(item.of, 1, stop - 1))

ViewEntryFromOwn(c, e) ==
  LET own   == Entries(ParseProperty, NoProperties, e.value)
      items == Lookup(e.value, "inherit")
      child == IF own = Refused \/ items = Bad THEN Refused
               ELSE IF items = NULL THEN own
               ELSE Entries(LAMBDA p, item : InheritItem(own, p, item), own, items)
  IN  IF child = Refused THEN Refused
      ELSE [c EXCEPT !.views = <<[name |-> e.key, own |-> own, child |-> child]>> \o @]

(* Without an inherit attribute the children share their parent's          *)
(* properties, with one they start from none.                              *)
ViewEntry(c, e) ==
  LET own     == Entries(ParseProperty, NoProperties, e.value)
      inherit == Lookup(e.value, "inherit")
      child   == IF own = Refused \/ inherit = Bad THEN Refused
                 ELSE IF inherit = NULL THEN own
                 ELSE Entries(LAMBDA p, item : InheritItem(own, p, item), NoProperties, inherit)
  IN  IF child = Refused THEN Refused
      ELSE [c EXCEPT !.views = <<[name |-> e.key, own |-> own, child |-> child]>> \o @]

ResolveView(c, app) ==
  LET found == SelectSeq(c.views, LAMBDA v : v.name = app)
  IN  IF found = <<>> THEN NULL ELSE found[1]

--------------------------------------------------------------------------------
(* layouts: a split, a container, or just the name of a tiling algorithm.   *)

Algorithm == {"queue", "stack", "full", "grid", "single", "empty"}
MostViews == 256
Capacity(algorithm) ==
  CASE algorithm = "single" -> 1 [] algorithm = "empty" -> 0 [] OTHER -> MostViews

ParseContainer(object) ==
  LET algorithm == Lookup(object, "layout")
      views     == Lookup(object, "views")
      counted   == algorithm \notin {"single", "empty"} /\ views \in 2 .. MostViews
  IN  IF algorithm \notin Algorithm \/ ~(Keys(object) \subseteq {"layout", "views"}) THEN Refused
      ELSE IF views = NULL THEN Container(algorithm, Capacity(algorithm))
      ELSE IF counted THEN Container(algorithm, views) ELSE Refused

ScaleValue == 10 .. 90

(* That the least scale is at most the largest is not asked for.            *)
ParseScale(scale) ==
  LET Bound(key, otherwise) ==
        LET written == Lookup(scale.of, key) IN IF written = NULL THEN otherwise ELSE written
  IN  IF scale = NULL THEN Fixed(50)
      ELSE IF scale = Bad THEN Refused
      ELSE IF scale.type = "float"
        THEN IF scale.of \in ScaleValue THEN Fixed(scale.of) ELSE Refused
      ELSE IF Bound("min", 10) \in ScaleValue /\ Bound("max", 90) \in ScaleValue
        THEN Dynamic(Bound("min", 10), Bound("max", 90)) ELSE Refused

(* The part that is written first is the dominant one.                      *)
RECURSIVE ParseSplit(_)
ParseSplit(value) ==
  LET object == value.of
      Place(key) == CHOOSE i \in DOMAIN object : object[i].key = key
      Parts(axis, first, second) ==
        LET scale    == ParseScale(Lookup(object, "scale"))
            parts    == <<ParseSplit(Lookup(object, first)), ParseSplit(Lookup(object, second))>>
            dominant == IF Place(first) < Place(second) THEN 1 ELSE 2
        IN  IF scale = Refused \/ \E i \in 1 .. 2 : parts[i] = Refused THEN Refused
            ELSE NewSplit(axis, scale, dominant, parts)
  IN  IF value = Bad THEN Refused
      ELSE IF value.type = "name" THEN
        IF object \in Algorithm THEN Container(object, Capacity(object)) ELSE Refused
      ELSE IF "layout" \in Keys(object) THEN ParseContainer(object)
      ELSE IF Keys(object) \ {"scale"} = {"left", "right"} THEN Parts("x", "left", "right")
      ELSE IF Keys(object) \ {"scale"} = {"top", "bottom"} THEN Parts("y", "top", "bottom")
      ELSE Refused

LayoutEntry(c, e) ==
  LET split == ParseSplit(e.value)
  IN  IF e.key = Bad \/ split = Refused THEN Refused
      ELSE [c EXCEPT !.layouts = <<[register |-> e.key, split |-> split]>> \o @]

--------------------------------------------------------------------------------
(* marks and actions.                                                      *)

Mark == {"a", "b"}

MarkEntry(c, e) ==
  IF e.key \notin Mark \/ e.value = Bad THEN Refused
  ELSE [c EXCEPT !.marks[e.key] = e.value]

ActionEntry(c, e) ==
  IF e.value = Bad THEN Refused
  ELSE [c EXCEPT !.actions = <<[name |-> e.key, command |-> e.value]>> \o @]

LookupAction(c, name) ==
  LET found == SelectSeq(c.actions, LAMBDA a : a.name = name)
  IN  IF found = <<>> THEN NULL ELSE found[1].command

LookupLayout(c, register) ==
  LET found == SelectSeq(c.layouts, LAMBDA l : l.register = register)
  IN  IF found = <<>> THEN NULL ELSE found[1].split

--------------------------------------------------------------------------------
(* What a key, a button or a switch does when it begins and when it ends.   *)

NoEvent      == [do |-> "none", arg |-> NULL]
GarbageEvent == [do |-> "garbage", arg |-> NULL]
NoAction     == [begin |-> NoEvent, end |-> NoEvent]
GarbageAction == [begin |-> GarbageEvent, end |-> GarbageEvent]

(* parse_binding: a known name, or the name of a user defined action.      *)
ParseBinding(c, name) ==
  IF name = Bad THEN Refused
  ELSE IF name \in Builtin THEN [do |-> name, arg |-> NULL]
  ELSE LET command == LookupAction(c, name)
       IN  IF command = NULL THEN Refused ELSE [do |-> "execute", arg |-> command]

(* A string is an object that has a begin only; a member that is not named *)
(* keeps what it held.                                                      *)
ParseAction(c, action, object) ==
  LET Event(name, old) == IF name = NULL THEN old ELSE ParseBinding(c, name)
      begin == Event(object.begin, action.begin)
      end   == Event(object.end, action.end)
  IN  IF Refused \in {begin, end} THEN Refused ELSE [begin |-> begin, end |-> end]

(* Keycodes are configured as xkb counts them, eight above the kernel's.    *)
ParseKey(key) ==
  IF key = Bad THEN Refused
  ELSE IF key.type = "code" THEN [key EXCEPT !.value = @ - 8] ELSE key

(* A button that is given by its name has the code of that name; one that    *)
(* is given by a number has none, the number is parsed and never stored.      *)
ParseButton(key) ==
  IF key = Bad THEN Refused
  ELSE IF key.type = "name" THEN [key EXCEPT !.type = "code"]
  ELSE [key EXCEPT !.type = "garbage", !.value = NULL]

KeyEntryLast(c, e) ==
  LET key    == ParseKey(e.key)
      action == IF key = Refused THEN Refused ELSE ParseAction(c, NoAction, e.value)
  IN  IF action = Refused THEN Refused
      ELSE [c EXCEPT !.keys = Append(@, [key |-> key, action |-> action])]

KeyEntry(c, e) ==
  LET key    == ParseKey(e.key)
      action == IF key = Refused THEN Refused ELSE ParseAction(c, NoAction, e.value)
  IN  IF action = Refused THEN Refused
      ELSE [c EXCEPT !.keys = <<[key |-> key, action |-> action]>> \o @]

ButtonEntry(c, e) ==
  LET key    == ParseButton(e.key)
      action == IF key = Refused THEN Refused ELSE ParseAction(c, NoAction, e.value)
  IN  IF action = Refused THEN Refused
      ELSE [c EXCEPT !.buttons = <<[key |-> key, action |-> action]>> \o @]

BindingsEntry(c, e) ==
  CASE e.key = "keyboard" -> Entries(KeyEntry, c, e.value)
    [] e.key = "mouse"    -> Entries(ButtonEntry, c, e.value)
    [] OTHER              -> Refused

--------------------------------------------------------------------------------
(* outputs                                                                 *)

OutputOptions == [background |-> Default(NULL), fit |-> Default("stretch"),
                  color |-> Default(NULL), position |-> Default("auto")]

(* A background is a path, or an object that must have a path.  Whether the *)
(* path is a string is not looked at, and a fit that the object does not     *)
(* give is one that nobody initialized.                                     *)
ParseBackground(o, value) ==
  LET path == Lookup(value.of, "path")
      fit  == Lookup(value.of, "fit")
  IN  IF value.type = "path" THEN [o EXCEPT !.background = Given(value.of)]
      ELSE IF path = NULL \/ fit = Bad \/ Keys(value.of) \ {"path", "fit"} # {} THEN Refused
      ELSE [o EXCEPT !.background = Given(IF path = Bad THEN NULL ELSE path),
                     !.fit = Given(IF fit = NULL THEN "garbage" ELSE fit)]

(* An option that is not known is reported and ignored.                     *)
OutputOption(o, e) ==
  IF e.key \notin {"background", "color", "position"} THEN o
  ELSE IF e.value = Bad THEN Refused
  ELSE IF e.key = "background" THEN ParseBackground(o, e.value)
  ELSE [o EXCEPT ![e.key] = Given(e.value)]

OutputEntry(c, e) ==
  LET o == Entries(OutputOption, OutputOptions, e.value)
  IN  IF o = Refused THEN Refused
      ELSE IF o.background.configured /\ o.color.configured THEN Refused
      ELSE [c EXCEPT !.outputs = <<[name |-> e.key, options |-> o]>> \o @]

MergeOutput(own, star) ==
  LET o == own.options  s == star.options
      bare == ~o.background.configured /\ ~o.color.configured
      Take(names) == [n \in DOMAIN o |-> IF n \in names THEN Merge(o[n], s[n]) ELSE o[n]]
  IN  [own EXCEPT !.options =
         Take(CASE bare /\ s.color.configured  -> {"color", "position"}
                [] bare /\ ~s.color.configured -> {"background", "fit", "position"}
                [] o.background.configured     -> {"fit", "position"}
                [] OTHER                       -> {"position"})]

ParseOutputs(c, object) ==
  LET parsed == Entries(OutputEntry, c, object)
  IN  IF parsed = Refused THEN Refused
      ELSE [parsed EXCEPT !.outputs = MergeAll(MergeOutput, @)]

--------------------------------------------------------------------------------
(* inputs: pointers                                                        *)

PointerOption == {"accel", "accel-profile", "disable-while-typing", "middle-emulation",
                  "natural-scrolling", "scroll-button", "scroll-method", "tap",
                  "tap-drag", "tap-drag-lock"}

PointerOptions ==
  [o \in PointerOption |-> Default(CASE o \in {"accel", "scroll-button"} -> "0"
                                     [] o = "accel-profile" -> "adaptive"
                                     [] o = "scroll-method" -> "no-scroll"
                                     [] OTHER -> "off")]

PointerEntry(c, e) ==
  LET o == Entries(SetOption, PointerOptions, e.value)
  IN  IF o = Refused THEN Refused
      ELSE [c EXCEPT !.pointers = <<[name |-> e.key, options |-> o]>> \o @]

MergePointer(own, star) ==
  [own EXCEPT !.options = [n \in PointerOption |-> Merge(@[n], star.options[n])]]

ParsePointers(c, object) ==
  LET parsed == Entries(PointerEntry, c, object)
  IN  IF parsed = Refused THEN Refused
      ELSE [parsed EXCEPT !.pointers = MergeAll(MergePointer, @)]

--------------------------------------------------------------------------------
(* inputs: keyboards.  Of the five xkb names the rules are left out, which *)
(* select a data base of keymaps and not a keymap.                          *)

XkbName == {"model", "layout", "variant", "options"}
NoNames == [n \in XkbName |-> Default(NULL)]
Repeat  == [rate |-> "25", delay |-> "600"]

KeyboardDefaults(name) ==
  [name |-> name, keymap |-> NULL, xkb |-> NoNames,
   repeat |-> [o \in DOMAIN Repeat |->
                 IF name = "*" THEN Given(Repeat[o]) ELSE Default(Repeat[o])]]

(* hikari_keyboard_config_default: what the environment says.              *)
StarKeyboard ==
  [KeyboardDefaults("*") EXCEPT
     !.xkb.layout = IF EnvLayout = NULL THEN @ ELSE Given(EnvLayout)]

(* load_xkb_file compiles the file and stores the keymap in a configuration *)
(* that goes on to say it has names: the keymap overwrites whether there are *)
(* rules, the other names are not touched, and the keymap is not used.      *)
KeyboardOption(k, e) ==
  IF e.value = Bad \/ e.key \notin DOMAIN Repeat \cup {"xkb"} THEN Refused
  ELSE IF e.key # "xkb" THEN [k EXCEPT !.repeat[e.key] = Given(e.value)]
  ELSE IF e.value.type = "file" THEN k
  ELSE LET names == Entries(SetOption, k.xkb, e.value.of)
       IN  IF names = Refused THEN Refused ELSE [k EXCEPT !.xkb = names]

KeyboardEntry(c, e) ==
  LET k == Entries(KeyboardOption, KeyboardDefaults(e.key), e.value)
  IN  IF k = Refused THEN Refused ELSE [c EXCEPT !.keyboards = <<k>> \o @]

MergeKeyboard(own, star) ==
  [own EXCEPT !.repeat = [o \in DOMAIN Repeat |-> Merge(@[o], star.repeat[o])],
              !.xkb    = [n \in XkbName |-> Merge(@[n], star.xkb[n])]]

ParseKeyboards(c, object) ==
  LET parsed == Entries(KeyboardEntry, c, object)
      list   == IF Resolve(parsed.keyboards, "*") = NULL
                  THEN <<StarKeyboard>> \o parsed.keyboards ELSE parsed.keyboards
  IN  IF parsed = Refused THEN Refused
      ELSE [parsed EXCEPT !.keyboards = MergeAll(MergeKeyboard, list)]

(* The keymap is compiled from the names; libxkbcommon takes the names that *)
(* are missing from the environment.                                        *)
CompileKeymap(names) ==
  LET layout == IF names.layout.value = NULL THEN EnvLayout ELSE names.layout.value
  IN  IF layout \in Layout \cup {NULL}
        THEN [names EXCEPT !.layout = layout,
                           !.model = @.value, !.variant = @.value, !.options = @.value]
        ELSE NULL

FinalizeKeyboards(c) ==
  LET list == IF c.keyboards = <<>> THEN <<StarKeyboard>> ELSE c.keyboards
      compiled == [i \in DOMAIN list |-> [list[i] EXCEPT !.keymap = CompileKeymap(list[i].xkb)]]
  IN  IF \E i \in DOMAIN list : compiled[i].keymap = NULL THEN Refused
      ELSE [c EXCEPT !.keyboards = compiled]

--------------------------------------------------------------------------------
(* inputs: switches, whose action nobody initializes.                      *)

SwitchEntry(c, e) ==
  LET action == ParseAction(c, GarbageAction, e.value)
  IN  IF action = Refused THEN Refused
      ELSE [c EXCEPT !.switches = <<[name |-> e.key, action |-> action]>> \o @]

ResolveSwitch(c, name) ==
  LET found == SelectSeq(c.switches, LAMBDA s : s.name = name)
  IN  IF found = <<>> THEN NULL ELSE found[1]

InputsEntry(c, e) ==
  CASE e.key = "pointers"  -> ParsePointers(c, e.value)
    [] e.key = "keyboards" -> ParseKeyboards(c, e.value)
    [] e.key = "switches"  -> Entries(SwitchEntry, c, e.value)
    [] OTHER               -> Refused

--------------------------------------------------------------------------------
(* hikari_configuration_init and hikari_configuration_load                  *)

Fresh ==
  [ui |-> [font |-> "monospace 10", border |-> 1, gap |-> 5, step |-> 100,
           border_style |-> "none", corner_length |-> 20],
   colors |-> [k \in ColorKey |-> NULL],
   borders |-> [active |-> Uniform("white"), inactive |-> Uniform("grey")],
   marks |-> [m \in Mark |-> NULL],
   views |-> <<>>, actions |-> <<>>, layouts |-> <<>>, keys |-> <<>>, buttons |-> <<>>,
   outputs |-> <<>>, pointers |-> <<>>, keyboards |-> <<>>, switches |-> <<>>]

Section(c, e) ==
  CASE e.key = "ui"       -> Entries(UiEntry, c, e.value)
    [] e.key = "views"    -> Entries(ViewEntry, c, e.value)
    [] e.key = "marks"    -> Entries(MarkEntry, c, e.value)
    [] e.key = "bindings" -> Entries(BindingsEntry, c, e.value)
    [] e.key = "outputs"  -> ParseOutputs(c, e.value)
    [] e.key = "inputs"   -> Entries(InputsEntry, c, e.value)
    [] e.key \in {"actions", "layouts"} -> c
    [] OTHER              -> Refused

LoadInOrder(document) ==
  LET Each(c, e) == CASE e.key = "actions" -> Entries(ActionEntry, c, e.value)
                     [] e.key = "layouts" -> Entries(LayoutEntry, c, e.value)
                     [] OTHER -> Section(c, e)
      loaded == Entries(Each, Fresh, document)
  IN  IF loaded = Refused THEN Refused ELSE FinalizeKeyboards(loaded)

(* Actions and layouts come first, wherever they are; the others in order. *)
Load(document) ==
  LET First(key, Parser(_, _), c) ==
        LET object == Lookup(document, key)
        IN  IF c = Refused \/ object = NULL THEN c ELSE Entries(Parser, c, object)
      named  == First("layouts", LayoutEntry, First("actions", ActionEntry, Fresh))
      loaded == IF named = Refused THEN Refused ELSE Entries(Section, named, document)
  IN  IF loaded = Refused THEN Refused ELSE FinalizeKeyboards(loaded)

--------------------------------------------------------------------------------
(* The file is read when the server starts, and again on every reload.     *)

VARIABLES
  file,   \* the document that the configuration is made of
  conf    \* hikari_configuration, NULL before it is loaded

Content(f) == [i \in DOMAIN f |-> Pool[f[i]]]

Loading ==
  /\ conf = NULL
  /\ conf' = Load(Content(file))
  /\ UNCHANGED file

LoadingSpec ==
  /\ file \in Files
  /\ conf = NULL
  /\ [][Loading]_<<file, conf>>

Loaded == conf \notin {NULL, Refused}

(* The order in which the user writes the sections does not matter: actions *)
(* are known to the bindings and switches wherever they are defined, and a  *)
(* document that is refused is refused in any order.                        *)
SectionOrderIsFree ==
  conf # NULL =>
    \A order \in [DOMAIN file -> DOMAIN file] :
      (\A i, j \in DOMAIN file : i # j => order[i] # order[j])
        => Load(Content([i \in DOMAIN file |-> file[order[i]]])) = conf

(* What the document says at a path of keys, NULL if nothing, and the first *)
(* of several answers.                                                      *)
Written(path) ==
  FoldLeft(LAMBDA object, key : IF object = NULL THEN NULL ELSE Lookup(object, key),
           Content(file), path)

WrittenXkb(keyboard) == Written(<<"inputs", "keyboards", keyboard, "xkb">>)
GivesFile(keyboard)  == WrittenXkb(keyboard) # NULL /\ WrittenXkb(keyboard).type = "file"
WrittenName(keyboard, name) ==
  IF WrittenXkb(keyboard) = NULL THEN NULL ELSE Lookup(WrittenXkb(keyboard).of, name)

FirstOf(own, star, otherwise) ==
  IF own # NULL THEN own ELSE IF star # NULL THEN star ELSE otherwise

(* A device or an output has what the document says of its name, failing   *)
(* that what it says of "*", failing that the default, although the entries *)
(* are merged after all of them are parsed and "*" may be any of them.      *)
(* This is about the xkb names of a keyboard.  A keymap is left out that the *)
(* keyboard or "*" gives as a file: share/man/man1/hikari.md:1098 says that  *)
(* it is used, and the code has the names of "*" or of the environment.      *)
NamedBeforeStar ==
  Loaded =>
    /\ \A i \in DOMAIN conf.pointers, o \in PointerOption :
         LET Says(name) == Written(<<"inputs", "pointers", name, o>>)
             p == conf.pointers[i]
         IN  p.options[o].value = FirstOf(Says(p.name), Says("*"), PointerOptions[o].value)
    /\ \A i \in DOMAIN conf.keyboards, o \in DOMAIN Repeat :
         LET Says(name) == Written(<<"inputs", "keyboards", name, o>>)
             k == conf.keyboards[i]
         IN  k.repeat[o].value = FirstOf(Says(k.name), Says("*"), Repeat[o])
    /\ \A i \in DOMAIN conf.keyboards :
         LET k == conf.keyboards[i]
         IN  \/ GivesFile(k.name) \/ GivesFile("*")
             \/ k.keymap.layout =
                  FirstOf(WrittenName(k.name, "layout"), WrittenName("*", "layout"), EnvLayout)
    /\ \A i \in DOMAIN conf.outputs :
         LET Says(name) == Written(<<"outputs", name, "position">>)
             o == conf.outputs[i]
         IN  o.options.position.value = FirstOf(Says(o.name), Says("*"), "auto")

(* A layout gives the views of a sheet boxes in the order of the sheet, each *)
(* view one and none left out between two that have one (but the one that a  *)
(* full grid passes over); all boxes lie within the usable area and its      *)
(* margin, and two boxes overlap only in a container that is full of views   *)
(* on top of each other: elsewhere the gap and the borders are between them. *)
LayoutsTile ==
  Loaded =>
    \A l \in Range(conf.layouts), views \in Views :
      LET ui      == conf.ui
          tiles   == Arrange(l.split, Area, views, ui)
          Within(box) ==
            \A a \in Axis :
              /\ box.size[a] > 0
              /\ box.at[a] >= Area.at[a] + ui.gap + ui.border
              /\ box.at[a] + box.size[a] <= Area.at[a] + Area.size[a] - ui.gap - ui.border
          Before(one, other, a) ==
            one.at[a] + one.size[a] + ui.gap + 2 * ui.border <= other.at[a]
          Apart(one, other) == \E a \in Axis : Before(one, other, a) \/ Before(other, one, a)
          SameFull(s, t) == s.layout = "full" /\ t.layout = "full" /\ s.frame = t.frame
      IN  \A i \in DOMAIN tiles :
            /\ Within(tiles[i].box)
            /\ i = 1 => tiles[1].view = 1
            /\ i > 1 =>
                 \/ tiles[i].view = tiles[i - 1].view + 1
                 \/ /\ tiles[i].view = tiles[i - 1].view + 2
                    /\ tiles[i - 1].layout = "grid"
                    /\ tiles[i].frame # tiles[i - 1].frame
            /\ \A j \in 1 .. i - 1 :
                 Apart(tiles[i].box, tiles[j].box) \/ SameFull(tiles[i], tiles[j])

(* share/man/man1/hikari.md:735: "the dominant part of the split should be   *)
(* scaled up or down", the part that is written first.  The container that   *)
(* is written first takes the share of the area that the scale says.         *)
DominantPartIsScaled ==
  Loaded =>
    \A l \in Range(conf.layouts), views \in Views :
      LET tiles    == Arrange(l.split, Area, views, conf.ui)
          axis     == l.split.axis
          room     == Shrink(Area, conf.ui.gap + conf.ui.border).size[axis]
          dominant == l.split.parts[l.split.dominant]
          scale    == Lookup(Written(<<"layouts", l.register>>).of, "scale")
          Scaled   == scale # NULL /\ scale.type = "float"
      IN  (l.split.type = "split" /\ dominant.type = "container" /\ tiles # <<>> /\ Scaled)
            => tiles[1].frame.size[axis] = ScaledSize(Fixed(scale.of), room, 0, conf.ui.gap)

(* A child view has exactly the properties that its parent's configuration  *)
(* passes on: those it lists by name, those it gives the child, and the     *)
(* default for all others; without a list it has the parent's own.  (public *)
(* is passed on under another name than its own.)                           *)
InheritanceIsExplicit ==
  Loaded =>
    \A i \in DOMAIN conf.views, p \in Property \ {"public"} :
      LET view  == conf.views[i]
          items == Written(<<"views", view.name, "inherit">>)
          Says(j) == IF items[j].type = "name" THEN items[j].of = p
                     ELSE Lookup(items[j].of, p) # NULL
          said  == {j \in DOMAIN items : Says(j)}
      IN  view.child[p] =
            IF items = NULL THEN view.own[p]
            ELSE IF said = {} THEN NoProperties[p]
            ELSE IF items[Max(said)].type = "name" THEN view.own[p]
            ELSE Lookup(items[Max(said)].of, p)

================================================================================
