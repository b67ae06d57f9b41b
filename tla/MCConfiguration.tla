---------------------------- MODULE MCConfiguration ----------------------------
(* Small documents: every section that a parser treats in its own way, in   *)
(* all orders, with one mistake per kind of section.                        *)
EXTENDS Configuration

CONSTANTS bad, refused, null, keymapFile

E(key, value) == [key |-> key, value |-> value]
Act(begin, end) == [begin |-> begin, end |-> end]
Key(mods, type, value) == [mods |-> mods, type |-> type, value |-> value]
NameOf(p) == [type |-> "name", of |-> p]
Own(object) == [type |-> "object", of |-> object]
Names(object) == [type |-> "names", of |-> object]
Name(algorithm) == [type |-> "name", of |-> algorithm]
Parts(object) == [type |-> "object", of |-> object]
Counted(algorithm, views) == Parts(<<E("views", views), E("layout", algorithm)>>)
Float(hundredths) == [type |-> "float", of |-> hundredths]
Between(least, most) == [type |-> "object", of |-> <<E("max", most), E("min", least)>>]
Image(path) == [type |-> "path", of |-> path]

MCBuiltin == {"lock", "reload"}
MCLayout == {"us", "de"}

MCPool ==
  << E("ui", <<E("border_style", "mwm"), E("corner_length", 5), E("theme", "x"), E("gap", 7),
               E("colorscheme", <<E("active", <<E("n", "red"), E("base", "blue")>>),
                                  E("first", "green")>>)>>),
     E("ui", <<E("gap", bad)>>),
     E("ui", <<E("colorscheme", <<E("active", <<E("up", "red")>>)>>)>>),
     E("actions", <<E("terminal", "sakura")>>),
     E("actions", <<E("terminal", bad)>>),
     E("layouts", <<E("s", Parts(<<E("scale", Between(50, 75)), E("left", Name("single")),
                                   E("right", Name("stack"))>>)),
                    E("q", Parts(<<E("scale", Float(75)), E("top", Name("single")),
                                   E("bottom", Name("queue"))>>)),
                    E("1", Name("grid")), E("f", Name("full"))>>),
     E("layouts", <<E("n", Parts(<<E("left", Counted("grid", 3)),
                                   E("right", Parts(<<E("bottom", Counted("full", 2)),
                                                      E("top", Name("grid"))>>))>>)),
                    E("e", Parts(<<E("right", Name("empty")), E("left", Name("stack"))>>))>>),
     E("layouts", <<E("d", Parts(<<E("scale", Float(70)), E("bottom", Counted("queue", 2)),
                                   E("top", Name("stack"))>>))>>),
     E("layouts", <<E("s", Parts(<<E("left", Name("single")), E("top", Name("stack"))>>))>>),
     E("layouts", <<E("s", Counted("single", 2))>>),
     E("layouts", <<E(bad, Name("full"))>>),
     E("layouts", <<E("a", Parts(<<E("scale", Float(95)), E("left", Name("full")),
                                   E("right", Name("full"))>>))>>),
     E("marks", <<E("a", "mail")>>),
     E("marks", <<E("1", "mail")>>),
     E("views", <<E("top", <<E("group", "monitor"), E("focus", TRUE),
                             E("inherit", <<NameOf("group"), NameOf("sheet"),
                                            Own(<<E("floating", TRUE)>>)>>)>>),
                  E("mail", <<E("sheet", "1")>>)>>),
     E("views", <<E("top", <<E("inherit", <<NameOf("public"), Own(<<E("sheet", "2"), E("size", "1")>>)>>),
                             E("sheet", "3"), E("public", TRUE), E("floating", TRUE)>>)>>),
     E("views", <<E("top", <<E("inherit", bad)>>)>>),
     E("bindings", <<E("keyboard", <<E(Key({"L"}, "code", 38), Act("lock", null)),
                                     E(Key({"L"}, "sym", "a"), Act("terminal", "reload"))>>)>>),
     E("bindings", <<E("mouse", <<E(Key({"L"}, "name", 272), Act("reload", null)),
                                  E(Key({}, "code", 273), Act("lock", null))>>),
                     E("keyboard", <<E(Key({}, "sym", "b"), Act(null, null))>>)>>),
     E("bindings", <<E("keyboard", <<E(bad, Act("lock", null))>>)>>),
     E("bindings", <<E("keyboard", <<E(Key({}, "sym", "b"), Act("browser", null))>>)>>),
     E("outputs", <<E("o1", <<E("background", Image("a.png"))>>),
                    E("*", <<E("color", "black"), E("position", "0,0")>>)>>),
     E("outputs", <<E("o1", <<E("color", "red"), E("mode", "4k")>>),
                    E("*", <<E("background", Own(<<E("path", "b.png"), E("fit", "tile")>>))>>)>>),
     E("outputs", <<E("*", <<E("background", Own(<<E("path", "b.png")>>))>>),
                    E("o1", <<E("position", "9,9")>>), E("o2", <<E("color", "red")>>)>>),
     E("outputs", <<E("o1", <<E("color", "red"), E("background", Image("a.png"))>>)>>),
     E("outputs", <<E("o1", <<E("background", Own(<<E("fit", "tile")>>))>>)>>),
     E("inputs", <<E("pointers", <<E("p1", <<E("accel", "1")>>),
                                   E("*", <<E("accel", "0.5"), E("tap", "on")>>)>>)>>),
     E("inputs", <<E("keyboards", <<E("k1", <<E("xkb", Names(<<E("layout", "de")>>))>>),
                                    E("*", <<E("rate", "30")>>), E("k2", <<E("delay", "1")>>)>>)>>),
     E("inputs", <<E("keyboards", <<E("*", <<E("xkb", Names(<<E("layout", "us"), E("options", "caps")>>))>>),
                                    E("k1", <<E("xkb", [type |-> "file", of |-> keymapFile])>>)>>),
                   E("pointers", <<E("p1", <<E("tap", "on")>>)>>)>>),
     E("inputs", <<E("keyboards", <<E("k1", <<E("rate", "40")>>)>>)>>),
     E("inputs", <<E("keyboards", <<E("k1", <<E("xkb", Names(<<E("layout", "xx")>>))>>)>>)>>),
     E("inputs", <<E("switches", <<E("lid", Act("lock", null))>>)>>),
     E("inputs", <<E("switches", <<E("lid", Act("terminal", "lock"))>>)>>),
     E("inputs", <<E("touch", <<>>)>>),
     E("theme", <<>>) >>

(* An output of 400 by 300 with a panel at its top, and up to seven views of *)
(* which the first is small, in between, or large.                           *)
MCArea == Box(0, 20, 400, 280)
MCViews == {[i \in 1 .. n |-> [x |-> size, y |-> size]] : n \in 1 .. 7, size \in {30, 220, 500}}

(* Documents of up to three sections, no section twice, and of three only    *)
(* with named actions.                                                       *)
MCFiles ==
  {f \in UNION {[1 .. n -> DOMAIN MCPool] : n \in 0 .. 3} :
     /\ \A i, j \in DOMAIN f : i # j => MCPool[f[i]].key # MCPool[f[j]].key
     /\ Len(f) = 3 => \E i \in DOMAIN f : f[i] = 4}
================================================================================
