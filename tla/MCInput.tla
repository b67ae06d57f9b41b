-------------------------------- MODULE MCInput --------------------------------
(* Two keyboards with different layouts, a lid, two keys.                   *)
EXTENDS Input

CONSTANTS bad, refused, null

E(key, value) == [key |-> key, value |-> value]
Act(begin, end) == [begin |-> begin, end |-> end]
Key(mods, type, value) == [mods |-> mods, type |-> type, value |-> value]
Xkb(layout) == E("xkb", [type |-> "names", of |-> <<E("layout", layout)>>])

MCBuiltin == {"lock", "reload", "grab"}
MCLayout == {"us", "de"}
MCSymbols == [l \in {"us", "de"} |->
                IF l = "us" THEN [c \in {1, 2} |-> IF c = 1 THEN "y" ELSE "z"]
                            ELSE [c \in {1, 2} |-> IF c = 1 THEN "z" ELSE "y"]]
MCModifiers == {{}, {"L"}}

MCPool ==
  << E("actions", <<E("talk", "unmute"), E("hush", "mute")>>),
     E("inputs", <<E("switches", <<E("lid", Act("lock", "hush"))>>),
                   E("keyboards", <<E("k1", <<Xkb("de")>>), E("*", <<Xkb("us")>>)>>)>>),
     E("inputs", <<E("keyboards", <<E("k1", <<Xkb("de")>>)>>),
                   E("switches", <<E("lid", Act("grab", "talk"))>>)>>),
     E("inputs", <<E("switches", <<E("lid", Act("talk", null))>>)>>),
     E("bindings", <<E("keyboard", <<E(Key({"L"}, "sym", "y"), Act("talk", "hush")),
                                     E(Key({"L"}, "code", 9), Act("grab", null)),
                                     E(Key({}, "sym", "x"), Act("lock", null)),
                                     E(Key({}, "sym", "z"), Act("reload", null))>>),
                     E("mouse", <<E(Key({"L"}, "name", 1), Act("lock", "talk")),
                                  E(Key({}, "code", 1), Act("hush", null))>>)>>),
     E("bindings", <<E("keyboard", <<E(Key({}, "code", 10), Act("reload", "hush")),
                                     E(Key({}, "sym", "y"), Act("lock", null)),
                                     E(Key({"L"}, "sym", "z"), Act("grab", "reload"))>>)>>),
     E("bindings", <<E("keyboard", <<E(Key({}, "code", 9), Act("browser", null))>>)>>) >>

MCArea == Box(0, 0, 400, 300)
MCViews == {}

MCFiles == {<<>>, <<1, 2, 5>>, <<6, 3, 1>>, <<4, 1, 6>>, <<1, 7, 3>>}
================================================================================
