SPECIFICATION Spec
CONSTANTS
    View = {v1, v2}
    Output = {o1}
    Group = {g1, g2}
    Mark = {m1}
    Noop = noop
    SheetNr = {0, 1, 2}
    ViewConfig <- TwoConfigs
    Initial = {o1}
    Pluggable = {}
    NULL = NULL
    Freed = Freed
    g1 = g1
    g2 = g2
    m1 = m1
SYMMETRY ViewSymmetry
INVARIANTS MarksAgree FocusIsVisible NoAssertionFails
CHECK_DEADLOCK FALSE
