SPECIFICATION Spec
CONSTANTS
    View = {v1}
    Output = {o1, o2}
    Group = {g1}
    Mark = {}
    Noop = noop
    SheetNr = {0, 1}
    ViewConfig <- OneConfig
    Initial = {}
    Pluggable = {o1, o2}
    NULL = NULL
    Freed = Freed
    g1 = g1
    g2 = g2
    m1 = m1
INVARIANTS TypeOK WorkspacesAreLive LockHasNoFocus
CHECK_DEADLOCK FALSE
