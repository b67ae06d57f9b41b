SPECIFICATION Spec
CONSTANTS
  View = {v1, v2}
  Group = {g1, g2}
  Output = {o1, o2}
  Sheet = {0, 1}
  Root = root
  NULL = null
  Freed = freed
  Most = 4
  Stays = {o1}
SYMMETRY Symmetry
CONSTRAINT Few
CHECK_DEADLOCK FALSE
INVARIANT EachGroupIsReached
