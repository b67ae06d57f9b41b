SPECIFICATION Spec
CONSTANTS
  Output = {o1, o2}
  Stays = o1
  o1 = o1
  Layer = {l1, l2}
  View = {v1}
  State <- MCState
  NULL = NULL
SYMMETRY LayerSymmetry
INVARIANTS KeysGoToTheFocus GoneLayersLeaveNothing LayersAreListed
CHECK_DEADLOCK FALSE
