SPECIFICATION FairSpec
CONSTANTS
  bad = bad
  refused = refused
  null = null
  Bad = bad
  Refused = refused
  NULL = null
  Builtin <- MCBuiltin
  Layout <- MCLayout
  EnvLayout = "us"
  Pool <- MCPool
  Files <- MCFiles
  Area <- MCArea
  Views <- MCViews
  Keyboard = {"k1", "k2"}
  Switch = {"lid"}
  Code = {1, 2}
  Symbols <- MCSymbols
  Modifiers <- MCModifiers
INVARIANTS
  DevicesAreCurrent
  LastBindingWins
PROPERTIES
  EndFollowsBegin
CHECK_DEADLOCK FALSE
