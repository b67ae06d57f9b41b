SPECIFICATION LoadingSpec
CONSTANTS
  bad = bad
  refused = refused
  null = null
  keymapFile = keymapFile
  Bad = bad
  Refused = refused
  NULL = null
  Builtin <- MCBuiltin
  Layout <- MCLayout
  EnvLayout = "de"
  Pool <- MCPool
  Files <- MCFiles
  Area <- MCArea
  Views <- MCViews
INVARIANT DominantPartIsScaled
CHECK_DEADLOCK FALSE
