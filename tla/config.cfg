SPECIFICATION LoadingSpec
CONSTANTS
  bad = bad
  refused = refused
  null = null
  keymapFile = keymapFile
  Bad = bad
  Refused = refused
  NULL = null
  Builtin <- MCBuiltin
  Layout <- MCLayout
  EnvLayout = "de"
  Pool <- MCPool
  Files <- MCFiles
  Area <- MCArea
  Views <- MCViews
INVARIANTS
  SectionOrderIsFree
  NamedBeforeStar
  LayoutsTile
  InheritanceIsExplicit
CHECK_DEADLOCK FALSE
