CONSTANTS
  t = t
  u = u
  Tools = {t, u}
  Toolset = Toolset
  EmptyToolset = EmptyToolset
  NoToolset = NoToolset
  NoIndex = 1
  Scopes <- SomeScopes
SPECIFICATION Spec
INVARIANT BlockedStillConstructs
CHECK_DEADLOCK FALSE
