SPECIFICATION Spec
CONSTANTS
  k = k
  NoKey = NoKey
  Keys <- MCKeys
  Bodies <- MCBodies
  Size = 2
INVARIANT BodyDecodes
CHECK_DEADLOCK FALSE
