SPECIFICATION SpecEntries
CONSTANTS
  k = k
  NoKey = NoKey
  Keys <- MCKeys
  Bodies <- MCBodies
  Size = 3
INVARIANTS TypeOK ChangesAreChecked AnswerTellsEffect AgentUnderstood
  TransportsAgree
CHECK_DEADLOCK FALSE
