SPECIFICATION Spec
CONSTANT MaxArgs = 2
INVARIANTS SettingsHaveTheirSource AgentSends FileArgument
CHECK_DEADLOCK FALSE
