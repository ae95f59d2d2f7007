SPECIFICATION CommandSpec
CONSTANTS
  Lines <- MCLines
INVARIANTS TargetCwdIsKept
CHECK_DEADLOCK FALSE
