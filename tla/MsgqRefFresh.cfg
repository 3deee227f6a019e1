CONSTANTS
  Owner = owner
  Others = {t1, t2}
  FreshRefc = {0}
  Wrap = 16
SPECIFICATION RefSpec
CHECK_DEADLOCK FALSE
INVARIANTS
  UsedAlive
