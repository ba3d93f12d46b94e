\* A starter that is cancelled in its finally block leaves its agent pending.
SPECIFICATION Spec
CONSTANTS
  Agents = {a, b}
  Tasks = {t1, t2}
  MaxActive = 2
  MaxWorkspaces = 3
  MaxCuts = 1
SYMMETRY Symmetry
INVARIANTS
  CleansUp
CHECK_DEADLOCK FALSE
