\* Two calls at a time on three agents, of which two may be loaded.
SPECIFICATION Spec
CONSTANTS
  Agents = {a, b, c}
  Tasks = {t1, t2}
  MaxActive = 2
  MaxWorkspaces = 3
  MaxCuts = 6
SYMMETRY Symmetry
INVARIANTS
  PoolBounded
  NoOrphans
  ServicesOpen
  OneStarter
CHECK_DEADLOCK FALSE
