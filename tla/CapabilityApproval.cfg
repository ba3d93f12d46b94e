\* Two requests and two jobs at a time; ann decides, eve may only withdraw.
SPECIFICATION Spec
CONSTANTS
  Mcp = {"tool"}
  Plugins = {"plugin"}
  Users = {"ann", "eve"}
  Approvers = {"ann"}
  Enabled = TRUE
  SelfApproval = FALSE
  Ids = {r1, r2}
  Tasks = {t1, t2}
SYMMETRY Symmetry
INVARIANTS
  MadeIsSettled
  AppliedWasMade
  TwoPeople
  LoadedHasFiles
CHECK_DEADLOCK FALSE
