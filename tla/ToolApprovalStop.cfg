\* The same tree: what becomes of a stop.
SPECIFICATION FairSpec
CONSTANTS
  Sessions <- TreeSessions
  Root <- TreeRoot
  AgentOf <- TreeAgentOf
  Calls <- TreeCalls
  SessionOf <- TreeSessionOf
  MaxPending = 1
  MaxRequests = 2
  SwallowsCancel = TRUE
PROPERTIES
  StopsComplete
CHECK_DEADLOCK FALSE
