\* A session tree on Python 3.10: two requests and a store for one.
SPECIFICATION FairSpec
CONSTANTS
  Sessions <- TreeSessions
  Root <- TreeRoot
  AgentOf <- TreeAgentOf
  Calls <- TreeCalls
  SessionOf <- TreeSessionOf
  MaxPending = 1
  MaxRequests = 2
  SwallowsCancel = TRUE
INVARIANTS
  RunsOnlyApproved
  WaiterCanBeAnswered
PROPERTIES
  ImplementsGate
  DecidedOnce
  StopLeavesNothing
  CallsAreUnblocked
CHECK_DEADLOCK FALSE
