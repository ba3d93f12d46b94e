\* A session that is never idle for long and one that may be swept.
SPECIFICATION FairSpec
CONSTANTS
  Keys = {"busy", "quiet"}
  Quiet = {"quiet"}
  Capacity = 1
  MaxMessages = 3
  MaxQueues = 3
INVARIANTS
  RegisteredIsAlive
  BusyKeysSerialized
  BusyLookupsHold
  BusyNeverIgnored
PROPERTIES
  MessagesAreHandled
  ImplementsMailbox
CHECK_DEADLOCK FALSE
