\* Two runs of one chat and one external run, two streams.
SPECIFICATION FairSpec
CONSTANTS
  Chats = {"chat"}
  ExternalKeys = {"ext"}
  Streams = {"s1", "s2"}
  MaxRuns = 3
  MaxEvents = 2
INVARIANTS
  NothingMissed
  ClosedStreamsDetached
  OneProducerPerChat
PROPERTIES
  ImplementsLog
  StreamsAreReleased
CHECK_DEADLOCK FALSE
