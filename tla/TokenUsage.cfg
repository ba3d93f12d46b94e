CONSTANTS
    Events = {e1, e2}
    Readers = {r1}
    Consumer = Consumer
SPECIFICATION FairSpec
INVARIANTS CountedOnce ViewComplete StopSavesAll
PROPERTIES EventuallySaved
