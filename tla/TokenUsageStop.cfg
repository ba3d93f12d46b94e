\* A stop that comes before the file was read.
SPECIFICATION Spec
CONSTANTS
    Events = {e1, e2}
    Readers = {r1}
    Consumer = Consumer
INVARIANTS StopLosesNothing
