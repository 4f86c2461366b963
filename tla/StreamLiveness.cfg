\* A message of any kind, whatever fails, and Redis restarts once.
SPECIFICATION FairSpec
CONSTANTS
    e1 = e1
    Messages = {m1}
    Events = {e1}
    EventOf <- SameEvent
    Kinds = {"outcome", "broken", "newer"}
    Readers = {r1}
    Claimers = {k1}
    MaxDeliveries = 2
    BatchSize = 1
    MaxRestarts = 1
    NoMessage = NoMessage
\* Everything sent and acknowledged: a finite instance stops.
CHECK_DEADLOCK FALSE
PROPERTIES
    StreamDrains
