\* One event sent twice, two claim loops that overlap, every call may fail, and
\* Redis restarts once.
SPECIFICATION Spec
CONSTANTS
    e1 = e1
    Messages = {m1, m2}
    Events = {e1}
    EventOf <- SameEvent
    Kinds = {"outcome"}
    Readers = {r1}
    Claimers = {k1, k2}
    MaxDeliveries = 2
    BatchSize = 2
    MaxRestarts = 1
    NoMessage = NoMessage
SYMMETRY Symmetry
\* Everything sent and acknowledged: a finite instance stops.
CHECK_DEADLOCK FALSE
INVARIANTS
    TypeOK
    CountedOncePerKey
    AckedWasSeen
