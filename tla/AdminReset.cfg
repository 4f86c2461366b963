\* Resets beside a reader, a claimer and a request; any step fails.
SPECIFICATION AdminSpec
CONSTANTS
    e1 = e1  c1 = c1
    Messages = {m1}
    Events = {e1}
    EventOf <- SameEvent
    Kinds = {"outcome", "broken"}
    Readers = {r1}
    Claimers = {k1}
    MaxDeliveries = 2
    BatchSize = 1
    MaxRestarts = 0
    NoMessage = NoMessage
    Channels = {c1}
    ChannelOf <- SameChannel
    NodeEnv = "test"
INVARIANTS
    NothingIsSkipped
PROPERTIES
    ResetIsComplete
    OldOutcomesStop
