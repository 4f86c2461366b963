\* Two channels, callers that can reach both, one or none of them, three payouts
\* and two handlers: a failure opens a breaker and two good probes close it.
SPECIFICATION Spec
CONSTANTS
    c1 = c1  c2 = c2
    ChannelSeq <- TwoChannels
    Enabled <- Both
    Limits <- AnyLimit2
    Payouts = {p1, p2, p3}
    Handlers = {h1, h2}
    MinSamples = 1
    ThresholdNum = 1
    ThresholdDen = 2
    OpenMs = 1
    ProbesToClose = 2
    Window = 2
    SlotTtl = 1
    ProcessedTtl = 2
    MaxTime = 2
    NoChannel = NoChannel
    NoPayout = NoPayout
SYMMETRY Symmetry
\* Every payout is routed, every outcome handled, and the clock stands at
\* MaxTime: a finite instance stops.
CHECK_DEADLOCK FALSE
INVARIANTS
    TypeOK
    HalfOpenIsAged
    CountedOnce
    BlockIsJustified
PROPERTIES
    StandingBlockHolds
    
