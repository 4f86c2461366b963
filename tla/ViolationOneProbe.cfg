\* Two probes are out on one HALF_OPEN channel, although the slot of the first
\* has not expired.
SPECIFICATION Spec
CONSTANTS
    c1 = c1  c2 = c2
    ChannelSeq <- OneChannel
    Enabled <- JustOne
    Limits <- NoLimit1
    Payouts = {p1, p2, p3, p4}
    Handlers = {h1}
    MinSamples = 1
    ThresholdNum = 1
    ThresholdDen = 2
    OpenMs = 1
    ProbesToClose = 2
    Window = 4
    SlotTtl = 3
    ProcessedTtl = 3
    MaxTime = 1
    NoChannel = NoChannel
    NoPayout = NoPayout
SYMMETRY Symmetry
\* Every payout is routed, every outcome handled, and the clock stands at
\* MaxTime: a finite instance stops.
CHECK_DEADLOCK FALSE
INVARIANTS
    OneProbeAtATime
