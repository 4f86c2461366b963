\* Every request ends when Redis answers or refuses each command.
SPECIFICATION RedisAnswers
CONSTANTS
    c1 = c1  c2 = c2
    ChannelSeq <- OneChannel
    Enabled <- JustOne
    Limits <- NoLimit1
    Payouts = {p1, p2, p3}
    Handlers = {h1}
    MinSamples = 1
    ThresholdNum = 1
    ThresholdDen = 2
    OpenMs = 1
    ProbesToClose = 1
    Window = 2
    SlotTtl = 1
    ProcessedTtl = 1
    MaxTime = 1
    NoChannel = NoChannel
    NoPayout = NoPayout
\* Every payout is routed, every outcome handled, and the clock stands at
\* MaxTime: a finite instance stops.
CHECK_DEADLOCK FALSE
PROPERTIES
    RouteEnds
