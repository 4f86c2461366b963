SPECIFICATION Spec
CONSTANTS
    Ids <- MCIds
    Profiles <- MCProfiles
    WeightSuccess = 6
    WeightLatency = 3
    WeightCost = 1
    WeightTotal = 10
    MinSamples = 5
    MinForP95 = 5
    LatencyCeiling = 10
    ColdRate = 8
    ColdLatency = 5
    ColdScale = 10
    Unit = 10000
CHECK_DEADLOCK FALSE
INVARIANTS
    PercentileIsRight
    BetterScoresHigher
    StrategyIsTrue
