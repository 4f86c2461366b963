\* Two versions of each service, two rows that disagree, pipelines cancelled
\* and failing anywhere.
SPECIFICATION FairSpec
CONSTANTS
    Versions = {1, 2}
    Others = {1, 2}
    Breaks <- TwoBreaks
    AllowNoContracts = FALSE
    MaxPolls = 2
\* Everything is pushed, verified and deployed: a finite instance stops.
CHECK_DEADLOCK FALSE
INVARIANTS
    TypeOK
    GreenIsVerified
    RecordedWasLive
PROPERTIES
    JudgedOnSomething
    ShipsWhatWasCompared
    GateEnds
