\* Two channels read in one pipeline.
SPECIFICATION Spec
CONSTANTS
    c1 = c1  c2 = c2
    Channels = {c1, c2}
    Outcomes = {o1, o2}
    Writers = {w1}
    Readers = {r1}
    Pipelines <- BothOrOne
    BucketMs = 2
    WindowMs = 3
    SecondMs = 4
    MaxSamples = 1
    MaxDelay = 1
    StartTime = 4
    MaxTime = 17
    NoOutcome = NoOutcome
SYMMETRY Symmetry
\* The clock stands at MaxTime and every outcome is recorded.
CHECK_DEADLOCK FALSE
PROPERTIES
    CountsAreExact
INVARIANTS
    SeriesIsExact
    SamplesAreNewest
    OldBucketsGo
