\* A request and a lookup in one instance, an operator in it and one in another.
SPECIFICATION Spec
CONSTANTS
    i1 = i1  i2 = i2  q1 = q1  l1 = l1  o1 = o1  o2 = o2
    Channels = {c1}
    Corridors = {ngn, other}
    DefaultCorridor = ngn
    Instances = {i1, i2}
    Requests = {q1}
    Lookups = {l1}
    Operators = {o1, o2}
    Home <- TwoInstances
    CacheTtl = 2
    MaxLag = 1
    MaxTime = 5
    MaxVersions = 2
    Empty = Empty
INVARIANTS
    StaleAtMostTtlAndLag
