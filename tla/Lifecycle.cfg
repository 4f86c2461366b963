\* An old and a new build of the service and the command line migration over
\* one Postgres, with a request, two subscribers and deaths anywhere.
SPECIFICATION FairSpec
CONSTANTS
    s1 = s1  s2 = s2  m1 = m1
    Servers = {s1, s2}
    Migrators = {m1}
    Build <- OldAndNew
    Payouts = {p1}
    Feeds = {f1, f2}
    MaxAttempts = 2
    MaxStarts = 3
    Nobody = Nobody
\* All starts are used up and every instance has ended: a finite instance stops.
CHECK_DEADLOCK FALSE
INVARIANTS
    TypeOK
    WorkIsCurrent
    AppliedInOrder
    ReadyIsTrue
    RequestsAreServed
    SubscribersArePinged
PROPERTIES
    StartEnds
    ShutdownEnds
