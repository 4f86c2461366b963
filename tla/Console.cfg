\* A page, another reader of status(), a slow or failing broker and service.
SPECIFICATION Spec
CONSTANTS
    Parts = {switch}
    Page = thisPage
    Others = {other}
    Poll = 1
    Timeout = 2
    AskEvery = 3
    CacheTtl = 2
    BrokerTimeout = 1
    MaxTime = 11
    None = None
INVARIANTS
    TypeOK
    ShownWhileUp
    PanelIsRecent
PROPERTIES
    StatusIsFresh
