SPECIFICATION FairSpec
CONSTANTS
    Clients = {c1}
    Requests <- AllRequests
    None = None
    Uuids = {"uuid"}
    RateLimitEnabled = TRUE
    Max <- OneOfEach
    VersioningEnabled = TRUE
    SupportedVersions = {"v1"}
INVARIANTS
    TypeOK
PROPERTIES
    ImplementsContract
    ProbesAreHonest
    RequestsAnswered
