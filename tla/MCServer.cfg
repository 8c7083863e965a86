SPECIFICATION ServerFairSpec
CONSTANTS
    s1 = s1
    s2 = s2
    s3 = s3
    a = a
    b = b
    Service = {s1, s2, s3}
    NameOf <- Names3
    NoService = NoService
    NoName = NoName
    Batches <- MCBatches
    MaxHooks = 12
    MaxCalls = 4
    Unnamed = Unnamed
    NoValue = NoValue
    Interface = {"store"}
    Methods <- MCMethods
    NilValue = NilValue
    Runner = {r1, r2}
    Self = r1
    DbOrder <- Order
    Databases = {"d1", "d2"}
    Eligible = {"d1"}
    Nobody = Nobody
    Providers = {"trace"}
    RedisDbs <- Redises
    Configured <- MCConfigured
    Needs <- MCNeeds
    Given <- AllGiven
    Foreign <- FewForeign
    Ops = {"none", "up"}
    Request = {q1}
    Prompt = TRUE
    MaxOthers = 1
CHECK_DEADLOCK FALSE
INVARIANTS DependencyOrder AllOrNone NoUseAfterClose ResourcesClosed DefaultsUsable LockExact
PROPERTY SignalEnds
