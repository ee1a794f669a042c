\* A request, an administrator who saves rule sets, two back ends, five tables
CONSTANTS
    deepseek = deepseek
    custom = custom
    mock = mock
    ds1 = ds1
    ds2 = ds2
    own = own
    cheap = cheap
    fast = fast
    i1 = i1
    i2 = i2
    Models = {ds1, ds2, own, cheap, fast}
    Providers = {deepseek, custom, mock}
    PrefixOf <- ProvidersPrefix
    Mock = mock
    Ids = {i1, i2}
    Tables <- SmallTables
    RuleSets <- SmallRuleSets
    Prompts = {1, 2, 3}
    Unlimited = 4
    Clients = {c1}
    Setters = {s1}
    Nothing = Nothing
SPECIFICATION RoutingSpec
INVARIANTS
    RouteIsSound
    TiersInOrder
    CandidatesTried
PROPERTY
    CrashKeepsRules
