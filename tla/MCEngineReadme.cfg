SPECIFICATION EngineSpec
CONSTANTS
    root = root
    dump = dump
    critical = critical
    repeated = repeated
    dev = dev
    users = users
    NoReceiver = NoReceiver
    Root = root
    Route <- MCRoute
    Sub <- MCSub
    Drop <- MCDrop
    Match <- MCMatch
    Event <- PagedNode
    Given <- MCFollowed
    Env <- MCEnv
    Unset = Unset
    Malformed = Malformed
    Prefix <- MCPrefix
    TakenPrefix <- MCTakenPrefix
    Rule <- MCRule
    RouteNode <- MCRoute
    RootNode = root
    RulesOf <- MCRulesOf
    SubRoutes <- MCSubRoutes
    Followed <- MCFollowed
    FirstEvent <- MCFirstEvent
INVARIANTS
    RoutedAsDocumented
