SPECIFICATION FairSpec
CONSTANTS
    ping = ping
    pong = pong
    late = late
    odd = odd
    Leaf = Leaf
    Bad = Bad
    None = None
    Thread = {t1, t2}
    Class = {ping, pong, late}
    Handle = {ping, pong}
    Asks <- OwnHandle
    Fields <- LateCycle
    Unresolved = {late}
    MaxBuilds = 3
    MaxDepth = 0
INVARIANTS PublishedLanded ReferencesAccounted PlanFollowsFields CompiledOncePerThread
PROPERTIES CellsSettle
CHECK_DEADLOCK FALSE
