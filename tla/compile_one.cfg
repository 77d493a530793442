SPECIFICATION FairSpec
CONSTANTS
    ping = ping
    pong = pong
    late = late
    odd = odd
    Leaf = Leaf
    Bad = Bad
    None = None
    Thread = {t1}
    Class = {ping, pong, late, odd}
    Handle = {ping, pong, late, odd}
    Asks <- OwnHandle
    Fields <- SoundCycle
    Unresolved = {late}
    MaxBuilds = 4
    MaxDepth = 2
INVARIANTS TypeOK NoIndexError CompiledOnce
PROPERTIES KeepsContract CallReturns
CHECK_DEADLOCK FALSE
