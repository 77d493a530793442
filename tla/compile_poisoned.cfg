SPECIFICATION Spec
CONSTANTS
    ping = ping
    pong = pong
    late = late
    odd = odd
    Leaf = Leaf
    Bad = Bad
    None = None
    Thread = {t1}
    Class = {ping, pong, late}
    Handle = {ping, pong}
    Asks <- OwnHandle
    Fields <- LateCycle
    Unresolved = {late}
    MaxBuilds = 2
    MaxDepth = 1
INVARIANTS NoIndexError
CHECK_DEADLOCK FALSE
