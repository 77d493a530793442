SPECIFICATION Spec
CONSTANTS
    ping = ping
    pong = pong
    late = late
    odd = odd
    Leaf = Leaf
    Bad = Bad
    None = None
    Thread = {t1, t2}
    Class = {ping, pong}
    Handle = {ping, pong}
    Asks <- OwnHandle
    Fields <- PlainCycle
    Unresolved = {}
    MaxBuilds = 2
    MaxDepth = 1
INVARIANTS NoIndexError
CHECK_DEADLOCK FALSE
