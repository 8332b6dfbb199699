\* One daily subscription.
SPECIFICATION Spec
CONSTANTS
    each = each
    colliding = colliding
    daily = daily
    author = author
    other = other
    path = path
    elsewhere = elsewhere
    client = client
    second = second
    Subs = {daily}
    NoSub = NoSub
    Daily = {daily}
    Filter <- MCFilter
    Results <- MCResults
    NoResult = NoResult
    CRC32 <- MCCRC32
    Tokens = {t1, t2}
    Workers = {w1}
INVARIANTS
    DailyLinkEnds
