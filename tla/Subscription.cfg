\* Three subscriptions, three requests, two workers.
SPECIFICATION Spec
CONSTANTS
    each = each
    colliding = colliding
    daily = daily
    author = author
    other = other
    path = path
    elsewhere = elsewhere
    client = client
    second = second
    Subs = {each, colliding, daily}
    NoSub = NoSub
    Daily = {daily}
    Filter <- MCFilter
    Results <- MCResults
    NoResult = NoResult
    CRC32 <- MCCRC32
    Tokens = {t1, t2, t3}
    Workers = {w1, w2}
SYMMETRY MCSymmetry
INVARIANTS
    TypeOK
    OnlyConfirmedMailed
    MailsAsked
    EndedStaysEnded
    EachLinkEnds
