\* The caches: one thread, four filters and room for three, five expressions and room for
\* three.  Paging: up to four commits on pages of up to three.  Cookies: two processes, two
\* sessions.  Command lines of up to four words, outputs of up to four lines.  Start-up: two
\* processes, two versions.  Backup: two results.  Updates: two runs
\* of up to three commits, two in a batch.  Status: two clients.
SPECIFICATION PartsSpec
CONSTANTS
    Threads = {t1}
    Filters = {f1, f2, f3, f4}
    NoFilter = NoFilter
    Size = 3
    Expiration = 2
    MaxCache = 4
    Callers = {t1}
    Regexps = {r1, r2, r3, r4, malformed}
    NoRegexp = NoRegexp
    Malformed = {malformed}
    Handles = {h1, h2, h3, h4}
    NoHandle = NoHandle
    CACHE_SIZE = 3
    MaxTotal = 4
    MaxSize = 3
    Users = {u1, u2}
    Sessions = {c1, c2}
    NoSession = NoSession
    Unreadable = Unreadable
    Words = {"help", "accept", "submit", "multirun", "state", "delete", "nolock", "utc", "start", "end", "x"}
    MaxWords = 4
    Counters = {"ok", "errors"}
    Values = {1}
    MaxLines = 4
    Servers = {w1, w2}
    Versions <- MCVersions
    Backends = {"sqlite", "oracle"}
    None = None
    Results = {res1, res2}
    Submissions = {s1}
    Nothing = Nothing
    Uids = {uid1, uid2, uid3}
    Updates = {q1, q2}
    NoUpdate = NoUpdate
    Batch = 2
    MaxPosted = 3
    Builders = {b1, b2}
    Tests = {0, 1, 20000}
    NoResult = NoResult
INVARIANTS
    PartsTypeOK
    CacheBounded
    OneEntryPerFilter
    OwnFreshCount
    HandlesAccounted
    RightExpression
    MostRecentKept
    EachCommitOnOnePage
    LinksLead
    OwnSession
    ActionMeant
    TimesMeant
    CountsExact
    SchemaCurrent
    ArchiveMatches
    CommitsKept
    NoFalseOK
    NothingHidden
PROPERTIES
    
    ImportRestores
    EvictsLeastRecentlyUsed
    NothingSkipped
CHECK_DEADLOCK FALSE
