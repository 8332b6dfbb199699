\* Two locking processes.
SPECIFICATION Spec
CONSTANTS
    Procs = {p1, p2}
    Commits = {1}
    Me = me
    NoCommit = NoCommit
    MaxLate = 0
    Modes = {"run"}
    Locking = {TRUE}
    Given = Given
    Options = {}
INVARIANTS
    LockExclusive
