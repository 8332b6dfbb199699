\* One --multirun process and two commits.
SPECIFICATION Spec
CONSTANTS
    Procs = {p1}
    Commits = {1, 2}
    Me = me
    NoCommit = NoCommit
    MaxLate = 0
    Modes = {"multirun"}
    Locking = {TRUE}
    Given = Given
    Options = {}
INVARIANTS
    CountsOfThisBuild
