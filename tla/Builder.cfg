\* Two processes of every kind on one machine, one commit, one delayed request.
SPECIFICATION Spec
CONSTANTS
    Procs = {p1, p2}
    Commits = {1}
    Me = me
    NoCommit = NoCommit
    MaxLate = 1
    Modes = {"run", "multirun", "script"}
    Locking = {TRUE, FALSE}
    Given = Given
    Options = {{"ok"}}
SYMMETRY MCSymmetry
INVARIANTS
    TypeOK
    LockAccounted
    InProgressAccounted
