\* One process of every kind, two commits, two delayed requests, under fairness.
SPECIFICATION FairSpec
CONSTANTS
    Procs = {p1}
    Commits = {1, 2}
    Me = me
    NoCommit = NoCommit
    MaxLate = 2
    Modes = {"run", "multirun", "script"}
    Locking = {TRUE, FALSE}
    Given = Given
    Options = {{"ok"}}
INVARIANTS
    KilledReported
PROPERTIES
    BuildEnds
