\* One client, two commits of one branch: rows, files and nonces under every handler.
SPECIFICATION Spec
CONSTANTS
    Clients = {c1}
    Commits = {r1, r2}
    Branches = {trunk}
    BranchOf <- MCOneBranch
    Nonces = {n1, n2, n3}
    NoNonce = NoNonce
    NoTime = NoTime
    MaxTestTime = 1
    NonceLife = 0
SYMMETRY MCSymmetry
INVARIANTS
    TypeOK
    OnlyRegisteredHaveResults
    OutputMatchesResult
    StoredOnce
PROPERTIES
    FinalKept
    ImplementsBoard
