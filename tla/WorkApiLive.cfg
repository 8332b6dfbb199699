\* One client and one commit under fairness; three nonces, since the row and the
\* file may each keep one in use.
SPECIFICATION FairSpec
CONSTANTS
    Clients = {c1}
    Commits = {r1}
    Branches = {trunk}
    BranchOf <- MCOneBranch
    Nonces = {n1, n2, n3}
    NoNonce = NoNonce
    NoTime = NoTime
    MaxTestTime = 0
    NonceLife = 0
PROPERTIES
    StaleStartedForgotten
    NonceForgotten
