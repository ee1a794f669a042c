\* One request that names a rule set
CONSTANTS
    n1 = n1
    n2 = n2
    Members = {m1}
    Clients = {c1}
    Setters = {s1}
    Names = {n1, n2}
    Candidates <- OneOrTwo
    MaxTokens = 1
    Limits = {1}
    MaxUsage = 2
    None = None
SPECIFICATION Spec
INVARIANT
    CandidateIsSent
