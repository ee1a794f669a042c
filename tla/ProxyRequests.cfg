\* Two requests of a member, one administrator, crashes at any step
CONSTANTS
    n1 = n1
    n2 = n2
    Members = {m1}
    Clients = {c1, c2}
    Setters = {s1}
    Names = {n1}
    Candidates <- TwoAlike
    MaxTokens = 1
    Limits = {1}
    MaxUsage = 2
    None = None
SPECIFICATION FairSpec
INVARIANTS
    TypeOK
    QuotaCap
    RulePartOfTotal
    AnsweredIsMetered
    QuotaDurable
PROPERTY
    EveryRequestEnds
