SPECIFICATION FairSpec
CONSTANTS
    Product = {p1, p2}
    Unidentified = {p2}
    Kinds = {"abw", "umma", "qudo"}
    ReconWeeks = 1
    ReconBudget = 1
    MaxRetries = 1
    MaxVersion = 1
    MaxWeek = 1
    MaxGeneration = 2
 
PROPERTIES   RunEnds
CHECK_DEADLOCK FALSE
