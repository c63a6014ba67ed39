SPECIFICATION FairSpec
CONSTANTS
    p1 = p1
    p2 = p2
    Caller = {run, cron}
    Provider = {p1, p2}
    CandidateList <- MCCandidateList
    Steps = 2
    Standard <- MCStandard
    Billing <- MCBilling
    Window = 3
    None = None
PROPERTIES
    ImplementsGate
    Recovers
