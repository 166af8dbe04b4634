SPECIFICATION FairSpec
CONSTANTS
    Windows = {w1}
    Requests = {r1}
    w1 = w1
    r1 = r1
    MaxJobs = 3
    MaxKeys = 2
    MaxAttempts = 3
    MaxFaults = 1
    MaxReloads = 1
    MaxDisturbances = 1
    MaxReruns = 1
    Outcomes = {"escalate", "retryable"}
INVARIANTS
    FactCheckInv
PROPERTIES
    RequestsStaySettled
    
    RequestsSettle
