SPECIFICATION FairSpec
CONSTANTS
    Windows = {w1}
    NoWindow = NoWindow
    MaxAttempts = 3
    GatewayOutcomes = {"complete", "rejected"}
    MaxFaults = 2
    MaxRestarts = 2
INVARIANTS
    RefinementInv
    RefinedIsReported

    
