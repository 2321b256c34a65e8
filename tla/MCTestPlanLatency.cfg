CONSTANTS
    TestInstanceCount = 2
    Params <- LatencyParams
    SubnetSlots = 2
    SubnetRounds = 2
    MaxSendErrs = 0
SPECIFICATION Spec
INVARIANT LatencyAsDocumented
