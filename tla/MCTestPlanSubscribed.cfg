CONSTANTS
    TestInstanceCount = 3
    Params <- SubscribedParams
    SubnetSlots = 2
    SubnetRounds = 2
    MaxSendErrs = 0
SPECIFICATION Spec
INVARIANT SubscribedBeforeRounds
