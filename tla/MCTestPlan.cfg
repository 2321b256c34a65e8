CONSTANTS
    TestInstanceCount = 3
    Params <- MCParams
    SubnetSlots = 2
    SubnetRounds = 2
    MaxSendErrs = 1
SPECIFICATION FairSpec
INVARIANTS
    TypeOK
    RoundsDoNotOverlap
    RoundsComplete
    ListenAfterConnect
    ShapedBeforePublish
    CrashOnlyPastDeadline
    OperatorsMeet
PROPERTIES
    ExpiredInstancesEnd
    UndisturbedRunSucceeds
