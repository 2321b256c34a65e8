CONSTANT Flags <- MCFlags
SPECIFICATION FairSpec
INVARIANTS
    TypeOK
    GroupsWellFormed
    ExitMeansWritten
PROPERTY EndsWithFourOperators
