SPECIFICATION Spec
CONSTANTS
    q1 = q1
    q2 = q2
    Requests <- MCRequests
    Contents <- MCContents
    Tokens <- MCTokens
    MaxConfigs = 2
    MaxTime = 1
    TTL = 1
    NoURL = NoURL
    NoAudience = NoAudience
    NoToken = NoToken
    NoOverride = NoOverride
    Nil = Nil
SYMMETRY Symmetry
INVARIANT NeverAdmittedUnverified
INVARIANT OldProviderOnlyAfterRollback
INVARIANT MetadataIsCurrent
INVARIANT OverridesAreOnesOwn
INVARIANT FailsOnlyForCause
