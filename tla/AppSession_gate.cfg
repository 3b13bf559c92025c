SPECIFICATION Spec
CONSTANT MaxQueue = 2
INVARIANTS UndisturbedStartSucceeds RevealedWasAuthenticated CardIsAuthoritative MirrorFollowsNative
PROPERTY MigratesIntactOnly
