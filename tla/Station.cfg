CONSTANT MaxRequests = 2
CONSTANT MaxClosings = 1
SPECIFICATION Spec
CHECK_DEADLOCK FALSE
INVARIANT InStep
INVARIANT Paired
PROPERTY SendReturnsConnected
PROPERTY StopReleases
