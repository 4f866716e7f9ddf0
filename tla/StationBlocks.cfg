CONSTANT MaxRequests = 3
CONSTANT MaxClosings = 0
SPECIFICATION Spec
CHECK_DEADLOCK FALSE
PROPERTY SendReturns
