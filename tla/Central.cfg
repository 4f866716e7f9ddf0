CONSTANTS
  Clients = {a, b}
  NoClient = NoClient
  RequestRoom = 1
  MaxRequests = 2
  MaxConnects = 2
SPECIFICATION Spec
CHECK_DEADLOCK FALSE
INVARIANT InStep
INVARIANT Paired
INVARIANT AllCalled
 
