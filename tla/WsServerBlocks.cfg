CONSTANTS
  s1 = s1
  s2 = s2
  i1 = i1
  Sockets = {s1, s2}
  Ids = {i1}
  Callers = {c1}
  Urls <- MCUrls
  Supported <- MCSupported
  Offers <- MCOffers
  MaxCalls = 2
  None = None
SPECIFICATION Spec
CHECK_DEADLOCK FALSE
PROPERTY WriteReturns
