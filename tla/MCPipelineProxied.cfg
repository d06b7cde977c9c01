SPECIFICATION Spec
CONSTANTS
  Empty = ""
  AnyText = "*"
  Param <- MCParam
  Registrations <- MCProxyRoute
  Requests <- MCProxyRequest
  MaxRegistrations = 1
  kMaxMiddleware = 1
INVARIANT LaterChangesAreSent
CHECK_DEADLOCK FALSE
