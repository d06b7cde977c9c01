SPECIFICATION Spec
CONSTANTS
  Empty = ""
  AnyText = "*"
  Param <- MCParam
  Registrations <- MCRegistrations
  Requests <- MCRequests
  MaxRegistrations = 3
  kMaxMiddleware = 2
INVARIANTS
  MatchIsMostLiteral
  NothingRunsTwice
  AnswerIsDue
PROPERTY RoutesAreNotRedirected
CHECK_DEADLOCK FALSE
