\* Authentication by the Authenticate event, the default, or by the token in
\* the URL; at most two Authenticated events wait.
CONSTANTS
  AuthInUrl = FALSE
  MaxInbox = 2
SPECIFICATION MCSpec
INVARIANTS EarnedUnlessLate SafeUnlessOverlapped
PROPERTIES StopIsFinal DisconnectReturns ConnectionIsKept
CHECK_DEADLOCK FALSE
