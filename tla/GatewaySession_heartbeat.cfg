\* Does a connection that stays open and authenticated keep its heartbeat?
CONSTANTS
  AuthInUrl = FALSE
  MaxInbox = 2
SPECIFICATION Spec
PROPERTIES Heartbeat
CHECK_DEADLOCK FALSE
