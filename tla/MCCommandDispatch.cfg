\* Three messages outside servers and a clock of half seconds; two messages or
\* edits in and outside a server; one while roles and the server change.
CONSTANTS
  Thread = {1, 2, 3}
  User = {alice, bob}
  Role = {moderator}
  Permission = {manage}
  Word <- Words
  Fold <- FoldCase
  NoPrefix = NoPrefix
  Registered <- Both
  Placement = {TRUE, FALSE}
  DispatchOnEdit = TRUE
  ServerVersion <- Versions
  NoServer = NoServer
  Unset = Unset
  TicksPerSecond = 2
  MaxClock = 4
  ping = ping
  PING = PING
  p = p
  kick = kick
  hello = hello
  manage = manage
  moderator = moderator
  alice = alice
  bob = bob
SPECIFICATION MCSpec
INVARIANTS RemainingIsEnough OneOutcome RunIsAuthorised
PROPERTIES LimitsByCooldown DispatchesEnd
CHECK_DEADLOCK FALSE
