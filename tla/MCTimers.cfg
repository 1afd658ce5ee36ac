\* Two timers on a clock of two seconds; two calls of start() and a handler;
\* a menu of six commands that may become seven, and a paginator of three
\* pages, with two reactions each.
CONSTANTS
  MaxTimers = 2
  Intervals = {1, 2}
  MaxTime = 4
  Main = Main
  EventHandler = {h1}
  MaxStarts = 2
  Menu = {m1}
  User = {u1, u2}
  Press = {1, 2}
  Bot = Bot
  Right = Right
  Left = Left
  Other = Other
  FirstCommands = 6
  MaxCommands = 7
  PageCount = 3
  MaxSends = 2
  Reaction = {p1, p2}
SPECIFICATION MCSpec
INVARIANTS TimersKeepTime StopIsSafe
PROPERTIES MenusAreSound TimersRun HandlersEnd
CHECK_DEADLOCK FALSE
