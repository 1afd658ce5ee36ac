\* Two control events, two others, a malformed one, one thread for handlers; a
\* Bulk that holds a Bulk, two handlers, an exception anywhere; a Bulk and two
\* payloads of the worker.
CONSTANTS
  Event = {c1, c2, e1, e2, x1}
  Control = {c1, c2}
  Malformed = {x1}
  ThreadLimit = 1
  EventThreadCount = 1
  NoEvent = NoEvent
  Alone = {1}
  Together = {7, 8, 10}
  Item <- Sent
  Type <- Types
  Inside <- Nested
  About <- FromAuthor
  BadItem = {6}
  User = {u1}
  Handler = {h1, h2}
  Key = {"raw", "Message", "ServerCreate"}
SPECIFICATION MCSpec
INVARIANTS NoLostWakeup StreamIsKept RoutingIsSound
PROPERTIES HangsOnlyByMissedNotify DestructionEnds DeliversTheStream PayloadsEnd
CHECK_DEADLOCK FALSE
