\* Two handler threads at once, against the default event_thread_count of 1.
CONSTANTS
  Event = {c1, e1, e2}
  Control = {c1}
  Malformed = {}
  ThreadLimit = 2
  EventThreadCount = 1
  NoEvent = NoEvent
SPECIFICATION Spec
INVARIANTS DispatchThreads
CHECK_DEADLOCK FALSE
