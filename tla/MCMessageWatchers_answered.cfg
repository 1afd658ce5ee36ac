\* Two watchers of two channels; no symmetry, the refinement has fairness.
CONSTANTS
  Watcher = {w1, w2}
  Message = {m1, m2}
  Channel = {c1, c2}
  User = {u1}
  IgnoredUser = {}
  AnyUser = AnyUser
  NoWatcher = NoWatcher
SPECIFICATION Spec
PROPERTIES EveryRequestIsAnsweredOnce
CHECK_DEADLOCK FALSE
