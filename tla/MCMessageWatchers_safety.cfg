\* Three watchers of one channel, so that two of them can overtake a third.
CONSTANTS
  Watcher = {w1, w2, w3}
  Message = {m1, m2}
  Channel = {c1}
  User = {u1, u2}
  IgnoredUser = {u2}
  AnyUser = AnyUser
  NoWatcher = NoWatcher
SPECIFICATION Spec
INVARIANTS RepliesAreOwn FirstComeFirstServed
SYMMETRY Symmetry
CHECK_DEADLOCK FALSE
