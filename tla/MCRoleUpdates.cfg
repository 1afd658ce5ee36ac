\* Two calls or three events about roles; two moves to five targets, one of
\* them the empty one; a server of two names, a role, a channel, two members.
CONSTANTS
  Call = {1, 2, 3}
  Role = {a, b}
  Assigned = a
  MaxTries = 2
  MaxOutside = 1
  Moving = {k1, k2}
  Channel = {"general", "music"}
  Title = {"default", "Default", "text", "Text", "x", "y", ""}
  MaxRestarts = 1
  Server = {s1}
  Name = {n1, n2}
  CachedRole = {r1}
  User = {u1, u2}
  Ignored = {u2}
  Absent = Absent
  MaxEvents = 5
  Person = {u1}
  Bots = {u1}
  Nick = {n1}
  Bio = {b1}
  Fetch = {f1, f2}
  None = None
  Empty = Empty
  MaxTold = 2
  MaxChanges = 1
SPECIFICATION MCSpec
INVARIANTS LostOnlyByOvertaking ReactionsAreFollowed CacheFollows EntriesHaveCause
PROPERTIES UndisturbedIsExact MovesAreSound
CHECK_DEADLOCK FALSE
