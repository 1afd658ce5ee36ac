\* Three clients, moved to and from one another; three connections, each with
\* at most two tracks, and one and a half frames; messages of a trickle of two
\* fields, a description of one, or two requests, cut off at every byte.
CONSTANTS
  Client = {c1, c2, c3}
  Null = Null
  FrameSize = 2
  MaxSamples = 3
  MaxConnects = 3
  MaxTracks = 2
  Word = 65536
  WordBytes = 3
  IntWord = 4096
  Fields <- AllFields
  Requests <- AllRequests
  Messages <- SomeMessages
SPECIFICATION MCSpec
INVARIANTS StreamsAreKept ConnectionIsSound
PROPERTIES CallsReturn MessagesAreRead
CHECK_DEADLOCK FALSE
