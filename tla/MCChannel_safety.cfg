SPECIFICATION FairSpec
CONSTANTS
  NoThread = NoThread
  s1 = s1
  s2 = s2
  d1 = d1
  Senders = {s1, s2}
  Debuggers = {d1}
  Killable = {}
  MaxCalls = 2
  MayRelease = TRUE
  Disciplined = FALSE
CHECK_DEADLOCK FALSE
INVARIANTS
  TypeOK
  ReplyMatches
  TakerOwnsTransaction
  BufferUnshared
PROPERTIES
  ImplementsRendezvous
  ReleaseDrains
