\* Two players, two requests of any kind; attempts that are late or lost.
SPECIFICATION FairSpec
CONSTANTS
  p1 = p1
  p2 = p2
  a1 = a1
  a2 = a2
  NoPlayer = NoPlayer
  Players = {p1, p2}
  MaxVolume = 2
  Requests = {a1, a2}
  MaxRetries = 1
  Ops = {"volume", "mute", "group", "adjust", "join", "leave"}
  Wanted <- Below
  Deltas <- Up
\* Requests run once: when all have ended nothing is left to do.
CHECK_DEADLOCK FALSE
INVARIANTS
  TypeOK
  OnePressOneStep
  GroupCommandsFindTheLeader
PROPERTIES
  RequestsEnd
  ImplementsRemoteCommand
