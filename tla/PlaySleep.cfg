\* One file; the sleep timer under fairness, stop, logout and login.
SPECIFICATION FairSpec
CONSTANTS
  b1 = b1
  b2 = b2
  p1 = p1
  p2 = p2
  s1 = s1
  q1 = q1
  q2 = q2
  NoBook = NoBook
  NoPlayer = NoPlayer
  Books = {b1}
  Players = {p1}
  Sessions = {s1}
  Requests = {q1}
  MaxRows = 1
  Duration <- TwoLong
  SegSec <- OneFile
  Ops = {"play", "stop"}
  Awake = {"sleeper"}
  Events = {"timer", "login"}
  Positions = {1}
  Skips <- Back
  Margin = 1
  EndMargin = 0
  Slack = 0
INVARIANTS
  ProgressIsOfItsBook
PROPERTIES
  TimersFire
