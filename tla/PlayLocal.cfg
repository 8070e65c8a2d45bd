\* Expected violation: the poller stores a local position.
SPECIFICATION Spec
CONSTANTS
  b1 = b1
  b2 = b2
  p1 = p1
  p2 = p2
  s1 = s1
  q1 = q1
  q2 = q2
  NoBook = NoBook
  NoPlayer = NoPlayer
  Books = {b1}
  Players = {p1}
  Sessions = {s1}
  Requests = {q1}
  MaxRows = 1
  Duration <- FourLong
  SegSec <- PerTwo
  Ops = {"play"}
  Awake = {"poller"}
  Events = {"elsewhere"}
  Positions = {2}
  Skips <- NoSkips
  Margin = 1
  EndMargin = 0
  Slack = 0
SYMMETRY Symmetry
INVARIANTS
  RowPositionsAreGlobal
