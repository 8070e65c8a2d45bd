\* Two segments: seeks and transitions between them, resume, another client.
SPECIFICATION Spec
CONSTANTS
  b1 = b1
  b2 = b2
  p1 = p1
  p2 = p2
  s1 = s1
  q1 = q1
  q2 = q2
  NoBook = NoBook
  NoPlayer = NoPlayer
  Books = {b1}
  Players = {p1}
  Sessions = {s1}
  Requests = {q1}
  MaxRows = 2
  Duration <- ThreeLong
  SegSec <- PerTwo
  Ops = {"play", "seek", "status", "resume"}
  Awake = {}
  Events = {"elsewhere", "hand"}
  Positions = {2, 3, 4}
  Skips <- Back
  Margin = 1
  EndMargin = 0
  Slack = 0
SYMMETRY Symmetry
INVARIANTS
  TypeOK
  RowNamesWhatPlays
  ReportedPositionsAreGlobal
  LoadedSegmentExists
