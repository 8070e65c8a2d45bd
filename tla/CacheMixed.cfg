\* The first file is one output, the whole book two segments; liveness.
SPECIFICATION FairSpec
CONSTANTS
  i1 = i1
  r1 = r1
  r2 = r2
  w1 = w1
  NoItem = NoItem
  Items = {i1}
  Workers = {w1}
  Requests = {r1}
  QueueCap = 1
  Formats = {"mp3"}
  MaxSegs = 2
  Multi <- AllMulti
  Segs <- SegsMixed
  Fmts <- FmtsMp3
PROPERTIES
  TranscodesEnd
  RequestsAnswered
  QueuedJobsTaken
VIEW Seen
