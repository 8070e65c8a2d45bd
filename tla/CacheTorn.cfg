\* Expected violation: a file is published while another ffmpeg writes it.
SPECIFICATION Spec
CONSTANTS
  i1 = i1
  r1 = r1
  r2 = r2
  w1 = w1
  NoItem = NoItem
  Items = {i1}
  Workers = {w1}
  Requests = {r1, r2}
  QueueCap = 1
  Formats = {"mp3"}
  MaxSegs = 1
  Multi <- NoneMulti
  Segs <- SegsOne
  Fmts <- FmtsMp3
INVARIANTS
  PublishedFilesWhole
