\* A worker and a /play request; a multi-file book of two segments.
SPECIFICATION Spec
CONSTANTS
  i1 = i1
  r1 = r1
  r2 = r2
  w1 = w1
  NoItem = NoItem
  Items = {i1}
  Workers = {w1}
  Requests = {r1}
  QueueCap = 1
  Formats = {"mp3"}
  MaxSegs = 2
  Multi <- AllMulti
  Segs <- SegsMixed
  Fmts <- FmtsMp3
INVARIANTS
  TypeOK
  InProgressIsWorkedOn
  TempFilesOwned
  WholeUnlessOverlapped
  ReadyIsPlayable
  ReadyIsOneSource
  HandedOutUrlPlays
PROPERTIES
  ImplementsLedger
