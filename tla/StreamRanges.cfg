\* A book of up to two files, served in ranges while tokens grow old.
SPECIFICATION FairSpec
CONSTANTS
  Files <- Two
  MaxFiles = 2
  Segments = 2
  Size = 2
  TTL = 1
  WriteTimeout = 1
  Horizon = 3
  MaxLoads = 2
\* A player that has the whole file asks no more.
CHECK_DEADLOCK FALSE
INVARIANTS
  TypeOK
  PlayerIsServed
  RangesAreHonoured
  TypeIsTheContents
PROPERTIES
  FileArrives
