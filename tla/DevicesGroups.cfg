\* Two players, one of them a stereo pair; two requests at once.
SPECIFICATION Spec
CONSTANTS
  p1 = p1
  p2 = p2
  p3 = p3
  a1 = a1
  a2 = a2
  NoPlayer = NoPlayer
  Players = {p1, p2, p3}
  Master <- Halves
  Requests = {a1, a2}
  MaxChanges = 1
SYMMETRY Symmetry
INVARIANTS
  TypeOK
  SearchFindsAll
  RefreshedGroupsAreCurrent
