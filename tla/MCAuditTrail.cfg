CONSTANTS
  r1 = r1
  r2 = r2
  l1 = l1
  l2 = l2
  Changes = {r1, r2, l1, l2}
  Loops = {l1, l2}
  NoEvent = NoEvent
  MaxCrashes = 1
  MaxRows = 3

SPECIFICATION FairSpec
INVARIANTS
  TrailTrue
  LostOnlyByDeath
  NothingOutlives
PROPERTIES
  EvidenceArrives
  ShutdownEnds
