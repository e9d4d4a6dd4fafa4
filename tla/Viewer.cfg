SPECIFICATION FairSpec
CONSTANTS
  d1 = d1
  d2 = d2
  Devices = {d1, d2}
  Awkward = {d2}
  Slots = {1, 2}
  Past = 2
  Ahead = 1
  MaxTime = 2
INVARIANTS TypeOK ShownIsOfWindow OneNameBlanksAll
PROPERTIES LostOnlyToOverlap MarkerNeverAdvances ShowsAll
