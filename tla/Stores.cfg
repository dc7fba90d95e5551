SPECIFICATION Spec
CONSTANTS
  Handler = {h1, h2, h3}
  Ttl = 2
  MaxStall = 1
  MaxWrites = 3
  Submission = {s1, s2}
  BookedHours = 1
  MaxFiles = 2
SYMMETRY Symmetry
INVARIANTS
  CachedProfilesAreSound
  ReportsAreComplete
CHECK_DEADLOCK FALSE
