SPECIFICATION Spec
CONSTANTS
  s1 = s1
  s2 = s2
  MaxLength = 5
  Submitted <- Urls
  Ids = {s1, s2}
  None = None
INVARIANTS
  PrivateRanges
  ReadsBack
  OneSpelling
  MaskShowsAPrefix
SYMMETRY IdsAlike
CHECK_DEADLOCK FALSE
