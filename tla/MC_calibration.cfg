CONSTANTS
  c1 = c1  c2 = c2  c3 = c3  r1 = r1  r2 = r2
  Clis <- MCClis
  Revs <- MCRevs
  Base = Base
  Nothing = Nothing
  Absent = Absent
  Blank = Blank
  Torn = Torn
  Nobody = Nobody
  None = None
  Missing = Missing
  Huge = 6000
  Megabyte = 16
  RingSize = 3
  Footprint <- MCFootprint
  Siblings = {0, 3}
  Noise = {0, 45}
  Hosts = {"here", "elsewhere"}
  Here = "here"
  OldRings <- MCOldRings
  Declared <- MCDeclared
SPECIFICATION Spec
SYMMETRY Symmetry
INVARIANTS TypeOK RecordFollowsJob PlainNeverDegrades SampleTrue MedianRight EstimateHonest
PROPERTIES SamplesKept
