CONSTANTS
  Posts = {p1, p2, p3}
  Gets = {g1, g2}
  MaxConcurrent = 2
  TTL = 2
  MaxCollect = 2
  MaxTime = 5
  NoTime = NoTime
SPECIFICATION Spec
INVARIANTS TypeOK PermitsAccounted AnswersRecent
PROPERTIES CommandsAnswered
