SPECIFICATION Spec
CONSTANTS
  NULL = NULL
  hourly = hourly
  student = student
  manager = manager
  team = team
  other = other
  s1 = s1  s2 = s2  s3 = s3  s4 = s4  s5 = s5  s6 = s6
  r1 = r1  r2 = r2  r3 = r3
  h1 = h1  h2 = h2
  Workers = {hourly, student}
  Managers = {manager}
  Admins = {}
  Teams = {team, other}
  Scope <- MCScope
  Member <- MCMember
  InitDetails <- MCDetails
  Slots = {h1}
  Days = {0}
  ShiftIds = {s1}
  RequestIds = {r1}
  InitShifts <- MissShifts
  NewDetails = {}
  NewShifts = {}
  Templates = {}
  AssignBlocks = {}
  BlockLists = {}
  Deletable = {}
  Kept = {}
  MayAbort = FALSE
CHECK_DEADLOCK FALSE
PROPERTIES
  MissReturnsOwnShift
