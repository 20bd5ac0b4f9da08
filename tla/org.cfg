SPECIFICATION Spec
CONSTANTS
  NULL = NULL
  h1 = h1  h2 = h2
  a1 = a1  a2 = a2  head = head  guest = guest
  dept = dept  desk = desk  lab = lab  clerk = clerk  porter = porter
  Handlers = {h1, h2}
  Mixes <- MCMixes
  Users = {a1, a2, head, guest}
  Seeded <- MCSeeded
  Departments = {dept}
  Teams = {desk, lab}
  Jobs = {clerk, porter}
  FirstTeams <- MCFirstTeams
  FirstJobs <- MCFirstJobs
  FirstHeads <- MCFirstHeads
  Schedules <- MCSchedules
  DefaultHours <- MCDefault
  Closures <- MCClosures
  MaxRequests = 2
SYMMETRY Swaps
INVARIANTS
  TypeOK
  AnAdminRemains
  JobHoursAreOneRequest
  WorkersAreMembers
CHECK_DEADLOCK FALSE
