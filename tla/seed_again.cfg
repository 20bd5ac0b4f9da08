SPECIFICATION Spec
CONSTANTS
  NULL = NULL
  admin = admin  manager = manager  desk = desk  pupil = pupil  guard = guard
  deskJob = deskJob  guardJob = guardJob  staffWork = staffWork
  Objects = 1
  Admin = admin
  CsvRows <- PairCsvRows
  StaffRows <- MCStaffRows
  Managers = {}
  JobOf <- MCJobOf
  TeamOf <- MCTeamOf
  DepartmentOf <- PairDepartmentOf
  UidOf <- PairUidOf
  Details <- MCDetails
  Students = {}
  DefaultJobs <- MCDefaultJobs
  ExtraJobs <- MCExtraJobs
  SecurityJobs = {guardJob}
  StaffAccount = desk
  StaffJob = staffWork
  DefaultHours <- Saturday
  SecurityHours <- Night
  MaxFaults = 2
INVARIANTS
  BootConverges
  RowsAreIndependent
