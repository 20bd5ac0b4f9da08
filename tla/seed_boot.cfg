SPECIFICATION Spec
CONSTANTS
  NULL = NULL
  admin = admin  manager = manager  desk = desk  pupil = pupil  guard = guard
  deskJob = deskJob  guardJob = guardJob  staffWork = staffWork
  Objects = 2
  Admin = admin
  CsvRows <- MCCsvRows
  StaffRows <- MCStaffRows
  Managers = {manager}
  JobOf <- MCJobOf
  TeamOf <- MCTeamOf
  DepartmentOf <- MCDepartmentOf
  UidOf <- MCUidOf
  Details <- MCDetails
  Students = {pupil}
  DefaultJobs <- MCDefaultJobs
  ExtraJobs <- MCExtraJobs
  SecurityJobs = {guardJob}
  StaffAccount = desk
  StaffJob = staffWork
  DefaultHours <- Weekend
  SecurityHours <- Night
  MaxFaults = 1
INVARIANTS
  TypeOK
  PlanWithinCap
  PlanMeetsTarget
  OneShiftPerSlot
  BootConverges
  RowsAreIndependent
  DrawnHoursInRange
PROPERTIES
  HoldersStay
  ComesUp
