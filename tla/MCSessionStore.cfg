CONSTANTS
  MaxSid = 2
  Users = {u1}
  Guest = Guest
  None = None
  Ended = Ended
  ShortLease <- MCShortLease
  LongLease <- MCLongLease
  MaxRequest <- MCMaxRequest
  ScanPeriod <- MCScanPeriod
  Hour <- MCHour
  MaxTime = 4
  MaxBuild = 2
SPECIFICATION Spec
INVARIANTS
  InUseNotReaped
  TableMatchesMap
  RowFollowsEntry
  LoginKept
  LogoutFinal
  SweepComplete
PROPERTIES
  NeverForgottenEarly
  ServiceSpec
