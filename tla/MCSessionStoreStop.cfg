CONSTANTS
  MaxSid = 2
  Users = {u1}
  Guest = Guest
  None = None
  Ended = Ended
  ShortLease <- MCShortLease
  LongLease <- MCLongLease
  MaxRequest <- MCMaxRequest
  ScanPeriod <- MCScanPeriod
  Hour <- MCHour
  MaxTime = 2
  MaxBuild = 1
SPECIFICATION FairSpec
PROPERTIES
  StopCompletes
