SPECIFICATION FairSpec
CONSTANTS
  c1 = c1  c2 = c2  a1 = a1  a2 = a2  s1 = s1  s2 = s2  s3 = s3
  Main = Main  None = None
  Callers <- MCCallers
  Certificates <- MCCertificates
  Admins <- MCAdmins
  NetServers <- MCNetServers
  Programs <- MCPrograms
  Served = c1
  MaxConnections = 1
  Interval = 1
  RequestDelay = 1
  Life = 2
  Keep = 1
  MaxTimers = 2
INVARIANTS TypeOK IInv ServesCurrent Covered
PROPERTIES OwnServer EndsForAReason CallsSettle Maintained
CHECK_DEADLOCK FALSE
