SPECIFICATION Spec
CONSTANTS
  a = a
  b = b
  j1 = j1
  j2 = j2
  Jobs = {j1, j2}
  Owners <- OneOwner
  Owner <- OwnerOfBoth
  NoWake = {}
  Adopted = {j2}
  NoJob = NoJob
  NoOwner = NoOwner
  CallFaults = {"rc1", "timeout"}
  MaxCrash = 0
  MaxFault = 1
  MaxLimit = 1
INVARIANTS TypeOK NoLostWake ParkedHasAWaker ReportedOnce
