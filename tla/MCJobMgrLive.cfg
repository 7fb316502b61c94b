SPECIFICATION Spec
CONSTANTS
  a = a
  b = b
  j1 = j1
  j2 = j2
  Jobs = {j1}
  Owners <- OneOwner
  Owner <- OwnerOfOne
  NoWake = {}
  Adopted = {}
  NoJob = NoJob
  NoOwner = NoOwner
  CallFaults = {"rc1", "rc3", "timeout"}
  MaxCrash = 0
  MaxFault = 2
  MaxLimit = 1
PROPERTIES FinishedIsReported ImplementsWakeService
