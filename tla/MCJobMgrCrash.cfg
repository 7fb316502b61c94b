SPECIFICATION Spec
CONSTANTS
  a = a
  b = b
  j1 = j1
  j2 = j2
  Jobs = {j1}
  Owners <- OneOwner
  Owner <- OwnerOfOne
  NoWake = {}
  Adopted = {}
  NoJob = NoJob
  NoOwner = NoOwner
  CallFaults = {"rc3"}
  MaxCrash = 1
  MaxFault = 1
  MaxLimit = 0
INVARIANTS NeverForgotten
PROPERTIES StrandedIsAlerted
