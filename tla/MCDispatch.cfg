SPECIFICATION Spec
CONSTANTS
  Threads = {t1, t2, t3}
  Machines <- MCMachines
  None = None
INVARIANTS
  KernelsSupported
  BuildsAgree
  OneTable
PROPERTY GetReturns
