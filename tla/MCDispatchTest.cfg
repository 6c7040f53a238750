SPECIFICATION Spec
CONSTANTS
  Threads = {t1}
  Machines <- MCProcessors
  None = None
INVARIANT TestExpectsTier1
