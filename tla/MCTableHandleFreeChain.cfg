CONSTANTS
  Threads = {t1, t2}
  RecPerPage = 2
  LastPage = 3
  Vals = {v1, v2}
  NoVal = NoVal
  RecordNumSigned = FALSE
  RecordNumModulus = 65536
SPECIFICATION Spec
SYMMETRY ValueSymmetry
INVARIANT FreeChainThreaded
