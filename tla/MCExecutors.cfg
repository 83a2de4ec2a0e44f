CONSTANTS
  Threads = {t1}
  RecPerPage = 2
  LastPage = 2
  Vals = {v1, v2}
  NoVal = NoVal
  RecordNumSigned = FALSE
  RecordNumModulus = 65536
  FilterVals = {v1}
  UpdVal = v2
  Limit = 2
SPECIFICATION ExecSpec
INVARIANT TypeOK
INVARIANT RecordsDurable
INVARIANT HeaderCountsRecords
INVARIANT ScanFindsAllRecords
INVARIANT QueryOutputSound
INVARIANT QueryComplete
INVARIANT UpdateExact
INVARIANT StatementBounded
