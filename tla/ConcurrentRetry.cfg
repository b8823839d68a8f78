\* The same authorize twice at the same time.
SPECIFICATION Spec
CONSTANTS
  Requests = {r1, r2}
  Calls <- RetryCalls
  OpeningAccounts <- FundedAccounts
  OpeningNextAccountId = 3
  OpeningTransactions <- FundedTransactions
  NoTransaction = NoTransaction
  MaxI64 = 100
  MaxI32 = 100
  MaxConnections = 2
  ConcurrentSettlement = TRUE
  Faults = {}
SYMMETRY Symmetry
INVARIANTS
  RetriesSucceed
