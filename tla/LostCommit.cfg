\* A client goes away while its commit is executed.
SPECIFICATION Spec
CONSTANTS
  Requests = {r1, r2}
  Calls <- RetryCalls
  OpeningAccounts <- FundedAccounts
  OpeningNextAccountId = 3
  OpeningTransactions <- FundedTransactions
  NoTransaction = NoTransaction
  MaxI64 = 100
  MaxI32 = 100
  MaxConnections = 2
  ConcurrentSettlement = TRUE
  Faults = {"cancel"}
SYMMETRY Symmetry
INVARIANTS
  IdleCacheMirrorsDatabase
