\* An authorize on an account that is being created.
SPECIFICATION Spec
CONSTANTS
  Requests = {r1, r2}
  Calls <- NewAccountCalls
  OpeningAccounts <- FundedAccounts
  OpeningNextAccountId = 3
  OpeningTransactions <- FundedTransactions
  NoTransaction = NoTransaction
  MaxI64 = 100
  MaxI32 = 100
  MaxConnections = 2
  ConcurrentSettlement = TRUE
  Faults = {}
SYMMETRY Symmetry
INVARIANTS
  IdleCacheMirrorsDatabase
