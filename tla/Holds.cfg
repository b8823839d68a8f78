\* An authorize while part of the balance is on hold.
SPECIFICATION Spec
CONSTANTS
  Requests = {r1, r2}
  Calls <- OverdrawCalls
  OpeningAccounts <- FundedAccounts
  OpeningNextAccountId = 3
  OpeningTransactions <- FundedTransactions
  NoTransaction = NoTransaction
  MaxI64 = 100
  MaxI32 = 100
  MaxConnections = 2
  ConcurrentSettlement = TRUE
  Faults = {}
SYMMETRY Symmetry
INVARIANTS
  HeldFundsAreReserved
