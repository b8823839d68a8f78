\* Cancellations, database errors and crashes; one settlement of a transaction at a time.
SPECIFICATION Spec
CONSTANTS
  Requests = {r1, r2, r3}
  Calls <- FaultyCalls
  OpeningAccounts <- FundedAccounts
  OpeningNextAccountId = 3
  OpeningTransactions <- FundedTransactions
  NoTransaction = NoTransaction
  MaxI64 = 100
  MaxI32 = 100
  MaxConnections = 2
  ConcurrentSettlement = FALSE
  Faults = {"cancel", "database", "crash"}
SYMMETRY Symmetry
INVARIANTS
  Reconciled
  SettlementHolds
PROPERTIES
  TerminalIsFinal
  ImplementsAtomicLedger
