\* Everything at once, close to the limits of the columns; two clients may settle
\* the same transaction.
SPECIFICATION Spec
CONSTANTS
  Requests = {r1, r2, r3}
  Calls <- ConcurrentCalls
  OpeningAccounts <- WornAccounts
  OpeningNextAccountId = 4
  OpeningTransactions <- WornTransactions
  NoTransaction = NoTransaction
  MaxI64 = 11
  MaxI32 = 100
  MaxConnections = 2
  ConcurrentSettlement = TRUE
  Faults = {"crash", "timeout"}
SYMMETRY Symmetry
INVARIANTS
  TypeOK
  NoVersionConflict
  NoCircularWait
  OneTransactionPerKey
  RowsStayReadable
  GlobalBalance
  TrialBalance
  CacheLagsOnlyInFlight
