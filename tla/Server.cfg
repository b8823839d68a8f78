\* Start-up, readiness and shutdown around a request and a stream.
SPECIFICATION FairServerSpec
CONSTANTS
  Requests = {r1}
  Readers = {q1}
  Calls <- ServerCalls
  Queries <- ServerQueries
  StreamCapacity = 1
  Invocations <- SmallInvocations
  MaxStarts = 2
  OpeningAccounts <- HeldAccounts
  OpeningNextAccountId = 3
  OpeningTransactions <- HeldTransactions
  NoTransaction = NoTransaction
  MaxI64 = 100
  MaxI32 = 100
  MaxConnections = 4
  ConcurrentSettlement = FALSE
  Faults = {"crash", "timeout", "panic"}
INVARIANTS
  GracefulDrain
  NoTransactionIsCut
  CacheLagsOnlyInFlight
PROPERTIES
  ReadyMeansServing
  ShutdownCompletes
CHECK_DEADLOCK FALSE
