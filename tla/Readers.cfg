\* Two read-only calls and a request share one connection; clients may stop reading.
SPECIFICATION FairReadersSpec
CONSTANTS
  Requests = {r1}
  Readers = {q1, q2}
  Calls <- ReadersCalls
  Queries <- AllQueries
  StreamCapacity = 1
  OpeningAccounts <- HeldAccounts
  OpeningNextAccountId = 3
  OpeningTransactions <- HeldTransactions
  NoTransaction = NoTransaction
  MaxI64 = 100
  MaxI32 = 100
  MaxConnections = 1
  ConcurrentSettlement = FALSE
  Faults = {"crash", "timeout", "cancel", "database"}
INVARIANTS
  StreamAddsUp
  AnsweredWritesAreRead
PROPERTIES
  EveryCallAnswered
  QueriesAnswered
  StreamsEnd
CHECK_DEADLOCK FALSE
