\* The checker beside two requests, with lost commits, failing queries, crashes.
SPECIFICATION FairCheckedSpec
CONSTANTS
  Requests = {r1, r2}
  Calls <- CheckerCalls
  OpeningAccounts <- ExpenseAccounts
  OpeningNextAccountId = 3
  OpeningTransactions <- FundedTransactions
  NoTransaction = NoTransaction
  MaxI64 = 100
  MaxI32 = 100
  MaxConnections = 2
  ConcurrentSettlement = TRUE
  Faults = {"database", "timeout", "crash"}
INVARIANTS
  TableAlarmsAreReal
PROPERTIES
  GaugesBecomeAccurate
  EveryCallAnswered
