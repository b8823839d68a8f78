\* All lists of up to four entries on two accounts, with i64 cut down to 2: four
\* legs are what it takes for two equal sides to leave the range.
SPECIFICATION Spec
CONSTANTS
  MaxI64 = 2
  MaxEntries = 4
  SomeAccounts = {1, 2}
INVARIANTS
  ValidationIsExact
  DeltasNeverOverflow
  RecomputationAgrees
CHECK_DEADLOCK FALSE
