\* Two workers on one pair of accounts and an unfunded pair.
SPECIFICATION LoadSpec
CONSTANTS
  Workers = {w1, w2}
  Half = 1
  Amount = 1
  FundAmount = 2
  MaxRolls = 3
  MaxI64 = 100
  Ids = {}
  Keys = {}
  LegLists = {}
  OpeningBalances <- EmptyBook
  OpeningBook <- EmptyBook
INVARIANTS
  SettlementsNeverCompete
  ReportMatchesBook
PROPERTY
  LoadEnds
CHECK_DEADLOCK FALSE
