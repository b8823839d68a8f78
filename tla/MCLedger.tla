------------------------------ MODULE MCLedger ------------------------------
(***************************************************************************)
(* Small ledgers for TLC.  Account 1 is an asset, account 2 an equity      *)
(* account, account 3 a second asset.                                      *)
(***************************************************************************)
EXTENDS LedgerRefinement, TLC

Debit(a, n) == [account_id |-> a, entry_type |-> 1, amount |-> n]

Credit(a, n) == [account_id |-> a, entry_type |-> 2, amount |-> n]

Authorize(k, ls) == [op |-> "Authorize", key |-> k, metadata_parses |-> TRUE, legs |-> ls]

Settle(op, t) == [op |-> op, tx |-> t]

CreateAccount(t, scale) ==
  [op |-> "CreateAccount", account_type |-> t, has_asset_code |-> TRUE, asset_scale |-> scale]

Row(t, v, p, q) == [type |-> t, version |-> v, posted |-> p, pending |-> q]

\* A deposit and a withdrawal of n units on account 1, against account 2.  The
\* legs name the accounts in opposite orders.
Deposit(n) == <<Debit(1, n), Credit(2, n)>>

Withdrawal(n) == <<Debit(2, n), Credit(1, n)>>

Posted(k, ls) == [key |-> k, status |-> "Posted", posted_at |-> TRUE,
                  entry_status |-> "Posted", legs |-> parse_transfer_legs(ls)]

Pending(k, ls) == [key |-> k, status |-> "Pending", posted_at |-> FALSE,
                   entry_status |-> "Pending", legs |-> parse_transfer_legs(ls)]

Symmetry == Permutations(Requests)

-----------------------------------------------------------------------------
(* A funded account with a pending withdrawal. *)

FundedTransactions ==
  [t \in {"funding", "hold"} |->
     IF t = "funding" THEN Posted("k0", Deposit(2)) ELSE Pending("k1", Withdrawal(1))]

FundedAccounts == <<Row("Asset", 3, 2, -1), Row("Equity", 3, 2, -1)>>

\* A pending deposit and nothing else.
HeldTransactions == [t \in {"hold"} |-> Pending("k1", Deposit(1))]

HeldAccounts == <<Row("Asset", 2, 0, 1), Row("Equity", 2, 0, 1)>>

\* Calls that are refused, early or late.
RefusedCalls ==
  {Authorize("", Deposit(1)),
   Authorize("k2", <<Debit(1, 1)>>),
   Authorize("k2", <<Debit(1, 0), Credit(2, 0)>>),
   Authorize("k2", <<Debit(0, 1), Credit(2, 1)>>),
   Authorize("k2", <<Debit(1, 1), Credit(2, 2)>>),
   Authorize("k2", <<Debit(1, 6), Debit(1, 6), Credit(2, 6), Credit(2, 6)>>),
   Authorize("k2", <<Debit(1, 1), Credit(9, 1)>>),
   [Authorize("k2", Deposit(1)) EXCEPT !.metadata_parses = FALSE],
   Settle("Capture", NoTransaction), Settle("Void", "funding"),
   CreateAccount(6, 2), CreateAccount(1, 19)}

\* More funds, and a third account that cannot get another version.
WornTransactions == [FundedTransactions EXCEPT !["funding"] = Posted("k0", Deposit(5))]

WornAccounts ==
  <<Row("Asset", 3, 5, -1), Row("Equity", 3, 5, -1), Row("Asset", MaxI32, 0, 0)>>

\* Everything at once.  A capture of the deposit of eight units does not fit into
\* i64, and an authorization on account 3 not into the version column.
ConcurrentCalls ==
  {Authorize("k1", Withdrawal(1)),
   Authorize("k2", Withdrawal(1)),
   Authorize("k2", <<Debit(1, 1), Debit(1, 1), Credit(2, 2)>>),
   Authorize("k3", Withdrawal(11)),
   Authorize("k4", Deposit(8)),
   Authorize("k5", <<Debit(3, 1), Credit(2, 1)>>),
   Settle("Capture", "hold"), Settle("Void", "hold"), CreateAccount(1, 2)}
  \cup {Settle("Capture", h) : h \in Requests} \cup RefusedCalls

\* The operations with every fault; a void of the hold, and authorizations that
\* are captured by the request that follows.
FaultyCalls ==
  {Authorize("k2", Deposit(1)), Authorize("k3", Withdrawal(1)),
   Settle("Capture", "hold"), Settle("Void", "hold"), CreateAccount(5, 0)}
  \cup {Settle("Capture", h) : h \in Requests}

-----------------------------------------------------------------------------
(* The scenarios of the runs that show a disagreement. *)

CaptureCalls == {Settle("Capture", "hold")}

RetryCalls == {Authorize("k2", Deposit(1))}

\* Two units are posted and one of them is on hold.
OverdrawCalls == {Authorize("k2", Withdrawal(2))}

\* Account 3 does not exist yet.
NewAccountCalls == {CreateAccount(1, 2), Authorize("k2", <<Debit(3, 1), Credit(2, 1)>>)}
=============================================================================
