----------------------------- MODULE MCChecker -----------------------------
(***************************************************************************)
(* A small ledger with its integrity checker for TLC.  Account 1 is an     *)
(* expense account and the one that is opened an asset: both encodings     *)
(* that the checker takes for debit-normal.                                *)
(***************************************************************************)
EXTENDS MCLedger, IntegrityChecker

ExpenseAccounts == <<Row("Expense", 3, 2, -1), Row("Equity", 3, 2, -1)>>

\* A hold that may be settled twice, and an account that is opened.
CheckerCalls == {Settle("Capture", "hold"), CreateAccount(1, 2)}
=============================================================================
