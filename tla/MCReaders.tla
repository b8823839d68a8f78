----------------------------- MODULE MCReaders -----------------------------
(***************************************************************************)
(* A small ledger with read-only calls for TLC.                            *)
(***************************************************************************)
EXTENDS MCLedger, Readers

Get(op, a) == [op |-> op, account_id |-> a]

\* A pending deposit that may be settled either way, and a new one.
ReadersCalls ==
  {Authorize("k2", Deposit(1)), Settle("Capture", "hold"), Settle("Void", "hold")}

\* Account 9 does not exist and 0 is no id.
AllQueries ==
  {Get("GetEntries", 1), Get("GetAccount", 1), Get("GetBalance", 1),
   Get("GetEntries", 9), Get("GetBalance", 9), Get("GetAccount", 0)}
=============================================================================
