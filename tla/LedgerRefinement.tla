-------------------------- MODULE LedgerRefinement --------------------------
(***************************************************************************)
(* The committed tables of the concurrent ledger, read as the book of      *)
(* AtomicLedger: the version column, the entry statuses, the cache and the *)
(* handlers are forgotten.                                                 *)
(***************************************************************************)
EXTENDS Ledger

BalancesOf(rows) ==
  [a \in DOMAIN rows |->
     [type |-> rows[a].type, posted |-> rows[a].posted, pending |-> rows[a].pending]]

BookOf(table) ==
  [t \in DOMAIN table |->
     [key |-> table[t].key, status |-> table[t].status, legs |-> table[t].legs]]

AcceptedAuthorizations == {c \in Calls : c.op = "Authorize" /\ arguments(c) = "Ok"}

Atomic == INSTANCE AtomicLedger WITH
  Ids <- TransactionIds,
  Keys <- {c.key : c \in AcceptedAuthorizations},
  LegLists <- {parse_transfer_legs(c.legs) : c \in AcceptedAuthorizations},
  OpeningBalances <- BalancesOf(OpeningAccounts),
  OpeningBook <- BookOf(OpeningTransactions),
  balances <- BalancesOf(accounts),
  book <- BookOf(transactions)

\* Each commit is one whole operation of the atomic ledger, and no other step
\* changes the tables: the row locks, the unique index and the one database
\* transaction per request make authorize, capture, void and create_account
\* atomic, as long as no transaction is settled twice at the same time.
ImplementsAtomicLedger == Atomic!BookSpec
=============================================================================
