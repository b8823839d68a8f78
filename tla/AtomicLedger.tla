---------------------------- MODULE AtomicLedger ----------------------------
(***************************************************************************)
(* What the ledger promises, without handlers, locks, versions or a cache: *)
(* a book of two-phase transactions in which every operation happens at    *)
(* once.  README.md, "Guarantees" and "Transaction Lifecycle", is the text *)
(* this states.                                                            *)
(***************************************************************************)
EXTENDS Domain

CONSTANTS
  Ids,              \* transaction ids
  Keys,             \* idempotency keys clients use
  LegLists,         \* the transfers they ask for
  OpeningBalances,  \* account id -> type, posted and pending
  OpeningBook       \* transaction id -> key, status and legs

VARIABLES balances, book

bookVars == <<balances, book>>

BookInit == balances = OpeningBalances /\ book = OpeningBook

LegAccounts(ls) == {ls[i].account : i \in DOMAIN ls}

\* What an operation adds to the posted and pending balance of an account whose
\* legs come to delta.
PostedPart(op, delta) == IF op = "Capture" THEN delta ELSE 0

PendingPart(op, delta) == IF op = "Authorize" THEN delta ELSE -delta

\* Every account of the transfer moves by its part and stays within i64; no
\* other account moves.
Move(ls, op) ==
  /\ LegAccounts(ls) \subseteq DOMAIN balances
  /\ balances' = [a \in DOMAIN balances |->
       IF a \in LegAccounts(ls)
       THEN LET delta == leg_delta(balances[a].type, ls, a)
            IN  [balances[a] EXCEPT !.posted = @ + PostedPart(op, delta),
                                    !.pending = @ + PendingPart(op, delta)]
       ELSE balances[a]]
  /\ \A a \in LegAccounts(ls) : balances'[a].posted \in I64 /\ balances'[a].pending \in I64

\* A new account starts at zero.
Open == \E a \in DOMAIN balances' \ DOMAIN balances, t \in AccountType :
  /\ balances' = [b \in DOMAIN balances \cup {a} |->
                    IF b = a THEN [type |-> t, posted |-> 0, pending |-> 0] ELSE balances[b]]
  /\ UNCHANGED book

\* Authorize: balanced legs, a key that was never used, and the hold appears.
Hold(t, k, ls) ==
  /\ t \notin DOMAIN book
  /\ book' = [u \in DOMAIN book \cup {t} |->
                IF u = t THEN [key |-> k, status |-> "Pending", legs |-> ls] ELSE book[u]]
  /\ \A u \in DOMAIN book : book[u].key # k
  /\ validate_transaction_balance(ls) = "Ok"
  /\ Move(ls, "Authorize")

\* Capture or void: once per transaction, and the whole of it.
Settle(t, op) ==
  /\ t \in DOMAIN book
  /\ book[t].status = "Pending"
  /\ book' = [book EXCEPT ![t].status = IF op = "Capture" THEN "Posted" ELSE "Voided"]
  /\ Move(book[t].legs, op)

BookNext ==
  \/ Open
  \/ \E t \in Ids, k \in Keys, ls \in LegLists : Hold(t, k, ls)
  \/ \E t \in Ids, op \in {"Capture", "Void"} : Settle(t, op)

BookSpec == BookInit /\ [][BookNext]_bookVars
=============================================================================
