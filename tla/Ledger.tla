------------------------------- MODULE Ledger -------------------------------
(***************************************************************************)
(* LedgerService (service/ledger.rs) over PostgresStorage and BalanceCache *)
(* as concurrent request handlers.                                         *)
(*                                                                         *)
(* Every request is one handler, a process that goes through the awaits of *)
(* authorize, capture, void or create_account; each step below is the code *)
(* between two awaits, or one statement the database executes.  A          *)
(* handler's statements run in one READ COMMITTED transaction: what it     *)
(* writes stays in dirty[h] until its commit publishes it, the account     *)
(* rows it read FOR UPDATE (seen[h]) stay locked until then, and the cache *)
(* is changed afterwards, account by account, with no lock held.           *)
(*                                                                         *)
(* A request creates at most one transaction, so the id the database gives *)
(* that transaction is the request itself.                                 *)
(***************************************************************************)
EXTENDS Domain, FiniteSets

CONSTANTS
  Requests,              \* the requests of a run, one handler each
  Calls,                 \* what clients may ask for
  OpeningAccounts,       \* the database the server starts on: account rows
  OpeningNextAccountId,  \* ... the next id of their sequence
  OpeningTransactions,   \* ... and the transactions that produced them
  NoTransaction,         \* id 0, which TransactionId::new rejects
  MaxI32,                \* the largest value of the version column (INTEGER)
  MaxConnections,        \* size of the connection pool
  ConcurrentSettlement,  \* may clients settle one transaction twice at once?
  Faults                 \* what may go wrong

FaultKind == {"cancel", "database", "timeout", "crash", "panic"}

AccountIds == Nat \ {0}

TransactionIds == Requests \cup DOMAIN OpeningTransactions

Account == [type : AccountType, version : 0 .. MaxI32, posted : I64, pending : I64]

\* A transactions row with its entries: the legs never change, and the one
\* statement that updates entry statuses gives all entries the same one.  Of
\* posted_at only matters whether there is one.
Transaction == [key : STRING, status : TransactionStatus, posted_at : BOOLEAN,
                entry_status : EntryStatus, legs : Seq(TransferLeg)]

\* Transaction::new accepts the row, as build_transaction requires.
Readable(row) == row.key # "" /\ (row.posted_at <=> row.status = "Posted")

AuthorizeCall == [op : {"Authorize"}, key : STRING, metadata_parses : BOOLEAN,
                  legs : Seq(ProtoLeg)]

SettleCall == [op : {"Capture", "Void"}, tx : TransactionIds \cup {NoTransaction}]

CreateAccountCall == [op : {"CreateAccount"}, account_type : Int, has_asset_code : BOOLEAN,
                      asset_scale : Int]

NoCall == [op |-> "None"]

ASSUME RequestsAssumption == IsFiniteSet(Requests) /\ NoTransaction \notin TransactionIds

ASSUME CallsAssumption == \A c \in Calls :
                             \/ c \in AuthorizeCall
                             \/ c \in SettleCall
                             \/ c \in CreateAccountCall

ASSUME LimitsAssumption ==
         /\ MaxI32 \in Nat
         /\ MaxConnections \in Nat \ {0}
         /\ ConcurrentSettlement \in BOOLEAN
         /\ Faults \subseteq FaultKind

ASSUME OpeningAccountsAssumption ==
         /\ DOMAIN OpeningAccounts \subseteq AccountIds
         /\ OpeningNextAccountId \in AccountIds
         /\ \A a \in DOMAIN OpeningAccounts : a < OpeningNextAccountId
         /\ OpeningAccounts \in [DOMAIN OpeningAccounts -> Account]

ASSUME OpeningTransactionsAssumption ==
         /\ OpeningTransactions \in [DOMAIN OpeningTransactions -> Transaction]
         /\ Requests \cap DOMAIN OpeningTransactions = {}
         /\ \A t \in DOMAIN OpeningTransactions : Readable(OpeningTransactions[t])
         /\ \A t, u \in DOMAIN OpeningTransactions :
              OpeningTransactions[t].key = OpeningTransactions[u].key => t = u

-----------------------------------------------------------------------------
VARIABLES
  accounts,       \* committed accounts rows, by id
  transactions,   \* committed transactions rows with their entries, by id
  nextAccountId,  \* the accounts id sequence (survives rollbacks)
  cache,          \* BalanceCache: account id -> posted and pending
  up,             \* is the server process running?
  pc,             \* where each handler is
  call,           \* the request it serves
  legs,           \* its parsed legs, or the entries it fetched
  seen,           \* account rows it holds FOR UPDATE -> version it read
  checked,        \* legs whose funds it has checked
  dirty,          \* account rows it wrote and did not commit yet
  unapplied,      \* accounts whose committed delta is not in the cache yet
  reply           \* the answer it gave

database == <<accounts, transactions, nextAccountId>>
locals == <<pc, call, legs, seen, checked, dirty, unapplied, reply>>
vars == <<database, cache, up, locals>>

Empty == [x \in {} |-> 0]

NoReply == [code |-> "None", tx |-> NoTransaction]

Codes == {"None", "Ok", "Unknown", "AccountNotFound", "TransactionNotFound",
          "InsufficientFunds", "InvalidTransactionState", "DuplicateTransaction",
          "UnbalancedTransaction", "InvalidArgument", "VersionConflict", "Internal"}

\* The places where a handler is suspended.  "commit" has sent COMMIT to the
\* database; "committed" is after the database executed it and before the
\* handler resumes; "apply" is inside the cache loop.
Labels == {"idle", "begin", "find", "read", "lock", "check", "create", "update",
           "insert", "commit", "committed", "apply", "done"}

\* A handler here has a connection of the pool checked out.
Connected == {"find", "read", "lock", "check", "create", "update", "insert",
              "commit", "committed"}

Settles(c) == c.op \in {"Capture", "Void"}

Touched(h) == {legs[h][i].account : i \in DOMAIN legs[h]}

\* f with the entries of g added or overwritten.
Overwrite(f, g) ==
  [x \in DOMAIN f \cup DOMAIN g |-> IF x \in DOMAIN g THEN g[x] ELSE f[x]]

Extend(f, x, y) == Overwrite(f, [z \in {x} |-> y])

\* load_all_balances.
Balances == [a \in DOMAIN accounts |->
               [posted |-> accounts[a].posted, pending |-> accounts[a].pending]]

\* No request has been made yet.
Opened ==
  /\ accounts = OpeningAccounts
  /\ transactions = OpeningTransactions
  /\ nextAccountId = OpeningNextAccountId
  /\ pc = [h \in Requests |-> "idle"]
  /\ call = [h \in Requests |-> NoCall]
  /\ legs = [h \in Requests |-> <<>>]
  /\ seen = [h \in Requests |-> Empty]
  /\ checked = [h \in Requests |-> 0]
  /\ dirty = [h \in Requests |-> Empty]
  /\ unapplied = [h \in Requests |-> {}]
  /\ reply = [h \in Requests |-> NoReply]

Init == Opened /\ cache = Balances /\ up = TRUE

-----------------------------------------------------------------------------
(* How a handler ends. *)

Answer(h, code, tx) ==
  /\ pc' = [pc EXCEPT ![h] = "done"]
  /\ reply' = [reply EXCEPT ![h] = [code |-> code, tx |-> tx]]

\* An error return leaves the database transaction open on its connection.
FailUnrolled(h, code) ==
  /\ Answer(h, code, NoTransaction)
  /\ dirty' = [dirty EXCEPT ![h] = Empty]
  /\ unapplied' = [unapplied EXCEPT ![h] = {}]
  /\ legs' = [legs EXCEPT ![h] = <<>>]
  /\ checked' = [checked EXCEPT ![h] = 0]
  /\ UNCHANGED <<database, cache, up, call, seen>>

\* An error return drops the handler's locals and with them the sqlx
\* transaction, which rolls it back: locks and uncommitted rows are gone.
Fail(h, code) ==
  /\ Answer(h, code, NoTransaction)
  /\ seen' = [seen EXCEPT ![h] = Empty]
  /\ dirty' = [dirty EXCEPT ![h] = Empty]
  /\ unapplied' = [unapplied EXCEPT ![h] = {}]
  /\ legs' = [legs EXCEPT ![h] = <<>>]
  /\ checked' = [checked EXCEPT ![h] = 0]
  /\ UNCHANGED <<database, cache, up, call>>

Goto(h, label) == pc' = [pc EXCEPT ![h] = label]

-----------------------------------------------------------------------------
(* Arrival: everything a handler does before its first await. *)

authorize_arguments(c) ==
  IF c.key = "" \/ ~c.metadata_parses \/ \E i \in DOMAIN c.legs : ~leg_parses(c.legs[i])
  THEN "InvalidArgument"
  ELSE validate_transaction_balance(parse_transfer_legs(c.legs))

create_account_arguments(c) ==
  IF \/ c.account_type \notin DOMAIN AccountTypeOfProto
     \/ ~c.has_asset_code
     \/ as_u8(c.asset_scale) > 18
  THEN "InvalidArgument"
  ELSE "Ok"

settle_arguments(c) == IF c.tx = NoTransaction THEN "InvalidArgument" ELSE "Ok"

arguments(c) ==
  CASE c.op = "Authorize" -> authorize_arguments(c)
    [] c.op = "CreateAccount" -> create_account_arguments(c)
    [] OTHER -> settle_arguments(c)

\* The client side: with ConcurrentSettlement = FALSE no client captures or
\* voids a transaction while another capture or void of it is under way.  Under
\* way means: not yet decided in the database.  Cancel and DatabaseError decide
\* at once; a client that was answered with an unknown outcome cannot observe it.
ClientMaySend(c) ==
  Settles(c) /\ ~ConcurrentSettlement =>
    \A g \in Requests : Settles(call[g]) /\ call[g].tx = c.tx => pc[g] = "done"

Receive(h) ==
  /\ up
  /\ pc[h] = "idle"
  /\ \E c \in Calls :
       /\ ClientMaySend(c)
       /\ call' = [call EXCEPT ![h] = c]
       /\ IF arguments(c) = "Ok"
          THEN /\ Goto(h, "begin")
               /\ legs' = [legs EXCEPT ![h] =
                             IF c.op = "Authorize" THEN parse_transfer_legs(c.legs) ELSE <<>>]
               /\ UNCHANGED reply
          ELSE Answer(h, arguments(c), NoTransaction) /\ UNCHANGED legs
  /\ UNCHANGED <<database, cache, up, seen, checked, dirty, unapplied>>

-----------------------------------------------------------------------------
(* The database transaction. *)

PoolHasRoom == Cardinality({g \in Requests : pc[g] \in Connected}) < MaxConnections

\* storage.begin(): waits for a connection of the pool.
Begin(h) ==
  /\ pc[h] = "begin"
  /\ PoolHasRoom
  /\ Goto(h, CASE call[h].op = "Authorize" -> "find"
               [] call[h].op = "CreateAccount" -> "insert"
               [] OTHER -> "read")
  /\ UNCHANGED <<database, cache, up, call, legs, seen, checked, dirty, unapplied, reply>>

find_transaction_by_key(k) == {t \in DOMAIN transactions : transactions[t].key = k}

\* authorize: an idempotency key that is already in the table is answered with
\* the transaction it belongs to.
FindTransactionByKey(h) ==
  /\ pc[h] = "find"
  /\ \/ \E t \in find_transaction_by_key(call[h].key) : Answer(h, "Ok", t)
     \/ /\ find_transaction_by_key(call[h].key) = {}
        /\ Goto(h, "lock")
        /\ UNCHANGED reply
  /\ UNCHANGED <<database, cache, up, call, legs, seen, checked, dirty, unapplied>>

\* The status a capture or a void leads to.
TargetStatus(c) == IF c.op = "Capture" THEN "Posted" ELSE "Voided"

\* Any settled transaction counts as settled the way that was asked for.
settle_decision_lenient(c, status) == IF status = "Pending" THEN "proceed" ELSE "Ok"

\* Only the idempotent case is recognised.
settle_decision_unguarded(c, status) == IF status = TargetStatus(c) THEN "Ok" ELSE "proceed"

\* Already in the target state: success.  Otherwise only Pending may go on.
settle_decision(c, status) ==
  CASE status = TargetStatus(c) -> "Ok"
    [] status = "Pending" -> "proceed"
    [] OTHER -> "InvalidTransactionState"

get_entries_for_transaction(t) == transactions[t].legs

\* capture and void: the status is read without a lock, before any account is
\* locked, and never read again.
GetTransaction(h) ==
  LET t == call[h].tx
      decision == settle_decision(call[h], transactions[t].status)
  IN  /\ pc[h] = "read"
      /\ \/ t \notin DOMAIN transactions /\ Fail(h, "TransactionNotFound")
         \/ /\ t \in DOMAIN transactions
            /\ decision = "Ok"
            /\ Answer(h, "Ok", t)
            /\ UNCHANGED <<database, cache, up, call, legs, seen, checked, dirty, unapplied>>
         \/ /\ t \in DOMAIN transactions
            /\ decision = "InvalidTransactionState"
            /\ Fail(h, "InvalidTransactionState")
         \/ /\ t \in DOMAIN transactions
            /\ decision = "proceed"
            /\ legs' = [legs EXCEPT ![h] = get_entries_for_transaction(t)]
            /\ Goto(h, "lock")
            /\ UNCHANGED <<database, cache, up, call, seen, checked, dirty, unapplied, reply>>

\* Accounts are locked in the order of the legs.
NextToLockUnsorted(h, a) ==
  /\ a \in Touched(h) \ DOMAIN seen[h]
  /\ \E i \in DOMAIN legs[h] :
       /\ legs[h][i].account = a
       /\ \A j \in DOMAIN legs[h] : j < i => legs[h][j].account \in DOMAIN seen[h]

\* Accounts are locked in ascending order of their ids (sort, dedup, loop).
NextToLock(h, a) ==
  /\ a \in Touched(h) \ DOMAIN seen[h]
  /\ \A b \in Touched(h) \ DOMAIN seen[h] : a <= b

\* A plain SELECT: nobody waits.
RowIsAlwaysFree(h, a) == TRUE

\* SELECT ... FOR UPDATE returns when no other transaction holds the row.
RowIsFree(h, a) == \A g \in Requests \ {h} : a \notin DOMAIN seen[g]

LockAccount(h) ==
  /\ pc[h] = "lock"
  /\ \E a \in Touched(h) :
       /\ NextToLock(h, a)
       /\ \/ a \notin DOMAIN accounts /\ Fail(h, "AccountNotFound")
          \/ /\ a \in DOMAIN accounts
             /\ RowIsFree(h, a)
             /\ seen' = [seen EXCEPT ![h] = Extend(@, a, accounts[a].version)]
             /\ Goto(h, IF Touched(h) \ DOMAIN seen[h] # {a} THEN "lock"
                        ELSE IF call[h].op = "Authorize" THEN "check" ELSE "update")
             /\ UNCHANGED <<database, cache, up, call, legs, checked, dirty, unapplied, reply>>

RefuseFunds(h) == Fail(h, "InsufficientFunds")

\* authorize: one leg after the other, those that take money out of an account
\* are compared with the balance in the cache.
CheckFunds(h) ==
  LET leg == legs[h][checked[h] + 1]
      a   == leg.account
      takes == reduces_balance(accounts[a].type, leg)
  IN  /\ pc[h] = "check"
      /\ \/ takes /\ a \notin DOMAIN cache /\ Fail(h, "AccountNotFound")
         \/ /\ takes /\ a \in DOMAIN cache
            /\ ~has_available(cache[a], leg.amount)
            /\ RefuseFunds(h)
         \/ /\ takes => a \in DOMAIN cache /\ has_available(cache[a], leg.amount)
            /\ checked' = [checked EXCEPT ![h] = @ + 1]
            /\ Goto(h, IF checked[h] + 1 = Len(legs[h]) THEN "create" ELSE "check")
            /\ UNCHANGED <<database, cache, up, call, legs, seen, dirty, unapplied, reply>>

\* The unique index is missing.
KeyIsNeverTaken(k) == FALSE

KeyIsTaken(k) == \E t \in DOMAIN transactions : transactions[t].key = k

\* Handlers whose uncommitted INSERT is in the unique index.
Inserted(g) == call[g].op = "Authorize" /\ pc[g] \in {"update", "commit"}

KeyIsReserved(h) == \E g \in Requests \ {h} : Inserted(g) /\ call[g].key = call[h].key

\* authorize: INSERT INTO transactions.  The unique index makes it wait for an
\* uncommitted row with the same key and fail on a committed one.
CreateTransaction(h) ==
  /\ pc[h] = "create"
  /\ \/ KeyIsTaken(call[h].key) /\ Fail(h, "DuplicateTransaction")
     \/ /\ ~KeyIsTaken(call[h].key)
        /\ ~KeyIsReserved(h)
        /\ Goto(h, "update")
        /\ UNCHANGED <<database, cache, up, call, legs, seen, checked, dirty, unapplied, reply>>

\* The two columns of `balance_updates`.
posted_delta(h, a) ==
  IF call[h].op = "Capture" THEN leg_delta(accounts[a].type, legs[h], a) ELSE 0

\* A void that leaves the hold in place.
pending_delta_kept(h, a) ==
  CASE call[h].op = "Authorize" -> leg_delta(accounts[a].type, legs[h], a)
    [] call[h].op = "Capture" -> -leg_delta(accounts[a].type, legs[h], a)
    [] OTHER -> 0

pending_delta(h, a) ==
  IF call[h].op = "Authorize" THEN leg_delta(accounts[a].type, legs[h], a)
                              ELSE -leg_delta(accounts[a].type, legs[h], a)

\* `balance_updates` is in the order of first appearance among the legs.
FirstOf(h, S, a) ==
  \E i \in DOMAIN legs[h] :
    /\ legs[h][i].account = a
    /\ a \in S
    /\ \A j \in DOMAIN legs[h] : j < i => legs[h][j].account \notin S

\* The row UPDATE accounts would write.
UpdatedRow(h, a) ==
  [accounts[a] EXCEPT !.version = @ + 1,
                      !.posted = @ + posted_delta(h, a),
                      !.pending = @ + pending_delta(h, a)]

\* Arithmetic without a range check.
RowAlwaysFits(row) == TRUE

\* The columns' types: the database rejects a value that does not fit.
RowFits(row) ==
  row.version \in 0 .. MaxI32 /\ row.posted \in I64 /\ row.pending \in I64

\* update_account_balance, after the status and entry statements of the same
\* transaction: guarded by the version read under the lock.
UpdateAccountBalance(h) ==
  /\ pc[h] = "update"
  /\ \E a \in Touched(h) :
       /\ FirstOf(h, Touched(h) \ DOMAIN dirty[h], a)
       /\ \/ accounts[a].version # seen[h][a] /\ Fail(h, "VersionConflict")
          \/ /\ accounts[a].version = seen[h][a]
             /\ ~RowFits(UpdatedRow(h, a))
             /\ Fail(h, "Internal")
          \/ /\ accounts[a].version = seen[h][a]
             /\ RowFits(UpdatedRow(h, a))
             /\ dirty' = [dirty EXCEPT ![h] = Extend(@, a, UpdatedRow(h, a))]
             /\ Goto(h, IF Touched(h) \ DOMAIN dirty[h] # {a} THEN "update" ELSE "commit")
             /\ UNCHANGED <<database, cache, up, call, legs, seen, checked, unapplied, reply>>

\* create_account: INSERT INTO accounts RETURNING id.
InsertAccount(h) ==
  /\ pc[h] = "insert"
  /\ dirty' = [dirty EXCEPT ![h] =
                 Extend(@, nextAccountId,
                        [type |-> AccountTypeOfProto[call[h].account_type],
                         version |-> 0, posted |-> 0, pending |-> 0])]
  /\ nextAccountId' = nextAccountId + 1
  /\ Goto(h, "commit")
  /\ UNCHANGED <<accounts, transactions, cache, up, call, legs, seen, checked, unapplied, reply>>

\* The row and the entries of a new hold.
create_transaction(k, ls) ==
  [key |-> k, status |-> "Pending", posted_at |-> FALSE, entry_status |-> "Pending", legs |-> ls]

\* A posted_at that is not given leaves the old one.
update_transaction_status_only(row, status) ==
  [row EXCEPT !.status = status, !.posted_at = @ \/ status = "Posted"]

\* capture passes its time, void passes None.
update_transaction_status(row, status) ==
  [row EXCEPT !.status = status, !.posted_at = (status = "Posted")]

update_entry_status_by_transaction(row, status) == [row EXCEPT !.entry_status = status]

\* A settlement that forgets the entries.
settled_row_only(row, c) == update_transaction_status(row, TargetStatus(c))

settled(row, c) ==
  update_entry_status_by_transaction(update_transaction_status(row, TargetStatus(c)), TargetStatus(c))

\* What the handler's transaction leaves in the transactions and entries tables.
TransactionsAfter(h) ==
  CASE call[h].op = "Authorize" ->
         Extend(transactions, h, create_transaction(call[h].key, legs[h]))
    [] Settles(call[h]) -> [transactions EXCEPT ![call[h].tx] = settled(@, call[h])]
    [] OTHER -> transactions

\* The database executes COMMIT: everything becomes visible at once and the
\* row locks are released.
Commit(h) ==
  /\ pc[h] = "commit"
  /\ accounts' = Overwrite(accounts, dirty[h])
  /\ transactions' = TransactionsAfter(h)
  /\ seen' = [seen EXCEPT ![h] = Empty]
  /\ dirty' = [dirty EXCEPT ![h] = Empty]
  /\ unapplied' = [unapplied EXCEPT ![h] = DOMAIN dirty[h]]
  /\ Goto(h, "committed")
  /\ UNCHANGED <<nextAccountId, cache, up, call, legs, checked, reply>>

-----------------------------------------------------------------------------
(* The cache, after the commit. *)

\* The cache takes the current row instead of adding the handler's delta.
apply_delta_absolute(h, a) ==
  [b \in DOMAIN cache |->
     IF b = a THEN [posted |-> accounts[b].posted, pending |-> accounts[b].pending]
              ELSE cache[b]]

\* cache.apply_delta: and_modify, so an account that is not cached is skipped.
apply_delta(h, a) ==
  [b \in DOMAIN cache |->
     IF b = a THEN [posted  |-> saturating_add(cache[b].posted, posted_delta(h, a)),
                    pending |-> saturating_add(cache[b].pending, pending_delta(h, a))]
              ELSE cache[b]]

\* One turn of the loop over balance_updates; the reply follows the last one.
ApplyDelta(h) ==
  /\ pc[h] \in {"committed", "apply"}
  /\ call[h].op # "CreateAccount"
  /\ \E a \in unapplied[h] :
       /\ FirstOf(h, unapplied[h], a)
       /\ cache' = apply_delta(h, a)
       /\ unapplied' = [unapplied EXCEPT ![h] = @ \ {a}]
       /\ IF unapplied[h] = {a}
          THEN Answer(h, "Ok", IF call[h].op = "Authorize" THEN h ELSE call[h].tx)
          ELSE Goto(h, "apply") /\ UNCHANGED reply
  /\ UNCHANGED <<database, up, call, legs, seen, checked, dirty>>

\* create_account: cache.set(id, 0, 0), whatever the cache holds by now.
SetCache(h) ==
  /\ pc[h] = "committed"
  /\ call[h].op = "CreateAccount"
  /\ \E a \in unapplied[h] : cache' = Extend(cache, a, [posted |-> 0, pending |-> 0])
  /\ unapplied' = [unapplied EXCEPT ![h] = {}]
  /\ Answer(h, "Ok", NoTransaction)
  /\ UNCHANGED <<database, up, call, legs, seen, checked, dirty>>

-----------------------------------------------------------------------------
(* What may go wrong.  A handler can be stopped at an await only; in the cache *)
(* loop there is none.                                                         *)

\* The client goes away and the server drops the handler's future.  At "commit"
\* the ROLLBACK is queued behind a COMMIT that was sent: that the COMMIT is
\* executed nevertheless is Commit followed by Cancel at "committed".
Cancel(h) ==
  /\ "cancel" \in Faults
  /\ pc[h] \in Connected \cup {"begin"}
  /\ Fail(h, "Unknown")

\* A statement or the connection fails.  After "commit" was executed this is
\* the lost acknowledgement: the handler reports an error, the data is there.
\* Here, too, a COMMIT that was sent is executed before the answer or never.
DatabaseError(h) ==
  /\ "database" \in Faults
  /\ pc[h] \in Connected \cup {"begin"}
  /\ Fail(h, "Internal")

\* acquire_timeout: no connection became free in time.
PoolTimeout(h) ==
  /\ "timeout" \in Faults
  /\ pc[h] = "begin"
  /\ ~PoolHasRoom
  /\ Fail(h, "Internal")

InFlight(h) == pc[h] \notin {"idle", "done"}

\* The process ends with its memory; the database rolls back what was open.
Die ==
  /\ up
  /\ up' = FALSE
  /\ cache' = Empty
  /\ pc' = [h \in Requests |-> IF InFlight(h) THEN "done" ELSE pc[h]]
  /\ reply' = [h \in Requests |->
                 IF InFlight(h) THEN [code |-> "Unknown", tx |-> NoTransaction] ELSE reply[h]]
  /\ seen' = [h \in Requests |-> Empty]
  /\ dirty' = [h \in Requests |-> Empty]
  /\ unapplied' = [h \in Requests |-> {}]
  /\ legs' = [h \in Requests |-> <<>>]
  /\ checked' = [h \in Requests |-> 0]
  /\ UNCHANGED <<database, call>>

Crash == "crash" \in Faults /\ Die

\* serve(): the cache is rehydrated before the listeners are bound.
Restart ==
  /\ ~up
  /\ up' = TRUE
  /\ cache' = Balances
  /\ UNCHANGED <<database, locals>>

-----------------------------------------------------------------------------
Step(h) ==
  \/ Begin(h)
  \/ FindTransactionByKey(h)
  \/ GetTransaction(h)
  \/ LockAccount(h)
  \/ CheckFunds(h)
  \/ CreateTransaction(h)
  \/ UpdateAccountBalance(h)
  \/ InsertAccount(h)
  \/ Commit(h)
  \/ ApplyDelta(h)
  \/ SetCache(h)

Fault(h) == Cancel(h) \/ DatabaseError(h) \/ PoolTimeout(h)

\* All requests are served; without this TLC would call the end a deadlock.
AllServed == (\A h \in Requests : pc[h] = "done") /\ up /\ UNCHANGED vars

Next ==
  \/ \E h \in Requests : Receive(h) \/ Step(h) \/ Fault(h)
  \/ Crash
  \/ Restart
  \/ AllServed

Spec == Init /\ [][Next]_vars

\* The executor polls every handler that can go on, the database executes
\* every statement that is not waiting, and a stopped server is restarted.
Fairness == (\A h \in Requests : WF_vars(Step(h))) /\ WF_vars(Restart)

-----------------------------------------------------------------------------
(* Properties. *)

\* Every variable keeps its shape; balances stay within BIGINT and versions
\* within INTEGER because an UPDATE that would leave them fails.
TypeOK ==
  /\ DOMAIN accounts \subseteq AccountIds
  /\ accounts \in [DOMAIN accounts -> Account]
  /\ DOMAIN transactions \subseteq TransactionIds
  /\ transactions \in [DOMAIN transactions -> Transaction]
  /\ nextAccountId \in AccountIds
  /\ DOMAIN cache \subseteq AccountIds
  /\ cache \in [DOMAIN cache -> [posted : I64, pending : I64]]
  /\ up \in BOOLEAN
  /\ pc \in [Requests -> Labels]
  /\ call \in [Requests -> Calls \cup {NoCall}]
  /\ legs \in [Requests -> Seq(TransferLeg)]
  /\ \A h \in Requests :
       /\ DOMAIN seen[h] \subseteq DOMAIN accounts
       /\ seen[h] \in [DOMAIN seen[h] -> 0 .. MaxI32]
       /\ DOMAIN dirty[h] \subseteq AccountIds
       /\ dirty[h] \in [DOMAIN dirty[h] -> Account]
  /\ DOMAIN seen = Requests /\ DOMAIN dirty = Requests
  /\ checked \in [Requests -> Nat]
  /\ unapplied \in [Requests -> SUBSET AccountIds]
  /\ reply \in [Requests -> [code : Codes, tx : TransactionIds \cup {NoTransaction}]]

\* No handler ever answers VersionConflict: the version compared by
\* update_account_balance was read under a row lock that is still held.
NoVersionConflict == \A h \in Requests : reply[h].code # "VersionConflict"

\* h cannot go on before g gives something up: a row lock, an uncommitted
\* unique key, or a connection.
WaitsFor(h, g) ==
  /\ g # h
  /\ \/ pc[h] = "lock" /\ \E a \in Touched(h) : NextToLock(h, a) /\ a \in DOMAIN seen[g]
     \/ pc[h] = "create" /\ Inserted(g) /\ call[g].key = call[h].key
     \/ pc[h] = "begin" /\ ~PoolHasRoom /\ pc[g] \in Connected

\* "No circular wait = no deadlock": no group of handlers in which each one
\* waits for another one of the group, over row locks, the unique index on the
\* idempotency key and the connection pool together.
NoCircularWait ==
  \A S \in SUBSET Requests : S # {} => \E h \in S : \A g \in S : ~WaitsFor(h, g)

\* A transaction id in an Ok answer to authorize is that of a committed
\* transaction with the request's key, and no two transactions share a key:
\* whatever retries, crashes and races happen, one key moves money once.
OneTransactionPerKey ==
  /\ \A t, u \in DOMAIN transactions : transactions[t].key = transactions[u].key => t = u
  /\ \A h \in Requests :
       call[h].op = "Authorize" /\ reply[h].code = "Ok" =>
         /\ reply[h].tx \in DOMAIN transactions
         /\ transactions[reply[h].tx].key = call[h].key

SumOver(f(_), S) == MapThenSumSet(f, S)

\* check_global_balance: over all entries that are not voided, total debits
\* equal total credits.
GlobalBalance ==
  LET live == {t \in DOMAIN transactions : transactions[t].entry_status # "Voided"}
  IN  SumOver(LAMBDA t : leg_totals(transactions[t].legs).debits, live)
        = SumOver(LAMBDA t : leg_totals(transactions[t].legs).credits, live)

\* No committed row is ever unreadable: build_transaction would report it as
\* DataCorruption to every later capture, void and retry.  This holds even when a
\* void overtakes a capture of the same transaction.
RowsStayReadable == \A t \in DOMAIN transactions : Readable(transactions[t])

AccountsWith(normal) == {a \in DOMAIN accounts : normal_balance(accounts[a].type) = normal}

\* Money never appears or disappears: the materialised balances of debit-normal
\* and credit-normal accounts have the same totals, posted and pending alike, in
\* every committed state, even when a transaction is settled twice.
TrialBalance ==
  /\ SumOver(LAMBDA a : accounts[a].posted, AccountsWith("Debit"))
       = SumOver(LAMBDA a : accounts[a].posted, AccountsWith("Credit"))
  /\ SumOver(LAMBDA a : accounts[a].pending, AccountsWith("Debit"))
       = SumOver(LAMBDA a : accounts[a].pending, AccountsWith("Credit"))

EntryBalance(a, status) ==
  SumOver(LAMBDA t : leg_delta(accounts[a].type, transactions[t].legs, a),
          {t \in DOMAIN transactions : transactions[t].entry_status = status})

\* check_account_balances: each materialised balance is the one recomputed from
\* the entries.
Reconciled ==
  \A a \in DOMAIN accounts :
    /\ accounts[a].posted = EntryBalance(a, "Posted")
    /\ accounts[a].pending = EntryBalance(a, "Pending")

\* Committed deltas of account a that have not reached the cache.
Unapplied(delta(_, _), a) ==
  SumOver(LAMBDA h : delta(h, a), {h \in Requests : a \in unapplied[h]})

\* The cache is exactly the database minus the deltas whose handlers are between
\* their commit and their reply: an answered request is always visible to
\* GetBalance, and when nothing is in flight the two agree.
CacheLagsOnlyInFlight ==
  up => \A a \in DOMAIN accounts :
          \/ /\ a \in DOMAIN cache
             /\ cache[a].posted + Unapplied(posted_delta, a) = accounts[a].posted
             /\ cache[a].pending + Unapplied(pending_delta, a) = accounts[a].pending
          \/ /\ a \notin DOMAIN cache
             /\ \E h \in Requests : call[h].op = "CreateAccount" /\ a \in unapplied[h]

\* A transaction that is posted or voided stays what it is, and its entries with
\* it ("NEVER update status after Posted/Voided").
TerminalIsFinal ==
  [][\A t \in DOMAIN transactions :
       transactions[t].status \in {"Posted", "Voided"} => transactions'[t] = transactions[t]]_vars

\* An Ok answer to a capture or a void is a promise: the transaction is in that
\* state from then on, also after a crash.
SettlementHolds ==
  \A h \in Requests :
    Settles(call[h]) /\ reply[h].code = "Ok" =>
      /\ call[h].tx \in DOMAIN transactions
      /\ transactions[call[h].tx].status = TargetStatus(call[h])

-----------------------------------------------------------------------------
(* The parts of the inductive invariant of LedgerInvariant. *)

\* A handler is only where its operation goes, with arguments that were accepted.
PhaseOfOperation ==
  \A h \in Requests :
    /\ call[h] = NoCall <=> pc[h] = "idle"
    /\ InFlight(h) => arguments(call[h]) = "Ok"
    /\ pc[h] \in {"find", "check", "create"} => call[h].op = "Authorize"
    /\ pc[h] = "read" => Settles(call[h])
    /\ pc[h] = "insert" => call[h].op = "CreateAccount"
    /\ pc[h] \in {"lock", "update"} => call[h].op # "CreateAccount"
    /\ pc[h] # "done" => reply[h] = NoReply

\* Row locks are exclusive, are held only inside the database transaction, cover
\* every account of the transfer once the lock loop is over, and the version a
\* handler read under its lock is the committed one for as long as it holds it.
LockDiscipline ==
  \A h \in Requests :
    /\ DOMAIN seen[h] # {} => pc[h] \in {"lock", "check", "create", "update", "commit"}
    /\ \A g \in Requests \ {h} : DOMAIN seen[g] \cap DOMAIN seen[h] = {}
    /\ \A a \in DOMAIN seen[h] : accounts[a].version = seen[h][a]
    /\ pc[h] \in {"check", "create", "update"} => Touched(h) \subseteq DOMAIN seen[h]

\* Uncommitted rows are locked ones, or one new account whose id nobody else has.
UncommittedRows ==
  /\ \A a \in DOMAIN accounts : a < nextAccountId
  /\ \A h \in Requests :
       /\ DOMAIN dirty[h] # {} => pc[h] \in {"update", "commit"}
       /\ call[h].op # "CreateAccount" => DOMAIN dirty[h] \subseteq DOMAIN seen[h]
       /\ call[h].op = "CreateAccount" =>
            \A a \in DOMAIN dirty[h] : a \notin DOMAIN accounts /\ a < nextAccountId
       /\ \A g \in Requests \ {h} : DOMAIN dirty[g] \cap DOMAIN dirty[h] = {}

\* Every lock a handler holds is on a smaller id than every lock it still needs.
LocksAscend ==
  \A h \in Requests : pc[h] = "lock" =>
    \A a \in DOMAIN seen[h], b \in Touched(h) \ DOMAIN seen[h] : a < b

\* A handler whose INSERT went through is the only one with that key, and a
\* request's transaction is in the table from its commit on and not before.
KeyReservations ==
  \A h \in Requests :
    /\ Inserted(h) => ~KeyIsTaken(call[h].key) /\ ~KeyIsReserved(h)
    /\ h \in DOMAIN transactions => pc[h] \in {"committed", "apply", "done"}
    /\ call[h].op = "Authorize" /\ pc[h] \in {"committed", "apply"} =>
         h \in DOMAIN transactions /\ transactions[h].key = call[h].key

-----------------------------------------------------------------------------
\* Every request that was accepted is answered, also one that waits for a row or a
\* connection: each is made once, so from some point on none is under way.
EveryCallAnswered == <>[](\A h \in Requests : ~InFlight(h))

-----------------------------------------------------------------------------
(* What the documentation says and the code does not do. *)

\* "Same operation = success": an authorize is never refused because its own
\* idempotency key is in use.
RetriesSucceed == \A h \in Requests : reply[h].code # "DuplicateTransaction"

\* What pending transactions will take out of account a.
HeldOut(a) ==
  SumOver(LAMBDA t : SumOver(LAMBDA i : IF /\ transactions[t].legs[i].account = a
                                          /\ reduces_balance(accounts[a].type, transactions[t].legs[i])
                                       THEN transactions[t].legs[i].amount ELSE 0,
                             DOMAIN transactions[t].legs),
          {t \in DOMAIN transactions : transactions[t].status = "Pending"})

\* "Funds are reserved": the posted balance of an account covers all the pending
\* withdrawals from it.
HeldFundsAreReserved == \A a \in DOMAIN accounts : HeldOut(a) <= accounts[a].posted

\* The cache mirrors the balances of the accounts table whenever no request is
\* under way.
IdleCacheMirrorsDatabase == up /\ (\A h \in Requests : ~InFlight(h)) => cache = Balances
=============================================================================
