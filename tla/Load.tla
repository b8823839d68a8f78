-------------------------------- MODULE Load --------------------------------
(***************************************************************************)
(* fides-load, a client of the whole ledger: main sets accounts up, spawns *)
(* workers that loop until they are told to stop, joins them and reports.  *)
(*                                                                         *)
(* The service is AtomicLedger: a call takes effect at once or not at all, *)
(* between being asked and being answered, and its answer may get lost on  *)
(* the way back.                                                           *)
(***************************************************************************)
EXTENDS AtomicLedger, FiniteSets

CONSTANTS
  Workers,     \* --concurrency
  Half,        \* --accounts / 2
  Amount,      \* --amount
  FundAmount,  \* what every asset account is funded with
  MaxRolls     \* bound on the operations of all workers

Main == "main"

Callers == Workers \cup {Main}

ASSUME LoadAssumption ==
         /\ IsFiniteSet(Workers) /\ Main \notin Workers
         /\ {Half, Amount, FundAmount, MaxRolls} \subseteq Nat \ {0}
         /\ FundAmount > 1

VARIABLES
  main,     \* where main is
  created,  \* the accounts: assets, equities, the unfunded pair
  funding,  \* the transaction that funds the next asset account, or 0
  funded,   \* how many asset accounts have been funded
  at,       \* where each worker is
  doing,    \* the counter its operation goes to
  rolls,    \* how many operations it began
  lastKey,  \* last_idempotency_key
  lastTx,   \* last_captured_tx
  asked,    \* the call each caller waits for
  answer,   \* its answer
  stats,    \* Stats
  stop,     \* the stop flag
  sent      \* history: who sent which captures and voids

setup == <<main, created, funding, funded>>
worker == <<at, doing, rolls, lastKey, lastTx>>
calls == <<asked, answer, sent>>
loadVars == <<bookVars, setup, worker, calls, stats, stop>>

Nothing == [op |-> "None"]

\* The counters whose value depends on what the service answers.  The others count
\* operations, and an operation that goes to one of them is doing "other".
Counters == {"captures", "voids", "rejected", "errors"}

assets == {created[i] : i \in 1 .. Half}

equities == {created[i] : i \in Half + 1 .. 2 * Half}

Leg(a, type, n) == [account |-> a, type |-> type, amount |-> n]

\* Takes n units out of an asset account.
Withdraw(a, e, n) == <<Leg(a, "Credit", n), Leg(e, "Debit", n)>>

\* More than the unfunded pair has.
WithdrawUnfunded == Withdraw(created[2 * Half + 1], created[2 * Half + 2], FundAmount - 1)

AuthorizeRequest(k, ls) == [op |-> "Authorize", key |-> k, legs |-> ls]

SettleRequest(op, t) == [op |-> op, tx |-> t]

CreateAccountRequest(t) == [op |-> "CreateAccount", type |-> t]

\* get_balance, get_account and get_entries of an account that exists.
ReadRequest(a) == [op |-> "Read", account |-> a]

Settles(q) == q.op \in {"Capture", "Void"}

LoadInit ==
  /\ BookInit
  /\ main = "setup" /\ created = <<>> /\ funding = 0 /\ funded = 0
  /\ at = [w \in Workers |-> "unborn"]
  /\ doing = [w \in Workers |-> "other"]
  /\ rolls = [w \in Workers |-> 0]
  /\ lastKey = [w \in Workers |-> <<>>]
  /\ lastTx = [w \in Workers |-> 0]
  /\ asked = [c \in Callers |-> Nothing]
  /\ answer = [c \in Callers |-> Nothing]
  /\ stats = [n \in Counters |-> 0]
  /\ stop = FALSE
  /\ sent = {}

-----------------------------------------------------------------------------
(* The service. *)

\* From<ServiceError> for tonic::Status.
Status(e) ==
  CASE e \in {"AccountNotFound", "TransactionNotFound"} -> "NotFound"
    [] e \in {"InsufficientFunds", "InvalidTransactionState"} -> "FailedPrecondition"
    [] e = "DuplicateTransaction" -> "AlreadyExists"
    [] e \in {"UnbalancedTransaction", "InvalidArgument"} -> "InvalidArgument"
    [] e = "VersionConflict" -> "Aborted"
    [] e = "Internal" -> "Internal"

Refusal(e) == [op |-> "Err", status |-> Status(e)]

\* The caller gets the answer, or an error that says nothing about the call:
\* Internal, or one of the connection, which is classified alike.
Reply(c, a) == answer' \in {[answer EXCEPT ![c] = x] : x \in {a, Refusal("Internal")}}

HasFunds(ls) ==
  \A i \in DOMAIN ls :
    reduces_balance(balances[ls[i].account].type, ls[i])
      => has_available(balances[ls[i].account], ls[i].amount)

ServeCreateAccount(c) ==
  LET id == Cardinality(DOMAIN balances) + 1
  IN  /\ asked[c].op = "CreateAccount"
      /\ balances' = [a \in DOMAIN balances \cup {id} |->
           IF a = id THEN [type |-> asked[c].type, posted |-> 0, pending |-> 0] ELSE balances[a]]
      /\ Open
      /\ Reply(c, [op |-> "Ok", id |-> id])

ServeAuthorize(c) ==
  LET q == asked[c]
      id == Cardinality(DOMAIN book) + 1
      known == {t \in DOMAIN book : book[t].key = q.key}
  IN  /\ q.op = "Authorize"
      /\ \/ \E t \in known : Reply(c, [op |-> "Ok", id |-> t]) /\ UNCHANGED bookVars
         \/ known = {} /\ ~HasFunds(q.legs) /\ Reply(c, Refusal("InsufficientFunds"))
            /\ UNCHANGED bookVars
         \/ known = {} /\ HasFunds(q.legs) /\ Hold(id, q.key, q.legs)
            /\ Reply(c, [op |-> "Ok", id |-> id])

ServeSettle(c) ==
  LET q == asked[c]
      status == book[q.tx].status
      target == IF q.op = "Capture" THEN "Posted" ELSE "Voided"
  IN  /\ Settles(q)
      /\ \/ status = target /\ Reply(c, [op |-> "Ok", id |-> q.tx]) /\ UNCHANGED bookVars
         \/ status \notin {target, "Pending"} /\ Reply(c, Refusal("InvalidTransactionState"))
            /\ UNCHANGED bookVars
         \/ Settle(q.tx, q.op) /\ Reply(c, [op |-> "Ok", id |-> q.tx])

ServeRead(c) ==
  asked[c].op = "Read" /\ Reply(c, [op |-> "Ok", id |-> asked[c].account]) /\ UNCHANGED bookVars

\* Nothing came of the call.
Refuse(c) ==
  /\ Reply(c, Refusal(IF asked[c].op \in {"CreateAccount", "Read"} THEN "Internal"
                      ELSE "VersionConflict"))
  /\ UNCHANGED bookVars

Serve(c) ==
  /\ asked[c] # Nothing
  /\ answer[c] = Nothing
  /\ \/ ServeCreateAccount(c) \/ ServeAuthorize(c) \/ ServeSettle(c) \/ ServeRead(c)
     \/ Refuse(c)
  /\ UNCHANGED <<setup, worker, asked, sent, stats, stop>>

Ask(c, q) ==
  /\ asked' = [asked EXCEPT ![c] = q]
  /\ answer' = [answer EXCEPT ![c] = Nothing]
  /\ sent' = IF Settles(q) THEN sent \cup {[by |-> c, op |-> q.op, tx |-> q.tx]} ELSE sent

Hear(c) == Ask(c, Nothing)

-----------------------------------------------------------------------------
(* main. *)

\* The pairs of types come in the order in which main creates them.
TypeOfAccount(n) ==
  IF n <= Half \/ n = 2 * Half + 1 THEN "Asset" ELSE "Equity"

SetupRequest ==
  LET n == Len(created)
      a == created[funded + 1]
      e == created[Half + 1 + (funded % Half)]
  IN  CASE n < 2 * Half + 2 -> CreateAccountRequest(TypeOfAccount(n + 1))
        [] n = 2 * Half + 2 /\ funding # 0 -> SettleRequest("Capture", funding)
        [] OTHER -> AuthorizeRequest(<<Main, funded>>,
                                     <<Leg(a, "Debit", FundAmount), Leg(e, "Credit", FundAmount)>>)

SetUp ==
  /\ main = "setup" /\ asked[Main] = Nothing /\ funded < Half
  /\ Ask(Main, SetupRequest)
  /\ UNCHANGED <<bookVars, setup, worker, stats, stop>>

\* Every await of the set-up ends in `?`.
SetUpAnswered ==
  LET op == asked[Main].op
      a == answer[Main]
  IN  /\ main = "setup" /\ a # Nothing
      /\ Hear(Main)
      /\ \/ a.op = "Err" /\ main' = "failed" /\ UNCHANGED <<created, funding, funded>>
         \/ /\ a.op = "Ok" /\ op = "CreateAccount"
            /\ created' = Append(created, a.id)
            /\ UNCHANGED <<main, funding, funded>>
         \/ a.op = "Ok" /\ op = "Authorize" /\ funding' = a.id /\ UNCHANGED <<main, created, funded>>
         \/ /\ a.op = "Ok" /\ op = "Capture"
            /\ funding' = 0 /\ funded' = funded + 1
            /\ main' = IF funded + 1 = Half THEN "spawn" ELSE main
            /\ UNCHANGED created
      /\ UNCHANGED <<bookVars, worker, stats, stop>>

\* One worker after the other gets a connection and runs.
Spawn ==
  /\ main = "spawn"
  /\ \E w \in Workers :
       /\ at[w] = "unborn"
       /\ at' = [at EXCEPT ![w] = "loop"]
       /\ main' = IF \A v \in Workers \ {w} : at[v] # "unborn" THEN "running" ELSE main
  /\ UNCHANGED <<bookVars, created, funding, funded, doing, rolls, lastKey, lastTx, calls, stats, stop>>

\* A worker's connection fails: main returns, and the workers go with it.
SpawnFails ==
  /\ main = "spawn"
  /\ main' = "failed"
  /\ at' = [w \in Workers |-> "ended"]
  /\ UNCHANGED <<bookVars, created, funding, funded, doing, rolls, lastKey, lastTx, calls, stats, stop>>

\* The time is up.
Stop ==
  /\ main = "running"
  /\ main' = "joining"
  /\ stop' = TRUE
  /\ UNCHANGED <<bookVars, created, funding, funded, worker, calls, stats>>

Join ==
  /\ main = "joining"
  /\ \A w \in Workers : at[w] = "ended"
  /\ main' = "report"
  /\ UNCHANGED <<bookVars, created, funding, funded, worker, calls, stats, stop>>

-----------------------------------------------------------------------------
(* A worker. *)

Count(n) == stats' = [stats EXCEPT ![n] = @ + 1]

\* Only refusals are counted.
classify_error_quiet(a) ==
  IF a.status \in {"FailedPrecondition", "Aborted", "AlreadyExists"} THEN Count("rejected")
  ELSE UNCHANGED stats

classify_error(a) ==
  Count(IF a.status \in {"FailedPrecondition", "Aborted", "AlreadyExists"} THEN "rejected" ELSE "errors")

\* Keys are counted by every worker for itself.
KeyShared(w, n) == <<Main, Half + n>>

\* Uuid::new_v4 for the n-th operation: a key nobody else has.
Key(w, n) == <<w, n>>

Go(w, place, counter) ==
  at' = [at EXCEPT ![w] = place] /\ doing' = [doing EXCEPT ![w] = counter]

\* The head of the loop.
Leave(w) ==
  /\ at[w] = "loop" /\ stop
  /\ at' = [at EXCEPT ![w] = "ended"]
  /\ UNCHANGED <<bookVars, setup, doing, rolls, lastKey, lastTx, calls, stats, stop>>

\* The first call of an operation, or none where there is nothing to retry.
Roll(w) ==
  /\ at[w] = "loop" /\ ~stop
  /\ MapThenSumSet(LAMBDA v : rolls[v], Workers) < MaxRolls
  /\ rolls' = [rolls EXCEPT ![w] = @ + 1]
  /\ \E a \in assets, e \in equities :
       \/ \E n \in {"captures", "voids"} :
            Go(w, "authorize", n) /\ Ask(w, AuthorizeRequest(Key(w, rolls[w]), Withdraw(a, e, Amount)))
       \/ /\ Go(w, "count", "other")
          /\ Ask(w, AuthorizeRequest(Key(w, rolls[w]), WithdrawUnfunded))
       \/ /\ lastTx[w] # 0
          /\ Go(w, "retry", "other")
          /\ Ask(w, AuthorizeRequest(lastKey[w], Withdraw(a, e, Amount)))
       \/ lastTx[w] = 0 /\ UNCHANGED <<at, doing, calls>>
       \/ Go(w, "count", "other") /\ Ask(w, ReadRequest(a))
  /\ UNCHANGED <<bookVars, setup, lastKey, lastTx, stats, stop>>

\* authorize was answered: capture or void what it returned.
Authorized(w) ==
  LET a == answer[w]
  IN  /\ at[w] = "authorize" /\ a # Nothing
      /\ \/ /\ a.op = "Ok"
            /\ Go(w, "settle", doing[w])
            /\ Ask(w, SettleRequest(IF doing[w] = "captures" THEN "Capture" ELSE "Void", a.id))
            /\ UNCHANGED stats
         \/ a.op = "Err" /\ classify_error(a) /\ Go(w, "loop", "other") /\ Hear(w)
      /\ UNCHANGED <<bookVars, setup, rolls, lastKey, lastTx, stop>>

\* A failed capture or void is sent again.
SettledAgain(w) ==
  LET a == answer[w]
      again == a.op = "Err"
  IN  /\ at[w] = "settle" /\ a # Nothing
      /\ \/ again /\ Ask(w, asked[w]) /\ UNCHANGED <<at, doing, stats>>
         \/ ~again /\ Count(doing[w]) /\ Go(w, "loop", "other") /\ Hear(w)
      /\ UNCHANGED <<bookVars, setup, rolls, lastKey, lastTx, stop>>

\* capture or void was answered; a capture is remembered for retries.
Settled(w) ==
  LET a == answer[w]
      remember == a.op = "Ok" /\ doing[w] = "captures"
  IN  /\ at[w] = "settle" /\ a # Nothing
      /\ IF a.op = "Ok" THEN Count(doing[w]) ELSE classify_error(a)
      /\ lastTx' = IF remember THEN [lastTx EXCEPT ![w] = a.id] ELSE lastTx
      /\ lastKey' = IF remember THEN [lastKey EXCEPT ![w] = Key(w, rolls[w] - 1)] ELSE lastKey
      /\ Go(w, "loop", "other")
      /\ Hear(w)
      /\ UNCHANGED <<bookVars, setup, rolls, stop>>

\* The second half of an idempotent retry, whatever came of the first.
Retried(w) ==
  /\ at[w] = "retry" /\ answer[w] # Nothing
  /\ Go(w, "count", "other")
  /\ Ask(w, SettleRequest("Capture", lastTx[w]))
  /\ UNCHANGED <<bookVars, setup, rolls, lastKey, lastTx, stats, stop>>

\* Operations that are counted whatever the answer.
Counted(w) ==
  /\ at[w] = "count" /\ answer[w] # Nothing
  /\ Go(w, "loop", "other")
  /\ Hear(w)
  /\ UNCHANGED <<bookVars, setup, rolls, lastKey, lastTx, stats, stop>>

Work(w) == Leave(w) \/ Roll(w) \/ Authorized(w) \/ Settled(w) \/ Retried(w) \/ Counted(w)

LoadNext ==
  \/ SetUp \/ SetUpAnswered \/ Spawn \/ SpawnFails \/ Stop \/ Join
  \/ \E c \in Callers : Serve(c)
  \/ \E w \in Workers : Work(w)

\* main and the workers are polled, the timer fires, and every call is answered,
\* be it by an error of the connection: the client sets no timeout of its own.
LoadSpec ==
  /\ LoadInit /\ [][LoadNext]_loadVars
  /\ WF_loadVars(SetUp \/ SetUpAnswered \/ Spawn \/ SpawnFails \/ Stop \/ Join)
  /\ \A c \in Callers : WF_loadVars(Serve(c))
  /\ \A w \in Workers : WF_loadVars(Work(w))

-----------------------------------------------------------------------------
Having(status) == Cardinality({t \in DOMAIN book : book[t].status = status})

\* The load generator never makes two settlements of one transaction compete: all
\* captures and voids a transaction ever gets are of one kind and from one caller,
\* who sends a second one only after it has been posted.  It stays within the
\* condition under which the concurrent ledger implements the atomic one.
SettlementsNeverCompete ==
  /\ \A x, y \in sent : x.tx = y.tx => x = y
  /\ \A w \in Workers : at[w] = "count" /\ Settles(asked[w]) => book[asked[w].tx].status = "Posted"

\* The report can be trusted as far as it goes.  No capture or void is counted that
\* did not happen.  When the workers have been joined, those that happened without
\* being counted are among the errors, for what counts as rejected had no effect,
\* and holds that were left behind are among the rejected and the errors, for the
\* idempotent retries and the withdrawals from the unfunded pair leave no trace.
ReportMatchesBook ==
  LET posted == Having("Posted") - funded
      voided == Having("Voided")
  IN  main \in {"running", "joining", "report"} =>
        /\ stats["captures"] <= posted
        /\ stats["voids"] <= voided
        /\ main = "report" =>
             LET uncounted == (posted - stats["captures"]) + (voided - stats["voids"])
             IN  /\ uncounted <= stats["errors"]
                 /\ uncounted + Having("Pending") <= stats["rejected"] + stats["errors"]

\* Every load test ends: whatever fails, main gives up in the set-up or joins all
\* workers after the stop flag and prints its report.
LoadEnds == <>(main \in {"failed", "report"})
=============================================================================
