-------------------------- MODULE IntegrityChecker --------------------------
(***************************************************************************)
(* The background task of observability/integrity.rs beside the request    *)
(* handlers of Ledger.  Each of its queries is one statement and sees one  *)
(* committed state; the cache is copied entry by entry while handlers go   *)
(* on changing it.  What it finds are the values of three gauges.          *)
(***************************************************************************)
EXTENDS Ledger

VARIABLES
  at,      \* where the task is
  rows,    \* check 3: the balances the query returned
  due,     \* ... the accounts that were cached when the copy began
  copied,  \* ... cache_map, as far as it is built
  gauges   \* what the last completed check of each kind reported

checker == <<at, rows, due, copied, gauges>>
allVars == <<vars, checker>>

\* A gauge no check has set since the process started.
Unset == -1

NoGauges == [global_balanced |-> Unset, account_mismatches |-> Unset, cache_mismatches |-> Unset]

\* A freshly spawned task, before its first tick.
Spawned ==
  [at |-> "tick", rows |-> Empty, due |-> {}, copied |-> Empty, gauges |-> NoGauges]

CheckerInit ==
  /\ at = Spawned.at
  /\ rows = Spawned.rows
  /\ due = Spawned.due
  /\ copied = Spawned.copied
  /\ gauges = Spawned.gauges

Respawn ==
  /\ at' = Spawned.at
  /\ rows' = Spawned.rows
  /\ due' = Spawned.due
  /\ copied' = Spawned.copied
  /\ gauges' = Spawned.gauges

-----------------------------------------------------------------------------
(* What the queries compute. *)

\* The SMALLINT an account type is stored as.
account_type_to_i16 == [Asset |-> 1, Liability |-> 2, Equity |-> 3, Revenue |-> 4, Expense |-> 5]

\* Expense forgotten.
is_debit_normal_asset_only(raw) == raw = 1

is_debit_normal(raw) == raw \in {1, 5}

\* SUM(amount) over the entries with one of these statuses, on one side, of the
\* accounts in A.
entry_sum(statuses, type, A) ==
  SumOver(LAMBDA t :
            SumOver(LAMBDA i : transactions[t].legs[i].amount,
                    {i \in DOMAIN transactions[t].legs :
                       /\ transactions[t].legs[i].type = type
                       /\ transactions[t].legs[i].account \in A}),
          {t \in DOMAIN transactions : transactions[t].entry_status \in statuses})

\* The sums that are cast to BIGINT; the query fails when one does not fit.
GlobalSums == {entry_sum({"Pending", "Posted"}, type, DOMAIN accounts) : type \in EntryType}

AccountSums == {entry_sum({status}, type, {a}) :
                  status \in {"Pending", "Posted"}, type \in EntryType, a \in DOMAIN accounts}

expected(a, status) ==
  LET debits  == entry_sum({status}, "Debit", {a})
      credits == entry_sum({status}, "Credit", {a})
  IN  IF is_debit_normal(account_type_to_i16[accounts[a].type])
      THEN debits - credits ELSE credits - debits

account_mismatches ==
  {a \in DOMAIN accounts : \/ accounts[a].posted # expected(a, "Posted")
                           \/ accounts[a].pending # expected(a, "Pending")}

\* Check 3 counts accounts whose copy differs or is missing, and accounts that
\* are cached and have no row.
cache_mismatches ==
  Cardinality({a \in DOMAIN rows : a \notin DOMAIN copied \/ copied[a] # rows[a]})
    + Cardinality(DOMAIN cache \ DOMAIN rows)

-----------------------------------------------------------------------------
(* The loop. *)

Tick ==
  /\ up
  /\ at = "tick"
  /\ at' = "global"
  /\ UNCHANGED <<vars, rows, due, copied, gauges>>

\* Queries run on a connection of the handlers' pool and give it back at once.
check_global_balance ==
  /\ up
  /\ at = "global"
  /\ PoolHasRoom
  /\ GlobalSums \subseteq I64
  /\ gauges' = [gauges EXCEPT !.global_balanced = IF Cardinality(GlobalSums) = 1 THEN 1 ELSE 0]
  /\ at' = "accounts"
  /\ UNCHANGED <<vars, rows, due, copied>>

check_account_balances ==
  /\ up
  /\ at = "accounts"
  /\ PoolHasRoom
  /\ AccountSums \subseteq I64
  /\ gauges' = [gauges EXCEPT !.account_mismatches = Cardinality(account_mismatches)]
  /\ at' = "cache"
  /\ UNCHANGED <<vars, rows, due, copied>>

\* check_cache_consistency: first the rows, then the cache.
ReadRows ==
  /\ up
  /\ at = "cache"
  /\ PoolHasRoom
  /\ rows' = Balances
  /\ due' = DOMAIN cache
  /\ at' = "copy"
  /\ UNCHANGED <<vars, copied, gauges>>

\* One entry of cache.iter(): the map is not locked as a whole, so entries are
\* read at different times and one inserted meanwhile may be met or missed.
CopyEntry ==
  /\ up
  /\ at = "copy"
  /\ \E a \in DOMAIN cache \ DOMAIN copied : copied' = Extend(copied, a, cache[a])
  /\ UNCHANGED <<vars, at, rows, due, gauges>>

\* The comparison; the second cache.iter() only looks at keys.
CompareCache ==
  /\ up
  /\ at = "copy"
  /\ due \subseteq DOMAIN copied
  /\ gauges' = [gauges EXCEPT !.cache_mismatches = cache_mismatches]
  /\ at' = "tick"
  /\ rows' = Empty /\ due' = {} /\ copied' = Empty
  /\ UNCHANGED vars

\* The task ends with the query that fails.
QueryFailsEnds ==
  /\ up
  /\ at \in {"global", "accounts", "cache"}
  /\ "database" \in Faults \/ ("timeout" \in Faults /\ ~PoolHasRoom)
  /\ at' = "ended"
  /\ UNCHANGED <<vars, rows, due, copied, gauges>>

\* A query fails, gets no connection, or a sum does not fit: it is logged, the gauge
\* keeps its old value and the task goes on with the next check.
QueryFails ==
  /\ up
  /\ \/ at \in {"global", "accounts", "cache"} /\ "database" \in Faults
     \/ at \in {"global", "accounts", "cache"} /\ "timeout" \in Faults /\ ~PoolHasRoom
     \/ at = "global" /\ ~(GlobalSums \subseteq I64)
     \/ at = "accounts" /\ ~(AccountSums \subseteq I64)
  /\ at' = CASE at = "global" -> "accounts" [] at = "accounts" -> "cache" [] OTHER -> "tick"
  /\ UNCHANGED <<vars, rows, due, copied, gauges>>

-----------------------------------------------------------------------------
CheckerStep ==
  \/ Tick
  \/ check_global_balance
  \/ check_account_balances
  \/ ReadRows
  \/ CopyEntry
  \/ CompareCache
  \/ QueryFails

\* The task dies with the process and is spawned again by serve().
CheckedNext ==
  \/ \E h \in Requests : (Receive(h) \/ Step(h) \/ Fault(h)) /\ UNCHANGED checker
  \/ Crash /\ Respawn
  \/ Restart /\ UNCHANGED checker
  \/ CheckerStep

CheckedSpec == Init /\ CheckerInit /\ [][CheckedNext]_allVars

\* The interval ticks, the task is polled, and a query that is tried again and
\* again succeeds now and then.
CheckerFairness ==
  /\ WF_allVars(CheckerStep)
  /\ SF_allVars(check_global_balance)
  /\ SF_allVars(check_account_balances)
  /\ SF_allVars(ReadRows)

FairCheckedSpec == CheckedSpec /\ Fairness /\ CheckerFairness

-----------------------------------------------------------------------------
\* The first two checks read one committed state each, so what they report is
\* never an artefact of requests under way: debits and credits are never said to
\* differ, and an account mismatch means that a transaction was settled twice.
TableAlarmsAreReal ==
  /\ gauges.global_balanced # 0
  /\ gauges.account_mismatches \in {0, Unset} \/ ~Reconciled

\* The gauges say whether the ledger is intact.
GaugesAccurate ==
  /\ gauges.global_balanced = 1 <=> GlobalBalance
  /\ gauges.account_mismatches = 0 <=> Reconciled
  /\ gauges.cache_mismatches = 0 <=> cache = Balances

\* The cache check may report a mismatch that is only a request under way, but
\* once the server stays up and requests have come to their end all three gauges
\* tell the truth: a false alarm is withdrawn, and drift that remains, of the
\* balances or of the cache, is reported.
GaugesBecomeAccurate == <>[]up => <>[]GaugesAccurate
=============================================================================
