-------------------------- MODULE SettlementProofs --------------------------
(***************************************************************************)
(* What becomes of committed transactions: their rows stay readable,       *)
(* whatever happens, and a settlement is final as long as no two           *)
(* settlements of one transaction are under way at the same time.          *)
(***************************************************************************)
EXTENDS LedgerInvariant

\* A capture or a void is past its test of the status and before its commit.
Holding == {"lock", "update", "commit"}

Committed == {"committed", "apply"}

-----------------------------------------------------------------------------
(* The steps of Ledger, by what they do to transactions. *)

\* A handler's reply, when it says Ok, and its way into the critical places come
\* from where they should; nothing else about the tables or the requests changes.
Quiet ==
  /\ accounts' = accounts /\ transactions' = transactions /\ call' = call
  /\ \A h \in Requests :
       /\ InFlight(h)' => InFlight(h)
       /\ Settles(call[h]) /\ pc'[h] \in Holding =>
            \/ pc[h] \in Holding
            \/ /\ call[h].tx \in DOMAIN transactions
               /\ transactions[call[h].tx].status = "Pending"
       /\ pc'[h] \in Committed => pc[h] \in Committed
       /\ Settles(call[h]) /\ reply'[h].code = "Ok" =>
            \/ pc[h] \in Committed
            \/ reply[h].code = "Ok"
            \/ /\ call[h].tx \in DOMAIN transactions
               /\ transactions[call[h].tx].status = TargetStatus(call[h])

\* One handler moves and the others stay where they are.
LEMMA OneMoves ==
  ASSUME NEW h \in Requests, InFlight(h),
         accounts' = accounts, transactions' = transactions, call' = call,
         \A g \in Requests \ {h} : pc'[g] = pc[g] /\ reply'[g] = reply[g],
         Settles(call[h]) /\ pc'[h] \in Holding =>
            \/ pc[h] \in Holding
            \/ /\ call[h].tx \in DOMAIN transactions
               /\ transactions[call[h].tx].status = "Pending",
         pc'[h] \in Committed => pc[h] \in Committed,
         Settles(call[h]) /\ reply'[h].code = "Ok" =>
            \/ pc[h] \in Committed
            \/ reply[h].code = "Ok"
            \/ /\ call[h].tx \in DOMAIN transactions
               /\ transactions[call[h].tx].status = TargetStatus(call[h])
  PROVE  Quiet
<1>. SUFFICES ASSUME NEW g \in Requests
     PROVE  /\ InFlight(g)' => InFlight(g)
            /\ Settles(call[g]) /\ pc'[g] \in Holding =>
                 \/ pc[g] \in Holding
                 \/ /\ call[g].tx \in DOMAIN transactions
                    /\ transactions[call[g].tx].status = "Pending"
            /\ pc'[g] \in Committed => pc[g] \in Committed
            /\ Settles(call[g]) /\ reply'[g].code = "Ok" =>
                 \/ pc[g] \in Committed
                 \/ reply[g].code = "Ok"
                 \/ /\ call[g].tx \in DOMAIN transactions
                    /\ transactions[call[g].tx].status = TargetStatus(call[g])
  BY Zenon DEF Quiet
<1>1. CASE g = h
  BY <1>1, Zenon
<1>2. CASE g # h
  BY <1>2, Zenon DEF InFlight
<1>. QED
  BY <1>1, <1>2, Zenon

\* An error return.
LEMMA FailIsQuiet ==
  ASSUME TypeOK, NEW h \in Requests, InFlight(h), NEW code, code # "Ok", Fail(h, code)
  PROVE  Quiet
<1>1. /\ accounts' = accounts /\ transactions' = transactions /\ call' = call
      /\ \A g \in Requests \ {h} : pc'[g] = pc[g] /\ reply'[g] = reply[g]
      /\ pc'[h] = "done" /\ reply'[h].code # "Ok"
  BY DEF TypeOK, Fail, Answer, database
<1>. QED
  BY <1>1, OneMoves DEF Holding, Committed

\* A handler goes on to another place and answers nothing.
LEMMA GotoIsQuiet ==
  ASSUME TypeOK, NEW h \in Requests, InFlight(h), NEW label, Goto(h, label),
         accounts' = accounts, transactions' = transactions, call' = call, reply' = reply,
         Settles(call[h]) /\ label \in Holding =>
            \/ pc[h] \in Holding
            \/ /\ call[h].tx \in DOMAIN transactions
               /\ transactions[call[h].tx].status = "Pending",
         label \in Committed => pc[h] \in Committed
  PROVE  Quiet
<1>1. /\ \A g \in Requests \ {h} : pc'[g] = pc[g] /\ reply'[g] = reply[g]
      /\ pc'[h] = label /\ reply'[h] = reply[h]
  BY DEF TypeOK, Goto
<1>. QED
  BY <1>1, OneMoves, Zenon

\* A handler answers Ok.
LEMMA AnswerIsQuiet ==
  ASSUME TypeOK, NEW h \in Requests, InFlight(h), NEW t, Answer(h, "Ok", t),
         accounts' = accounts, transactions' = transactions, call' = call,
         Settles(call[h]) =>
            \/ pc[h] \in Committed
            \/ /\ call[h].tx \in DOMAIN transactions
               /\ transactions[call[h].tx].status = TargetStatus(call[h])
  PROVE  Quiet
<1>1. /\ \A g \in Requests \ {h} : pc'[g] = pc[g] /\ reply'[g] = reply[g]
      /\ pc'[h] = "done"
  BY DEF TypeOK, Answer
<1>2. "done" \notin Holding /\ "done" \notin Committed
  BY DEF Holding, Committed
<1>. QED
  BY <1>1, <1>2, OneMoves, Zenon

\* No step of a handler but its commit changes a transaction.
LEMMA StepIsQuiet ==
  ASSUME IInv, NEW h \in Requests, Step(h), ~Commit(h)
  PROVE  Quiet
<1>. USE DEF IInv
<1>1. CASE Begin(h)
  BY <1>1, GotoIsQuiet DEF Begin, InFlight, Holding, Committed, database
<1>2. CASE FindTransactionByKey(h)
  <2>1. /\ InFlight(h) /\ ~Settles(call[h])
        /\ accounts' = accounts /\ transactions' = transactions /\ call' = call
    BY <1>2 DEF FindTransactionByKey, PhaseOfOperation, InFlight, Settles, database
  <2>2. CASE \E t \in find_transaction_by_key(call[h].key) : Answer(h, "Ok", t)
    BY <2>1, <2>2, AnswerIsQuiet, Zenon
  <2>3. CASE Goto(h, "lock") /\ reply' = reply
    BY <2>1, <2>3, GotoIsQuiet DEF Committed
  <2>. QED
    BY <1>2, <2>2, <2>3 DEF FindTransactionByKey
<1>3. CASE GetTransaction(h)
  <2>. DEFINE t == call[h].tx
  <2>1. InFlight(h) /\ Settles(call[h])
    BY <1>3 DEF GetTransaction, PhaseOfOperation, InFlight
  <2>2. CASE Fail(h, "TransactionNotFound") \/ Fail(h, "InvalidTransactionState")
    BY <2>1, <2>2, FailIsQuiet, Zenon
  <2>3. CASE /\ t \in DOMAIN transactions
             /\ settle_decision(call[h], transactions[t].status) = "Ok"
             /\ Answer(h, "Ok", t)
             /\ UNCHANGED <<database, call>>
    <3>1. transactions[t].status = TargetStatus(call[h])
      BY <2>3 DEF settle_decision
    <3>. QED
      BY <2>1, <2>3, <3>1, AnswerIsQuiet DEF database
  <2>4. CASE /\ t \in DOMAIN transactions
             /\ settle_decision(call[h], transactions[t].status) = "proceed"
             /\ Goto(h, "lock")
             /\ UNCHANGED <<database, call, reply>>
    <3>1. transactions[t].status = "Pending"
      BY <2>4 DEF settle_decision
    <3>. QED
      BY <2>1, <2>4, <3>1, GotoIsQuiet DEF database, Committed
  <2>. QED
    BY <1>3, <2>2, <2>3, <2>4 DEF GetTransaction
<1>4. CASE LockAccount(h)
  <2>1. InFlight(h) /\ pc[h] \in Holding
    BY <1>4 DEF LockAccount, InFlight, Holding
  <2>2. CASE Fail(h, "AccountNotFound")
    BY <2>1, <2>2, FailIsQuiet
  <2>3. CASE /\ \E label \in {"lock", "check", "update"} : Goto(h, label)
             /\ UNCHANGED <<database, call, reply>>
    BY <2>1, <2>3, GotoIsQuiet DEF database, Committed
  <2>. QED
    BY <1>4, <2>2, <2>3 DEF LockAccount
<1>5. CASE CheckFunds(h)
  <2>1. InFlight(h) /\ ~Settles(call[h])
    BY <1>5 DEF CheckFunds, InFlight, PhaseOfOperation, Settles
  <2>2. CASE Fail(h, "AccountNotFound") \/ Fail(h, "InsufficientFunds")
    BY <2>1, <2>2, FailIsQuiet, Zenon
  <2>3. CASE /\ \E label \in {"create", "check"} : Goto(h, label)
             /\ UNCHANGED <<database, call, reply>>
    BY <2>1, <2>3, GotoIsQuiet DEF database, Committed
  <2>. QED
    BY <1>5, <2>2, <2>3 DEF CheckFunds, RefuseFunds
<1>6. CASE CreateTransaction(h)
  <2>1. InFlight(h) /\ ~Settles(call[h])
    BY <1>6 DEF CreateTransaction, InFlight, PhaseOfOperation, Settles
  <2>2. CASE Fail(h, "DuplicateTransaction")
    BY <2>1, <2>2, FailIsQuiet, Zenon
  <2>3. CASE Goto(h, "update") /\ UNCHANGED <<database, call, reply>>
    BY <2>1, <2>3, GotoIsQuiet DEF database, Committed
  <2>. QED
    BY <1>6, <2>2, <2>3 DEF CreateTransaction
<1>7. CASE UpdateAccountBalance(h)
  <2>1. InFlight(h) /\ pc[h] \in Holding
    BY <1>7 DEF UpdateAccountBalance, InFlight, Holding
  <2>2. CASE Fail(h, "VersionConflict") \/ Fail(h, "Internal")
    BY <2>1, <2>2, FailIsQuiet, Zenon
  <2>3. CASE /\ \E label \in {"update", "commit"} : Goto(h, label)
             /\ UNCHANGED <<database, call, reply>>
    BY <2>1, <2>3, GotoIsQuiet DEF database, Committed
  <2>. QED
    BY <1>7, <2>2, <2>3 DEF UpdateAccountBalance
<1>8. CASE InsertAccount(h)
  <2>1. InFlight(h) /\ ~Settles(call[h])
    BY <1>8 DEF InsertAccount, InFlight, PhaseOfOperation, Settles
  <2>. QED
    BY <1>8, <2>1, GotoIsQuiet DEF InsertAccount, Committed
<1>9. CASE ApplyDelta(h)
  <2>1. /\ InFlight(h) /\ pc[h] \in Committed
        /\ accounts' = accounts /\ transactions' = transactions /\ call' = call
    BY <1>9 DEF ApplyDelta, InFlight, Committed, database
  <2>2. CASE \E t : Answer(h, "Ok", t)
    BY <2>1, <2>2, AnswerIsQuiet, Zenon
  <2>3. CASE Goto(h, "apply") /\ reply' = reply
    BY <2>1, <2>3, GotoIsQuiet DEF Holding
  <2>. QED
    BY <1>9, <2>2, <2>3 DEF ApplyDelta
<1>10. CASE SetCache(h)
  <2>1. /\ InFlight(h) /\ pc[h] \in Committed
        /\ accounts' = accounts /\ transactions' = transactions /\ call' = call
        /\ Answer(h, "Ok", NoTransaction)
    BY <1>10 DEF SetCache, InFlight, Committed, database
  <2>. QED
    BY <2>1, AnswerIsQuiet, Zenon
<1>. QED
  BY <1>1, <1>2, <1>3, <1>4, <1>5, <1>6, <1>7, <1>8, <1>9, <1>10 DEF Step

\* Nor does a fault, a crash, a restart or a stutter.
LEMMA TheRestIsQuiet ==
  ASSUME IInv, [Next]_vars, \A h \in Requests : ~Receive(h) /\ ~Commit(h)
  PROVE  Quiet
<1>. USE DEF IInv
<1>1. ASSUME NEW h \in Requests, Step(h)
      PROVE  Quiet
  BY <1>1, StepIsQuiet, Zenon
<1>2. ASSUME NEW h \in Requests, Fault(h)
      PROVE  Quiet
  <2>1. InFlight(h) /\ \E code \in {"Unknown", "Internal"} : Fail(h, code)
    BY <1>2 DEF Fault, Cancel, DatabaseError, PoolTimeout, InFlight, Connected
  <2>. QED
    BY <2>1, FailIsQuiet
<1>3. CASE Crash
  BY <1>3 DEF Crash, Die, Quiet, InFlight, Holding, Committed, database
<1>4. CASE UNCHANGED <<accounts, transactions, call, pc, reply>>
  BY <1>4, Zenon DEF Quiet, InFlight
<1>. QED
  BY <1>1, <1>2, <1>3, <1>4 DEF Next, Restart, AllServed, vars, database, locals

\* What a commit leaves: one row more, or another status of one row.
LEMMA CommittedRows ==
  ASSUME IInv, NEW h \in Requests, Commit(h)
  PROVE  /\ pc[h] = "commit" /\ h \notin DOMAIN transactions
         /\ call' = call /\ reply' = reply /\ pc' = [pc EXCEPT ![h] = "committed"]
         /\ DOMAIN transactions \subseteq DOMAIN transactions'
         /\ \A t \in DOMAIN transactions :
              ~(Settles(call[h]) /\ t = call[h].tx) => transactions'[t] = transactions[t]
         /\ Settles(call[h]) =>
              /\ DOMAIN transactions' = DOMAIN transactions
              /\ \A t \in DOMAIN transactions : t = call[h].tx =>
                   transactions'[t] = settled(transactions[t], call[h])
         /\ ~Settles(call[h]) =>
              \A t \in DOMAIN transactions' \ DOMAIN transactions :
                /\ call[h].op = "Authorize"
                /\ transactions'[t] = create_transaction(call[h].key, legs[h])
<1>. USE DEF IInv
<1>1. /\ pc[h] = "commit" /\ transactions' = TransactionsAfter(h)
      /\ call' = call /\ reply' = reply /\ pc' = [pc EXCEPT ![h] = "committed"]
  BY DEF Commit, Goto
<1>2. h \notin DOMAIN transactions
  BY <1>1, Zenon DEF KeyReservations
<1>3. CASE call[h].op = "Authorize"
  <2>1. TransactionsAfter(h) = Extend(transactions, h, create_transaction(call[h].key, legs[h]))
    BY <1>3 DEF TransactionsAfter, Settles
  <2>2. ~Settles(call[h])
    BY <1>3 DEF Settles
  <2>. HIDE DEF create_transaction
  <2>. QED
    BY <1>1, <1>2, <1>3, <2>1, <2>2, Zenon DEF Extend, Overwrite
<1>4. CASE Settles(call[h])
  <2>1. TransactionsAfter(h) = [transactions EXCEPT ![call[h].tx] = settled(@, call[h])]
    BY <1>4 DEF TransactionsAfter, Settles
  <2>. QED
    BY <1>1, <1>2, <1>4, <2>1, Zenon
<1>5. CASE call[h].op # "Authorize" /\ ~Settles(call[h])
  <2>1. TransactionsAfter(h) = transactions
    BY <1>5 DEF TransactionsAfter
  <2>. QED
    BY <1>1, <1>2, <1>5, <2>1, Zenon
<1>. QED
  BY <1>3, <1>4, <1>5, Zenon

-----------------------------------------------------------------------------
(* Rows stay readable. *)

\* Whoever settles a readable row, however often, leaves a readable one.
LEMMA SettledIsReadable ==
  ASSUME NEW r \in Transaction, Readable(r), NEW c, Settles(c)
  PROVE  Readable(settled(r, c)) /\ settled(r, c).status = TargetStatus(c)
<1>. DEFINE u == update_transaction_status(r, TargetStatus(c))
<1>1. u.key = r.key /\ u.status = TargetStatus(c) /\ u.posted_at = (TargetStatus(c) = "Posted")
  BY DEF update_transaction_status, Transaction
<1>2. /\ settled(r, c).key = u.key /\ settled(r, c).status = u.status
      /\ settled(r, c).posted_at = u.posted_at
  BY DEF settled, update_entry_status_by_transaction, update_transaction_status, Transaction
<1>. HIDE DEF u
<1>. QED
  BY <1>1, <1>2, Zenon DEF Readable

\* Every commit writes rows that Transaction::new accepts.
LEMMA NextReadable == IInv /\ RowsStayReadable /\ [Next]_vars => RowsStayReadable'
<1>. SUFFICES ASSUME IInv, RowsStayReadable, [Next]_vars PROVE RowsStayReadable'
  OBVIOUS
<1>. USE DEF IInv
<1>1. ASSUME NEW h \in Requests, Receive(h)
      PROVE  RowsStayReadable'
  BY <1>1, Zenon DEF Receive, RowsStayReadable, database
<1>2. ASSUME NEW h \in Requests, Commit(h)
      PROVE  RowsStayReadable'
  <2>. SUFFICES ASSUME NEW t \in DOMAIN transactions' PROVE Readable(transactions'[t])
    BY Zenon DEF RowsStayReadable, Readable
  <2>. HIDE DEF Readable
  <2>1. CASE t \in DOMAIN transactions /\ ~(Settles(call[h]) /\ t = call[h].tx)
    BY <1>2, <2>1, CommittedRows, Zenon DEF RowsStayReadable
  <2>2. CASE t \in DOMAIN transactions /\ Settles(call[h]) /\ t = call[h].tx
    <3>1. transactions[t] \in Transaction /\ Readable(transactions[t])
      BY <2>2, Zenon DEF TypeOK, RowsStayReadable
    <3>2. transactions'[t] = settled(transactions[t], call[h])
      BY <1>2, <2>2, CommittedRows, Zenon
    <3>. QED
      BY <2>2, <3>1, <3>2, SettledIsReadable, Zenon
  <2>3. CASE t \notin DOMAIN transactions
    <3>1. /\ call[h].op = "Authorize" /\ pc[h] = "commit"
          /\ transactions'[t] = create_transaction(call[h].key, legs[h])
      BY <1>2, <2>3, CommittedRows, Zenon
    <3>2. arguments(call[h]) = "Ok"
      BY <3>1 DEF PhaseOfOperation, InFlight
    <3>3. call[h].key # ""
      BY <3>1, <3>2 DEF arguments, authorize_arguments
    <3>4. /\ transactions'[t].key = call[h].key /\ transactions'[t].status # "Posted"
          /\ transactions'[t].posted_at = FALSE
      BY <3>1 DEF create_transaction
    <3>. QED
      BY <3>3, <3>4, Zenon DEF Readable
  <2>. QED
    BY <2>1, <2>2, <2>3, Zenon
<1>3. CASE \A h \in Requests : ~Receive(h) /\ ~Commit(h)
  BY <1>3, TheRestIsQuiet, Zenon DEF Quiet, RowsStayReadable
<1>. QED
  BY <1>1, <1>2, <1>3, Zenon

\* No transactions row ever becomes data corruption for build_transaction, for any
\* requests, faults and races: each status is written together with its posted_at,
\* and no empty key gets past authorize.
THEOREM RowsReadable == Spec => []RowsStayReadable
<1>1. Init => RowsStayReadable
  BY OpeningTransactionsAssumption DEF Init, Opened, RowsStayReadable
<1>2. IInv /\ RowsStayReadable /\ [Next]_vars => RowsStayReadable'
  BY NextReadable
<1>3. Init => IInv
  BY InitIInv
<1>4. IInv /\ [Next]_vars => IInv'
  BY NextIInv
<1>. QED
  BY <1>1, <1>2, <1>3, <1>4, PTL DEF Spec

-----------------------------------------------------------------------------
(* Settlements are final, without concurrent settlements. *)

\* One settlement of a transaction is under way at a time; it still finds the
\* transaction pending when it commits; and from its commit on the transaction is
\* in the state it asked for.
SettlesAlone ==
  /\ \A g, h \in Requests :
       g # h /\ Settles(call[g]) /\ Settles(call[h]) /\ call[g].tx = call[h].tx =>
         ~(InFlight(g) /\ InFlight(h))
  /\ \A h \in Requests : Settles(call[h]) =>
       /\ pc[h] \in Holding =>
            call[h].tx \in DOMAIN transactions /\ transactions[call[h].tx].status = "Pending"
       /\ pc[h] \in Committed \/ reply[h].code = "Ok" =>
            /\ call[h].tx \in DOMAIN transactions
            /\ transactions[call[h].tx].status = TargetStatus(call[h])

\* At the start nobody settles anything.
LEMMA InitSettlesAlone == Init => SettlesAlone
BY DEF Init, Opened, SettlesAlone, NoCall, Settles

\* A new request settles no transaction that another one is settling.
LEMMA ReceiveSettlesAlone ==
  ASSUME ~ConcurrentSettlement, IInv, SettlesAlone, NEW h \in Requests, Receive(h)
  PROVE  SettlesAlone'
<1>. USE DEF IInv
<1>1. PICK c \in Calls :
        /\ ClientMaySend(c) /\ call' = [call EXCEPT ![h] = c]
        /\ \/ pc' = [pc EXCEPT ![h] = "begin"] /\ reply' = reply
           \/ /\ pc' = [pc EXCEPT ![h] = "done"] /\ arguments(c) # "Ok"
              /\ reply' = [reply EXCEPT ![h] = [code |-> arguments(c), tx |-> NoTransaction]]
  BY DEF Receive, Goto, Answer
<1>2. transactions' = transactions /\ pc[h] = "idle" /\ reply[h].code # "Ok"
  BY DEF Receive, database, PhaseOfOperation, NoReply
<1>3. /\ call'[h] = c /\ pc'[h] \notin Holding \cup Committed /\ reply'[h].code # "Ok"
      /\ \A g \in Requests \ {h} : call'[g] = call[g] /\ pc'[g] = pc[g] /\ reply'[g] = reply[g]
  BY <1>1, <1>2 DEF TypeOK, Holding, Committed
<1>4. ASSUME NEW g \in Requests \ {h}, Settles(call[g]), Settles(c), call[g].tx = c.tx
      PROVE  ~InFlight(g)'
  <2>1. pc[g] = "done"
    BY <1>1, <1>4, Zenon DEF ClientMaySend
  <2>. QED
    BY <1>3, <2>1 DEF InFlight
<1>5. \A f, g \in Requests :
        f # g /\ Settles(call'[f]) /\ Settles(call'[g]) /\ call'[f].tx = call'[g].tx =>
          ~(InFlight(f)' /\ InFlight(g)')
  BY <1>3, <1>4, Zenon DEF SettlesAlone, InFlight
<1>6. ASSUME NEW g \in Requests, Settles(call'[g])
      PROVE  /\ pc'[g] \in Holding =>
                  call'[g].tx \in DOMAIN transactions /\ transactions[call'[g].tx].status = "Pending"
             /\ pc'[g] \in Committed \/ reply'[g].code = "Ok" =>
                  /\ call'[g].tx \in DOMAIN transactions
                  /\ transactions[call'[g].tx].status = TargetStatus(call'[g])
  <2>1. CASE g = h
    BY <1>3, <2>1, Zenon
  <2>2. CASE g # h
    BY <1>3, <1>6, <2>2, Zenon DEF SettlesAlone
  <2>. QED
    BY <2>1, <2>2, Zenon
<1>. QED
  BY <1>2, <1>5, <1>6, Zenon DEF SettlesAlone, Settles, TargetStatus

\* A quiet step keeps SettlesAlone.
LEMMA QuietSettlesAlone == SettlesAlone /\ Quiet => SettlesAlone'
<1>. SUFFICES ASSUME SettlesAlone, Quiet PROVE SettlesAlone'
  OBVIOUS
<1>1. \A f, g \in Requests :
        f # g /\ Settles(call[f]) /\ Settles(call[g]) /\ call[f].tx = call[g].tx =>
          ~(InFlight(f)' /\ InFlight(g)')
  BY Zenon DEF SettlesAlone, Quiet
<1>2. ASSUME NEW g \in Requests, Settles(call[g])
      PROVE  /\ pc'[g] \in Holding =>
                  call[g].tx \in DOMAIN transactions /\ transactions[call[g].tx].status = "Pending"
             /\ pc'[g] \in Committed \/ reply'[g].code = "Ok" =>
                  /\ call[g].tx \in DOMAIN transactions
                  /\ transactions[call[g].tx].status = TargetStatus(call[g])
  BY <1>2, Zenon DEF SettlesAlone, Quiet
<1>. QED
  BY <1>1, <1>2, Zenon DEF SettlesAlone, Quiet, Settles, TargetStatus

\* A commit meets the transaction pending and nobody else at it.
LEMMA CommitSettlesAlone ==
  ASSUME IInv, SettlesAlone, NEW h \in Requests, Commit(h)
  PROVE  SettlesAlone'
<1>. USE DEF IInv
<1>1. /\ call' = call /\ reply' = reply /\ InFlight(h) /\ pc[h] \in Holding
      /\ pc'[h] = "committed" /\ \A g \in Requests \ {h} : pc'[g] = pc[g]
      /\ \A g \in Requests : InFlight(g)' => InFlight(g)
  BY CommittedRows DEF TypeOK, InFlight, Holding
<1>2. ASSUME NEW t \in DOMAIN transactions, ~(Settles(call[h]) /\ t = call[h].tx)
      PROVE  t \in DOMAIN transactions' /\ transactions'[t] = transactions[t]
  BY <1>2, CommittedRows, Zenon
<1>3. ASSUME Settles(call[h])
      PROVE  /\ call[h].tx \in DOMAIN transactions'
             /\ transactions'[call[h].tx].status = TargetStatus(call[h])
  <2>1. call[h].tx \in DOMAIN transactions
    BY <1>1, <1>3, Zenon DEF SettlesAlone
  <2>2. /\ transactions'[call[h].tx] = settled(transactions[call[h].tx], call[h])
        /\ call[h].tx \in DOMAIN transactions'
    BY <1>3, <2>1, CommittedRows, Zenon
  <2>3. transactions[call[h].tx] \in Transaction
    BY <2>1, Zenon DEF TypeOK
  <2>4. settled(transactions[call[h].tx], call[h]).status = TargetStatus(call[h])
    BY <2>3 DEF settled, update_entry_status_by_transaction, update_transaction_status, Transaction
  <2>. QED
    BY <2>2, <2>4, Zenon
<1>4. reply[h].code # "Ok"
  BY CommittedRows DEF PhaseOfOperation, NoReply
<1>5. ASSUME NEW g \in Requests \ {h}, Settles(call[g]),
             pc[g] \in Holding \cup Committed \/ reply[g].code = "Ok"
      PROVE  /\ call[g].tx \in DOMAIN transactions /\ call[g].tx \in DOMAIN transactions'
             /\ transactions'[call[g].tx] = transactions[call[g].tx]
  <2>1. call[g].tx \in DOMAIN transactions
    BY <1>5, Zenon DEF SettlesAlone
  <2>2. ASSUME Settles(call[h]), call[g].tx = call[h].tx
        PROVE  FALSE
    <3>1. ~InFlight(g)
      BY <1>1, <1>5, <2>2, Zenon DEF SettlesAlone
    <3>2. reply[g].code = "Ok"
      BY <1>5, <3>1 DEF InFlight, Holding, Committed
    <3>3. transactions[call[g].tx].status = TargetStatus(call[g])
      BY <1>5, <3>2, Zenon DEF SettlesAlone
    <3>4. transactions[call[h].tx].status = "Pending"
      BY <1>1, <2>2, Zenon DEF SettlesAlone
    <3>. QED
      BY <2>2, <3>3, <3>4 DEF TargetStatus
  <2>. QED
    BY <1>2, <2>1, <2>2, Zenon
<1>6. \A f, g \in Requests :
        f # g /\ Settles(call[f]) /\ Settles(call[g]) /\ call[f].tx = call[g].tx =>
          ~(InFlight(f)' /\ InFlight(g)')
  BY <1>1, Zenon DEF SettlesAlone
<1>7. ASSUME NEW g \in Requests, Settles(call[g])
      PROVE  /\ pc'[g] \in Holding =>
                  call[g].tx \in DOMAIN transactions' /\ transactions'[call[g].tx].status = "Pending"
             /\ pc'[g] \in Committed \/ reply[g].code = "Ok" =>
                  /\ call[g].tx \in DOMAIN transactions'
                  /\ transactions'[call[g].tx].status = TargetStatus(call[g])
  <2>1. CASE g = h
    <3>1. pc'[g] \notin Holding
      BY <1>1, <2>1 DEF Holding
    <3>. QED
      BY <1>3, <1>7, <2>1, <3>1, Zenon
  <2>2. CASE g # h
    <3>1. pc'[g] = pc[g]
      BY <1>1, <2>2, Zenon
    <3>2. CASE pc[g] \in Holding \cup Committed \/ reply[g].code = "Ok"
      BY <1>5, <1>7, <2>2, <3>1, <3>2, Zenon DEF SettlesAlone
    <3>3. CASE ~(pc[g] \in Holding \cup Committed \/ reply[g].code = "Ok")
      BY <3>1, <3>3, Zenon
    <3>. QED
      BY <3>2, <3>3, Zenon
  <2>. QED
    BY <2>1, <2>2, Zenon
<1>. QED
  BY <1>1, <1>6, <1>7, Zenon DEF SettlesAlone, Settles, TargetStatus

\* Every step keeps SettlesAlone, when clients settle one at a time.
LEMMA NextSettlesAlone ==
  ASSUME ~ConcurrentSettlement
  PROVE  IInv /\ SettlesAlone /\ [Next]_vars => SettlesAlone'
BY ReceiveSettlesAlone, CommitSettlesAlone, QuietSettlesAlone, TheRestIsQuiet, Zenon

\* Under one settlement at a time, every reachable state satisfies SettlesAlone.
LEMMA AlwaysAlone ==
  ASSUME ~ConcurrentSettlement
  PROVE  Spec => [](IInv /\ SettlesAlone)
<1>1. Init => IInv /\ SettlesAlone
  BY InitIInv, InitSettlesAlone
<1>2. (IInv /\ SettlesAlone) /\ [Next]_vars => (IInv /\ SettlesAlone)'
  BY NextIInv, NextSettlesAlone
<1>. QED
  BY <1>1, <1>2, PTL DEF Spec

\* An Ok answer to a capture or a void stays true for ever, through every crash,
\* cancellation and lost acknowledgement and for any number of other requests, as
\* long as clients settle a transaction one call at a time.
THEOREM SettlementsHold ==
  ASSUME ~ConcurrentSettlement
  PROVE  Spec => []SettlementHolds
<1>1. SettlesAlone => SettlementHolds
  BY Zenon DEF SettlesAlone, SettlementHolds
<1>. QED
  BY <1>1, AlwaysAlone, PTL

\* A step changes no posted or voided transaction.
LEMMA TerminalRowsStay ==
  IInv /\ SettlesAlone /\ [Next]_vars =>
    [\A t \in DOMAIN transactions :
       transactions[t].status \in {"Posted", "Voided"} => transactions'[t] = transactions[t]]_vars
<1>. SUFFICES ASSUME IInv, SettlesAlone, [Next]_vars,
                     NEW t \in DOMAIN transactions, transactions[t].status \in {"Posted", "Voided"}
              PROVE  transactions'[t] = transactions[t]
  OBVIOUS
<1>1. ASSUME NEW h \in Requests, Receive(h)
      PROVE  transactions' = transactions
  BY <1>1 DEF Receive, database
<1>2. ASSUME NEW h \in Requests, Commit(h)
      PROVE  transactions'[t] = transactions[t]
  <2>1. pc[h] \in Holding
    BY <1>2, CommittedRows DEF Holding
  <2>2. ~(Settles(call[h]) /\ t = call[h].tx)
    BY <2>1 DEF SettlesAlone
  <2>. QED
    BY <1>2, <2>2, CommittedRows, Zenon
<1>3. CASE \A h \in Requests : ~Receive(h) /\ ~Commit(h)
  BY <1>3, TheRestIsQuiet, Zenon DEF Quiet
<1>. QED
  BY <1>1, <1>2, <1>3, Zenon

\* "NEVER update status after Posted/Voided", under the same condition: a settled
\* transaction and its entries never change again.
THEOREM TerminalIsForEver ==
  ASSUME ~ConcurrentSettlement
  PROVE  Spec => TerminalIsFinal
<1>1. IInv /\ SettlesAlone /\ [Next]_vars =>
        [\A t \in DOMAIN transactions :
           transactions[t].status \in {"Posted", "Voided"} => transactions'[t] = transactions[t]]_vars
  BY TerminalRowsStay
<1>. QED
  BY <1>1, AlwaysAlone, PTL DEF Spec, TerminalIsFinal
=============================================================================
