-------------------------- MODULE RefinementProofs --------------------------
(***************************************************************************)
(* The concurrent ledger implements AtomicLedger, for any requests, calls  *)
(* and faults, when no two settlements of one transaction are under way at *)
(* the same time.                                                          *)
(***************************************************************************)
EXTENDS LedgerRefinement, SettlementProofs

-----------------------------------------------------------------------------
(* What a handler is about to commit. *)

NewAccount(t) == [type |-> t, version |-> 0, posted |-> 0, pending |-> 0]

\* The legs of a handler are those of its request or of the transaction it settles.
\* Each row it has written is the committed row with its own delta, and when it
\* commits it has written all rows of the transfer, or one account at zero.
Own(h) ==
  /\ InFlight(h) /\ call[h].op = "Authorize" => legs[h] = parse_transfer_legs(call[h].legs)
  /\ Settles(call[h]) /\ pc[h] \in Holding =>
       /\ call[h].tx \in DOMAIN transactions
       /\ legs[h] = transactions[call[h].tx].legs
  /\ call[h].op # "CreateAccount" =>
       /\ DOMAIN dirty[h] \subseteq Touched(h)
       /\ \A a \in DOMAIN dirty[h] : dirty[h][a] = UpdatedRow(h, a)
       /\ pc[h] = "commit" => DOMAIN dirty[h] = Touched(h)
  /\ call[h].op = "CreateAccount" /\ pc[h] = "commit" =>
       \E a \in DOMAIN dirty[h], t \in AccountType : dirty[h] = [z \in {a} |-> NewAccount(t)]

OwnRows == \A h \in Requests : Own(h)

\* What UPDATE accounts writes depends on the committed row, the request and the legs.
LEMMA UpdatedRowKept ==
  ASSUME NEW h, NEW a,
         accounts'[a] = accounts[a], call'[h] = call[h], legs'[h] = legs[h]
  PROVE  UpdatedRow(h, a)' = UpdatedRow(h, a)
<1>1. posted_delta(h, a)' = posted_delta(h, a)
  BY Zenon DEF posted_delta
<1>2. pending_delta(h, a)' = pending_delta(h, a)
  BY Zenon DEF pending_delta
<1>. QED
  BY <1>1, <1>2, Zenon DEF UpdatedRow

\* A handler that does not move, and whose rows and transaction nobody changes.
LEMMA OwnKept ==
  ASSUME NEW g \in Requests, Own(g),
         call'[g] = call[g], pc'[g] = pc[g], legs'[g] = legs[g], dirty'[g] = dirty[g],
         call[g].op # "CreateAccount" => \A a \in DOMAIN dirty[g] : accounts'[a] = accounts[a],
         Settles(call[g]) /\ pc[g] \in Holding =>
           /\ call[g].tx \in DOMAIN transactions'
           /\ transactions'[call[g].tx].legs = transactions[call[g].tx].legs
  PROVE  Own(g)'
<1>1. InFlight(g)' = InFlight(g) /\ Touched(g)' = Touched(g)
  BY Zenon DEF InFlight, Touched
<1>2. call[g].op # "CreateAccount" =>
        \A a \in DOMAIN dirty[g] : UpdatedRow(g, a)' = UpdatedRow(g, a)
  BY UpdatedRowKept, Zenon
<1>3. call[g].op # "CreateAccount" =>
        \A a \in DOMAIN dirty'[g] : dirty'[g][a] = UpdatedRow(g, a)'
  BY <1>2, Zenon DEF Own
<1>4. call[g].op # "CreateAccount" =>
        /\ DOMAIN dirty'[g] \subseteq Touched(g)'
        /\ pc'[g] = "commit" => DOMAIN dirty'[g] = Touched(g)'
  BY <1>1, Zenon DEF Own
<1>5. call[g].op = "CreateAccount" /\ pc'[g] = "commit" =>
        \E a \in DOMAIN dirty'[g], t \in AccountType : dirty'[g] = [z \in {a} |-> NewAccount(t)]
  <2>. SUFFICES ASSUME call[g].op = "CreateAccount", pc[g] = "commit"
                PROVE  \E a \in DOMAIN dirty'[g], t \in AccountType :
                         dirty'[g] = [z \in {a} |-> NewAccount(t)]
    BY Zenon
  <2>1. PICK a \in DOMAIN dirty[g], t \in AccountType : dirty[g] = [z \in {a} |-> NewAccount(t)]
    BY Zenon DEF Own
  <2>2. a \in DOMAIN dirty'[g] /\ dirty'[g] = [z \in {a} |-> NewAccount(t)]
    BY <2>1, Zenon
  <2>. QED
    BY <2>2, Zenon
<1>6. /\ InFlight(g)' /\ call'[g].op = "Authorize" =>
           legs'[g] = parse_transfer_legs(call'[g].legs)
      /\ Settles(call[g])' /\ pc'[g] \in Holding =>
           /\ call'[g].tx \in DOMAIN transactions'
           /\ legs'[g] = transactions'[call'[g].tx].legs
  BY <1>1, Zenon DEF Own, Settles
<1>. QED
  BY <1>3, <1>4, <1>5, <1>6, Zenon DEF Own

\* A handler without uncommitted rows outside its critical places.
LEMMA OwnNothing ==
  ASSUME NEW h \in Requests, DOMAIN dirty'[h] = {}, pc'[h] \notin Holding,
         InFlight(h)' /\ call'[h].op = "Authorize" => legs'[h] = parse_transfer_legs(call'[h].legs)
  PROVE  Own(h)'
<1>1. pc'[h] # "commit"
  BY DEF Holding
<1>2. DOMAIN dirty'[h] \subseteq Touched(h)' /\ \A a \in DOMAIN dirty'[h] : dirty'[h][a] = UpdatedRow(h, a)'
  BY Zenon
<1>. QED
  BY <1>1, <1>2, Zenon DEF Own

\* One handler moves, and it does not commit.
LEMMA OneOwns ==
  ASSUME OwnRows, NEW h \in Requests, call' = call,
         accounts' = accounts, transactions' = transactions,
         \A g \in Requests \ {h} : pc'[g] = pc[g] /\ legs'[g] = legs[g] /\ dirty'[g] = dirty[g],
         Own(h)'
  PROVE  OwnRows'
<1>. SUFFICES ASSUME NEW g \in Requests PROVE Own(g)'
  BY Zenon DEF OwnRows
<1>1. CASE g = h
  BY <1>1, Zenon
<1>2. CASE g # h
  <2>1. /\ Own(g) /\ call'[g] = call[g] /\ pc'[g] = pc[g] /\ legs'[g] = legs[g] /\ dirty'[g] = dirty[g]
    BY <1>2, Zenon DEF OwnRows
  <2>2. Settles(call[g]) /\ pc[g] \in Holding =>
           /\ call[g].tx \in DOMAIN transactions'
           /\ transactions'[call[g].tx].legs = transactions[call[g].tx].legs
    BY <2>1, Zenon DEF Own
  <2>. QED
    BY <2>1, <2>2, OwnKept, Zenon
<1>. QED
  BY <1>1, <1>2, Zenon

\* An error return.
LEMMA OwnFail ==
  ASSUME TypeOK, OwnRows, NEW h \in Requests, NEW code, Fail(h, code)
  PROVE  OwnRows'
<1>1. /\ call' = call /\ accounts' = accounts /\ transactions' = transactions
      /\ \A g \in Requests \ {h} : pc'[g] = pc[g] /\ legs'[g] = legs[g] /\ dirty'[g] = dirty[g]
      /\ pc'[h] = "done" /\ dirty'[h] = Empty
  BY DEF TypeOK, Fail, Answer, database
<1>2. DOMAIN dirty'[h] = {} /\ pc'[h] \notin Holding /\ ~InFlight(h)'
  BY <1>1 DEF Empty, Holding, InFlight
<1>3. Own(h)'
  BY <1>2, OwnNothing, Zenon
<1>. QED
  BY <1>1, <1>3, OneOwns, Zenon

\* A handler answers and has nothing uncommitted.
LEMMA OwnAnswer ==
  ASSUME TypeOK, OwnRows, NEW h \in Requests, NEW code, NEW t, Answer(h, code, t),
         DOMAIN dirty[h] = {}, call' = call, accounts' = accounts, transactions' = transactions,
         legs' = legs, dirty' = dirty
  PROVE  OwnRows'
<1>1. pc'[h] = "done" /\ \A g \in Requests \ {h} : pc'[g] = pc[g]
  BY DEF TypeOK, Answer
<1>2. pc'[h] \notin Holding /\ ~InFlight(h)'
  BY <1>1 DEF Holding, InFlight
<1>3. Own(h)'
  BY <1>2, OwnNothing, Zenon
<1>. QED
  BY <1>1, <1>3, OneOwns, Zenon

\* A handler goes on and has nothing uncommitted.
LEMMA OwnGoto ==
  ASSUME TypeOK, OwnRows, NEW h \in Requests, NEW label, Goto(h, label), InFlight(h),
         DOMAIN dirty[h] = {}, call' = call, accounts' = accounts, transactions' = transactions,
         legs' = legs, dirty' = dirty,
         label # "commit", Settles(call[h]) /\ label \in Holding => pc[h] \in Holding
  PROVE  OwnRows'
<1>1. pc'[h] = label /\ \A g \in Requests \ {h} : pc'[g] = pc[g]
  BY DEF TypeOK, Goto
<1>2. Own(h)
  BY Zenon DEF OwnRows
<1>3. DOMAIN dirty'[h] \subseteq Touched(h)' /\ \A a \in DOMAIN dirty'[h] : dirty'[h][a] = UpdatedRow(h, a)'
  BY Zenon
<1>4. /\ call[h].op = "Authorize" => legs[h] = parse_transfer_legs(call[h].legs)
      /\ Settles(call[h]) /\ pc'[h] \in Holding =>
           call[h].tx \in DOMAIN transactions /\ legs[h] = transactions[call[h].tx].legs
  BY <1>1, <1>2, Zenon DEF Own
<1>5. Own(h)'
  BY <1>1, <1>3, <1>4, Zenon DEF Own, Settles
<1>. QED
  BY <1>1, <1>5, OneOwns, Zenon

\* The steps of a handler before it writes a row of an account, but for the read of
\* the entries.
LEMMA EarlyOwn ==
  ASSUME IInv, OwnRows, NEW h \in Requests,
         Begin(h) \/ FindTransactionByKey(h) \/ LockAccount(h) \/ CheckFunds(h) \/ CreateTransaction(h)
  PROVE  OwnRows'
<1>. USE DEF IInv
<1>1. InFlight(h) /\ pc[h] \notin {"update", "commit"}
  BY DEF Begin, FindTransactionByKey, LockAccount, CheckFunds, CreateTransaction, InFlight
<1>2. DOMAIN dirty[h] = {}
  BY <1>1, Zenon DEF UncommittedRows
<1>3. CASE Begin(h)
  <2>. DEFINE label == CASE call[h].op = "Authorize" -> "find"
                         [] call[h].op = "CreateAccount" -> "insert"
                         [] OTHER -> "read"
  <2>1. label # "commit" /\ label \notin Holding
    BY DEF Holding
  <2>2. Goto(h, label) /\ call' = call /\ accounts' = accounts /\ transactions' = transactions
        /\ legs' = legs /\ dirty' = dirty
    BY <1>3, Zenon DEF Begin, database
  <2>. HIDE DEF label
  <2>. QED
    BY <1>1, <1>2, <2>1, <2>2, OwnGoto, Zenon
<1>4. CASE FindTransactionByKey(h)
  <2>1. /\ ~Settles(call[h])
        /\ call' = call /\ accounts' = accounts /\ transactions' = transactions
        /\ legs' = legs /\ dirty' = dirty
        /\ (\E t : Answer(h, "Ok", t)) \/ Goto(h, "lock")
    BY <1>4 DEF FindTransactionByKey, PhaseOfOperation, Settles, database
  <2>. QED
    BY <1>1, <1>2, <2>1, OwnGoto, OwnAnswer
<1>5. CASE LockAccount(h)
  <2>1. CASE Fail(h, "AccountNotFound")
    BY <2>1, OwnFail, Zenon
  <2>2. CASE ~Fail(h, "AccountNotFound")
    <3>1. PICK label \in {"lock", "check", "update"} : Goto(h, label)
      BY <1>5, <2>2 DEF LockAccount
    <3>2. /\ pc[h] = "lock" /\ call' = call /\ accounts' = accounts /\ transactions' = transactions
          /\ legs' = legs /\ dirty' = dirty
      BY <1>5, <2>2 DEF LockAccount, database
    <3>. QED
      BY <1>1, <1>2, <3>1, <3>2, OwnGoto DEF Holding
  <2>. QED
    BY <2>1, <2>2, Zenon
<1>6. CASE CheckFunds(h)
  <2>1. CASE \E code : Fail(h, code)
    BY <2>1, OwnFail, Zenon
  <2>2. CASE ~\E code : Fail(h, code)
    <3>1. PICK label \in {"create", "check"} : Goto(h, label)
      BY <1>6, <2>2 DEF CheckFunds, RefuseFunds
    <3>2. /\ call' = call /\ accounts' = accounts /\ transactions' = transactions
          /\ legs' = legs /\ dirty' = dirty
      BY <1>6, <2>2 DEF CheckFunds, RefuseFunds, database
    <3>. QED
      BY <1>1, <1>2, <3>1, <3>2, OwnGoto DEF Holding
  <2>. QED
    BY <2>1, <2>2, Zenon
<1>7. CASE CreateTransaction(h)
  <2>1. CASE Fail(h, "DuplicateTransaction")
    BY <2>1, OwnFail, Zenon
  <2>2. CASE ~Fail(h, "DuplicateTransaction")
    <3>1. /\ ~Settles(call[h]) /\ Goto(h, "update")
          /\ call' = call /\ accounts' = accounts /\ transactions' = transactions
          /\ legs' = legs /\ dirty' = dirty
      BY <1>7, <2>2 DEF CreateTransaction, PhaseOfOperation, Settles, database
    <3>. QED
      BY <1>1, <1>2, <3>1, OwnGoto
  <2>. QED
    BY <2>1, <2>2, Zenon
<1>. QED
  BY <1>3, <1>4, <1>5, <1>6, <1>7, Zenon

\* capture and void fetch the entries of the transaction they settle.
LEMMA GetTransactionOwn ==
  ASSUME IInv, OwnRows, NEW h \in Requests, GetTransaction(h)
  PROVE  OwnRows'
<1>. USE DEF IInv
<1>1. pc[h] = "read" /\ Settles(call[h]) /\ DOMAIN dirty[h] = {}
  BY Zenon DEF GetTransaction, PhaseOfOperation, UncommittedRows
<1>2. CASE \E code : Fail(h, code)
  BY <1>2, OwnFail, Zenon
<1>3. CASE Answer(h, "Ok", call[h].tx) /\ UNCHANGED <<database, call, legs, dirty>>
  BY <1>1, <1>3, OwnAnswer, Zenon DEF database
<1>4. CASE /\ call[h].tx \in DOMAIN transactions
           /\ legs' = [legs EXCEPT ![h] = get_entries_for_transaction(call[h].tx)]
           /\ Goto(h, "lock") /\ UNCHANGED <<database, call, dirty>>
  <2>1. /\ pc'[h] = "lock" /\ legs'[h] = transactions[call[h].tx].legs
        /\ \A g \in Requests \ {h} : pc'[g] = pc[g] /\ legs'[g] = legs[g] /\ dirty'[g] = dirty[g]
        /\ call' = call /\ accounts' = accounts /\ transactions' = transactions /\ dirty' = dirty
    BY <1>4 DEF TypeOK, Goto, get_entries_for_transaction, database
  <2>2. call[h].op # "Authorize" /\ call[h].op # "CreateAccount"
    BY <1>1 DEF Settles
  <2>3. DOMAIN dirty'[h] \subseteq Touched(h)' /\ \A a \in DOMAIN dirty'[h] : dirty'[h][a] = UpdatedRow(h, a)'
    BY <1>1, <2>1, Zenon
  <2>4. pc'[h] # "commit"
    BY <2>1
  <2>5. Own(h)'
    BY <1>4, <2>1, <2>2, <2>3, <2>4, Zenon DEF Own
  <2>. QED
    BY <2>1, <2>5, OneOwns, Zenon
<1>. QED
  BY <1>2, <1>3, <1>4, Zenon DEF GetTransaction

\* One more row of the transfer is written.
LEMMA UpdateOwn ==
  ASSUME IInv, OwnRows, NEW h \in Requests, UpdateAccountBalance(h)
  PROVE  OwnRows'
<1>. USE DEF IInv
<1>1. CASE \E code : Fail(h, code)
  BY <1>1, OwnFail, Zenon
<1>2. CASE ~\E code : Fail(h, code)
  <2>1. PICK a \in Touched(h) :
          /\ dirty' = [dirty EXCEPT ![h] = Extend(@, a, UpdatedRow(h, a))]
          /\ Goto(h, IF Touched(h) \ DOMAIN dirty[h] # {a} THEN "update" ELSE "commit")
          /\ UNCHANGED <<database, call, legs>>
    BY <1>2, Zenon DEF UpdateAccountBalance
  <2>2. pc[h] = "update" /\ call[h].op # "CreateAccount" /\ Own(h)
    BY Zenon DEF UpdateAccountBalance, PhaseOfOperation, OwnRows
  <2>3. /\ call' = call /\ legs' = legs /\ accounts' = accounts /\ transactions' = transactions
        /\ \A g \in Requests \ {h} : pc'[g] = pc[g] /\ dirty'[g] = dirty[g]
        /\ pc'[h] = IF Touched(h) \ DOMAIN dirty[h] # {a} THEN "update" ELSE "commit"
        /\ dirty'[h] = Extend(dirty[h], a, UpdatedRow(h, a))
    <3>. HIDE DEF UpdatedRow
    <3>. QED
      BY <2>1, Zenon DEF TypeOK, Goto, database
  <2>4. /\ DOMAIN dirty'[h] = DOMAIN dirty[h] \cup {a} /\ dirty'[h][a] = UpdatedRow(h, a)
        /\ \A b \in DOMAIN dirty[h] : b # a => dirty'[h][b] = dirty[h][b]
    BY <2>3, Zenon DEF Extend, Overwrite
  <2>5. Touched(h)' = Touched(h) /\ \A b : UpdatedRow(h, b)' = UpdatedRow(h, b)
    BY <2>3, UpdatedRowKept, Zenon DEF Touched
  <2>6. /\ DOMAIN dirty'[h] \subseteq Touched(h)'
        /\ \A b \in DOMAIN dirty'[h] : dirty'[h][b] = UpdatedRow(h, b)'
    BY <2>2, <2>4, <2>5, Zenon DEF Own
  <2>7. pc'[h] = "commit" => DOMAIN dirty'[h] = Touched(h)'
    <3>1. pc'[h] = "commit" => Touched(h) \ DOMAIN dirty[h] = {a}
      BY <2>3
    <3>2. DOMAIN dirty[h] \subseteq Touched(h)
      BY <2>2, Zenon DEF Own
    <3>. QED
      BY <2>4, <2>5, <3>1, <3>2, Zenon
  <2>8. /\ call[h].op = "Authorize" => legs[h] = parse_transfer_legs(call[h].legs)
        /\ Settles(call[h]) => call[h].tx \in DOMAIN transactions /\ legs[h] = transactions[call[h].tx].legs
    BY <2>2 DEF Own, InFlight, Holding
  <2>9. Own(h)'
    BY <2>2, <2>3, <2>6, <2>7, <2>8, Zenon DEF Own, Settles
  <2>. QED
    BY <2>3, <2>9, OneOwns, Zenon
<1>. QED
  BY <1>1, <1>2, Zenon

\* create_account writes one row, at zero.
LEMMA InsertOwn ==
  ASSUME IInv, OwnRows, NEW h \in Requests, InsertAccount(h)
  PROVE  OwnRows'
<1>. USE DEF IInv
<1>. DEFINE t == AccountTypeOfProto[call[h].account_type]
<1>1. /\ dirty' = [dirty EXCEPT ![h] = Extend(@, nextAccountId, NewAccount(t))]
      /\ pc' = [pc EXCEPT ![h] = "commit"]
      /\ call' = call /\ legs' = legs /\ accounts' = accounts /\ transactions' = transactions
  BY DEF InsertAccount, Goto, NewAccount
<1>2. /\ call[h].op = "CreateAccount" /\ arguments(call[h]) = "Ok" /\ DOMAIN dirty[h] = {}
  BY Zenon DEF InsertAccount, PhaseOfOperation, InFlight, UncommittedRows
<1>3. t \in AccountType
  <2>1. call[h].account_type \in 1 .. 5
    BY <1>2 DEF arguments, create_account_arguments, AccountTypeOfProto
  <2>. QED
    BY <2>1 DEF AccountTypeOfProto, AccountType
<1>. HIDE DEF t
<1>4. /\ dirty'[h] = Extend(dirty[h], nextAccountId, NewAccount(t)) /\ pc'[h] = "commit"
      /\ \A g \in Requests \ {h} : pc'[g] = pc[g] /\ legs'[g] = legs[g] /\ dirty'[g] = dirty[g]
  BY <1>1, Zenon DEF TypeOK
<1>5. dirty'[h] = [z \in {nextAccountId} |-> NewAccount(t)]
  BY <1>2, <1>4, Zenon DEF Extend, Overwrite
<1>6. nextAccountId \in DOMAIN dirty'[h]
  BY <1>5, Zenon
<1>7. ~Settles(call[h]) /\ call[h].op # "Authorize"
  BY <1>2 DEF Settles
<1>8. Own(h)'
  BY <1>1, <1>2, <1>3, <1>5, <1>6, <1>7, Zenon DEF Own, Settles
<1>. QED
  BY <1>1, <1>4, <1>8, OneOwns, Zenon

\* A commit changes no row that another handler has written, and no legs.
LEMMA CommitOwn ==
  ASSUME IInv, OwnRows, NEW h \in Requests, Commit(h)
  PROVE  OwnRows'
<1>. USE DEF IInv
<1>1. /\ pc[h] = "commit" /\ accounts' = Overwrite(accounts, dirty[h])
      /\ dirty'[h] = Empty /\ pc'[h] = "committed" /\ call' = call /\ legs' = legs
      /\ \A g \in Requests \ {h} : pc'[g] = pc[g] /\ dirty'[g] = dirty[g]
  BY DEF Commit, Goto, TypeOK
<1>2. ASSUME NEW t \in DOMAIN transactions
      PROVE  t \in DOMAIN transactions' /\ transactions'[t].legs = transactions[t].legs
  <2>1. transactions'[t] = transactions[t] \/ transactions'[t] = settled(transactions[t], call[h])
    BY CommittedRows, Zenon
  <2>2. transactions[t] \in Transaction
    BY Zenon DEF TypeOK
  <2>3. settled(transactions[t], call[h]).legs = transactions[t].legs
    BY <2>2 DEF settled, update_entry_status_by_transaction, update_transaction_status, Transaction
  <2>. QED
    BY <2>1, <2>3, CommittedRows, Zenon
<1>3. Own(h)'
  <2>1. DOMAIN dirty'[h] = {} /\ pc'[h] \notin Holding
    BY <1>1 DEF Empty, Holding
  <2>2. call[h].op = "Authorize" => legs[h] = parse_transfer_legs(call[h].legs)
    BY <1>1, Zenon DEF OwnRows, Own, InFlight
  <2>. QED
    BY <1>1, <2>1, <2>2, OwnNothing, Zenon
<1>4. ASSUME NEW g \in Requests \ {h}
      PROVE  Own(g)'
  <2>1. /\ Own(g) /\ call'[g] = call[g] /\ pc'[g] = pc[g] /\ legs'[g] = legs[g] /\ dirty'[g] = dirty[g]
    BY <1>1, Zenon DEF OwnRows
  <2>2. call[g].op # "CreateAccount" => \A a \in DOMAIN dirty[g] : accounts'[a] = accounts[a]
    <3>1. call[g].op # "CreateAccount" => DOMAIN dirty[g] \subseteq DOMAIN accounts
      BY Zenon DEF UncommittedRows, TypeOK
    <3>2. DOMAIN dirty[g] \cap DOMAIN dirty[h] = {}
      BY Zenon DEF UncommittedRows
    <3>. QED
      BY <1>1, <3>1, <3>2, Zenon DEF Overwrite
  <2>3. Settles(call[g]) /\ pc[g] \in Holding =>
           /\ call[g].tx \in DOMAIN transactions'
           /\ transactions'[call[g].tx].legs = transactions[call[g].tx].legs
    BY <1>2, <2>1, Zenon DEF Own
  <2>. QED
    BY <2>1, <2>2, <2>3, OwnKept, Zenon
<1>. QED
  BY <1>3, <1>4, Zenon DEF OwnRows

\* The cache is written after the commit, by handlers with nothing uncommitted.
LEMMA CacheOwn ==
  ASSUME IInv, OwnRows, NEW h \in Requests, ApplyDelta(h) \/ SetCache(h)
  PROVE  OwnRows'
<1>. USE DEF IInv
<1>1. /\ InFlight(h) /\ DOMAIN dirty[h] = {}
      /\ call' = call /\ accounts' = accounts /\ transactions' = transactions
      /\ legs' = legs /\ dirty' = dirty
  BY DEF ApplyDelta, SetCache, database, UncommittedRows, InFlight
<1>2. CASE \E t : Answer(h, "Ok", t)
  BY <1>1, <1>2, OwnAnswer, Zenon
<1>3. CASE Goto(h, "apply")
  <2>1. "apply" # "commit" /\ "apply" \notin Holding
    BY DEF Holding
  <2>. QED
    BY <1>1, <1>3, <2>1, OwnGoto, Zenon
<1>. QED
  BY <1>2, <1>3, Zenon DEF ApplyDelta, SetCache

\* A request arrives: an authorization brings its legs.
LEMMA ReceiveOwn ==
  ASSUME IInv, OwnRows, NEW h \in Requests, Receive(h)
  PROVE  OwnRows'
<1>. USE DEF IInv
<1>1. PICK c \in Calls :
        /\ call' = [call EXCEPT ![h] = c]
        /\ IF arguments(c) = "Ok"
           THEN /\ Goto(h, "begin")
                /\ legs' = [legs EXCEPT ![h] =
                              IF c.op = "Authorize" THEN parse_transfer_legs(c.legs) ELSE <<>>]
           ELSE Answer(h, arguments(c), NoTransaction)
        /\ arguments(c) # "Ok" => legs' = legs
  BY Zenon DEF Receive
<1>2. /\ pc[h] = "idle" /\ DOMAIN dirty[h] = {}
      /\ accounts' = accounts /\ transactions' = transactions /\ dirty' = dirty
  BY DEF Receive, database, UncommittedRows
<1>3. \A g \in Requests \ {h} : pc'[g] = pc[g] /\ legs'[g] = legs[g] /\ call'[g] = call[g]
  BY <1>1 DEF TypeOK, Goto, Answer
<1>4. /\ call'[h] = c /\ pc'[h] = IF arguments(c) = "Ok" THEN "begin" ELSE "done"
      /\ arguments(c) = "Ok" /\ c.op = "Authorize" => legs'[h] = parse_transfer_legs(c.legs)
  <2>1. call'[h] = c /\ pc'[h] = IF arguments(c) = "Ok" THEN "begin" ELSE "done"
    BY <1>1 DEF TypeOK, Goto, Answer
  <2>2. arguments(c) = "Ok" /\ c.op = "Authorize" =>
          legs' = [legs EXCEPT ![h] = parse_transfer_legs(c.legs)]
    BY <1>1
  <2>. QED
    BY <2>1, <2>2, Zenon DEF TypeOK
<1>5. Own(h)'
  <2>1. pc'[h] \notin Holding /\ (InFlight(h)' => arguments(c) = "Ok")
    BY <1>4 DEF Holding, InFlight
  <2>. QED
    BY <1>2, <1>4, <2>1, OwnNothing, Zenon
<1>6. ASSUME NEW g \in Requests \ {h}
      PROVE  Own(g)'
  <2>1. Own(g)
    BY Zenon DEF OwnRows
  <2>2. Settles(call[g]) /\ pc[g] \in Holding =>
           /\ call[g].tx \in DOMAIN transactions'
           /\ transactions'[call[g].tx].legs = transactions[call[g].tx].legs
    BY <1>2, <2>1, Zenon DEF Own
  <2>. QED
    BY <1>2, <1>3, <2>1, <2>2, OwnKept, Zenon
<1>. QED
  BY <1>5, <1>6, Zenon DEF OwnRows

\* A crash rolls every handler back.
LEMMA CrashOwn ==
  ASSUME IInv, Crash
  PROVE  OwnRows'
<1>. SUFFICES ASSUME NEW h \in Requests PROVE Own(h)'
  BY Zenon DEF OwnRows
<1>1. pc'[h] \in {"idle", "done"} /\ dirty'[h] = Empty
  BY DEF Crash, Die, InFlight, IInv, TypeOK
<1>2. DOMAIN dirty'[h] = {} /\ pc'[h] \notin Holding /\ ~InFlight(h)'
  BY <1>1 DEF Empty, Holding, InFlight
<1>. QED
  BY <1>2, OwnNothing, Zenon

\* Every step keeps OwnRows.
LEMMA NextOwnRows == IInv /\ OwnRows /\ [Next]_vars => OwnRows'
<1>. SUFFICES ASSUME IInv, OwnRows, [Next]_vars PROVE OwnRows'
  OBVIOUS
<1>1. ASSUME NEW h \in Requests, Receive(h)
      PROVE  OwnRows'
  BY <1>1, ReceiveOwn, Zenon
<1>2. ASSUME NEW h \in Requests, Step(h)
      PROVE  OwnRows'
  BY <1>2, EarlyOwn, GetTransactionOwn, UpdateOwn, InsertOwn, CommitOwn, CacheOwn, Zenon DEF Step
<1>3. ASSUME NEW h \in Requests, Fault(h)
      PROVE  OwnRows'
  <2>1. PICK code \in {"Unknown", "Internal"} : Fail(h, code)
    BY <1>3 DEF Fault, Cancel, DatabaseError, PoolTimeout
  <2>. QED
    BY <2>1, OwnFail, Zenon DEF IInv
<1>4. CASE Crash
  BY <1>4, CrashOwn
<1>5. CASE Restart \/ UNCHANGED vars
  <2>1. /\ call' = call /\ pc' = pc /\ legs' = legs /\ dirty' = dirty
        /\ accounts' = accounts /\ transactions' = transactions
    BY <1>5 DEF Restart, vars, database, locals
  <2>2. ASSUME NEW h \in Requests
        PROVE  Own(h)'
    <3>1. Own(h)
      BY Zenon DEF OwnRows
    <3>2. Settles(call[h]) /\ pc[h] \in Holding =>
             /\ call[h].tx \in DOMAIN transactions'
             /\ transactions'[call[h].tx].legs = transactions[call[h].tx].legs
      BY <2>1, <3>1, Zenon DEF Own
    <3>. QED
      BY <2>1, <3>1, <3>2, OwnKept, Zenon
  <2>. QED
    BY <2>2, Zenon DEF OwnRows
<1>. QED
  BY <1>1, <1>2, <1>3, <1>4, <1>5 DEF Next, AllServed

\* It holds when the server starts.
LEMMA InitOwnRows == Init => OwnRows
<1>. SUFFICES ASSUME Init, NEW h \in Requests PROVE Own(h)
  BY Zenon DEF OwnRows
<1>1. pc[h] = "idle" /\ call[h] = NoCall /\ DOMAIN dirty[h] = {}
  BY Zenon DEF Init, Opened, Empty
<1>2. pc[h] # "commit" /\ pc[h] \notin Holding /\ ~InFlight(h)
  BY <1>1 DEF Holding, InFlight
<1>3. DOMAIN dirty[h] \subseteq Touched(h) /\ \A a \in DOMAIN dirty[h] : dirty[h][a] = UpdatedRow(h, a)
  BY <1>1, Zenon
<1>. QED
  BY <1>2, <1>3, Zenon DEF Own

-----------------------------------------------------------------------------
(* A commit is one operation of the atomic ledger. *)

\* The atomic ledger computes with the operators of Domain.
LEMMA SameOperators ==
  /\ Atomic!I64 = I64
  /\ \A t, ls, a : Atomic!leg_delta(t, ls, a) = leg_delta(t, ls, a)
  /\ \A ls : Atomic!validate_transaction_balance(ls) = validate_transaction_balance(ls)
<1>1. Atomic!I64 = I64
  BY DEF Atomic!I64, Atomic!MinI64, I64, MinI64
<1>2. ASSUME NEW t, NEW ls, NEW a
      PROVE  Atomic!leg_delta(t, ls, a) = leg_delta(t, ls, a)
  BY DEF Atomic!leg_delta, leg_delta, Atomic!loop, loop, Atomic!compute_balance_delta,
         compute_balance_delta, Atomic!normal_balance, normal_balance,
         Atomic!MapThenFoldSet, MapThenFoldSet, Atomic!Max, Max
<1>3. ASSUME NEW ls
      PROVE  Atomic!validate_transaction_balance(ls) = validate_transaction_balance(ls)
  BY DEF Atomic!validate_transaction_balance, validate_transaction_balance,
         Atomic!leg_totals, leg_totals, Atomic!loop, loop, Atomic!add_checked, add_checked,
         Atomic!ZeroTotals, ZeroTotals, Atomic!I64, Atomic!MinI64, I64, MinI64,
         Atomic!MapThenFoldSet, MapThenFoldSet, Atomic!Max, Max
<1>. QED
  BY <1>1, <1>2, <1>3, Zenon

\* The balances of a row of the book.
LEMMA RowFields ==
  ASSUME NEW t, NEW p, NEW q, NEW row, row = [type |-> t, posted |-> p, pending |-> q]
  PROVE  row.type = t /\ row.posted = p /\ row.pending = q
OBVIOUS

\* The balance update of a commit is the whole movement of the transfer.
LEMMA CommitMoves ==
  ASSUME IInv, OwnRows, NEW h \in Requests, Commit(h), call[h].op \in {"Authorize", "Capture", "Void"}
  PROVE  Atomic!Move(legs[h], call[h].op)
<1>. USE DEF IInv
<1>. DEFINE delta(a) == leg_delta(accounts[a].type, legs[h], a)
            op == call[h].op
            moved(a) == [type |-> accounts[a].type,
                         posted |-> accounts[a].posted + Atomic!PostedPart(op, delta(a)),
                         pending |-> accounts[a].pending + Atomic!PendingPart(op, delta(a))]
<1>1. /\ pc[h] = "commit" /\ call[h].op # "CreateAccount"
      /\ accounts' = Overwrite(accounts, dirty[h])
  BY DEF Commit
<1>2. /\ DOMAIN dirty[h] = Touched(h) /\ Touched(h) \subseteq DOMAIN accounts
      /\ \A a \in Touched(h) : dirty[h][a] = UpdatedRow(h, a) /\ dirty[h][a] \in Account
  <2>1. /\ DOMAIN dirty[h] = Touched(h)
        /\ \A a \in Touched(h) : dirty[h][a] = UpdatedRow(h, a)
    BY <1>1, Zenon DEF OwnRows, Own
  <2>2. DOMAIN dirty[h] \subseteq DOMAIN accounts
    BY <1>1, Zenon DEF UncommittedRows, TypeOK
  <2>3. \A a \in DOMAIN dirty[h] : dirty[h][a] \in Account
    BY Zenon DEF TypeOK
  <2>. QED
    BY <2>1, <2>2, <2>3, Zenon
<1>3. /\ DOMAIN accounts' = DOMAIN accounts
      /\ \A a \in Touched(h) : accounts'[a] = UpdatedRow(h, a) /\ accounts'[a] \in Account
      /\ \A a \in DOMAIN accounts \ Touched(h) : accounts'[a] = accounts[a]
  BY <1>1, <1>2, Zenon DEF Overwrite
<1>4. ASSUME NEW a \in Touched(h)
      PROVE  /\ [type |-> accounts'[a].type, posted |-> accounts'[a].posted,
                 pending |-> accounts'[a].pending] = moved(a)
             /\ accounts'[a].posted \in I64 /\ accounts'[a].pending \in I64
  <2>1. accounts[a] \in Account
    BY <1>2, Zenon DEF TypeOK
  <2>2. /\ posted_delta(h, a) = Atomic!PostedPart(op, delta(a))
        /\ pending_delta(h, a) = Atomic!PendingPart(op, delta(a))
    BY DEF posted_delta, pending_delta, Atomic!PostedPart, Atomic!PendingPart
  <2>. HIDE DEF delta
  <2>3. /\ accounts'[a].type = accounts[a].type
        /\ accounts'[a].posted = accounts[a].posted + posted_delta(h, a)
        /\ accounts'[a].pending = accounts[a].pending + pending_delta(h, a)
    BY <1>3, <2>1 DEF UpdatedRow, Account
  <2>4. accounts'[a].posted \in I64 /\ accounts'[a].pending \in I64
    BY <1>3 DEF Account
  <2>. QED
    BY <2>2, <2>3, <2>4
<1>5. Atomic!LegAccounts(legs[h]) = Touched(h)
  BY Zenon DEF Atomic!LegAccounts, Touched
<1>. DEFINE old == BalancesOf(accounts)
            new == BalancesOf(accounts')
<1>6. /\ DOMAIN old = DOMAIN accounts /\ DOMAIN new = DOMAIN accounts
      /\ \A a \in DOMAIN accounts :
           /\ old[a] = [type |-> accounts[a].type, posted |-> accounts[a].posted,
                        pending |-> accounts[a].pending]
           /\ new[a] = [type |-> accounts'[a].type, posted |-> accounts'[a].posted,
                        pending |-> accounts'[a].pending]
  BY <1>3, Zenon DEF BalancesOf
<1>7. ASSUME NEW a \in Touched(h)
      PROVE  /\ new[a] = LET d == Atomic!leg_delta(old[a].type, legs[h], a)
                         IN  [old[a] EXCEPT !.posted = @ + Atomic!PostedPart(op, d),
                                            !.pending = @ + Atomic!PendingPart(op, d)]
             /\ new[a].posted \in Atomic!I64 /\ new[a].pending \in Atomic!I64
  <2>1. /\ old[a] = [type |-> accounts[a].type, posted |-> accounts[a].posted,
                     pending |-> accounts[a].pending]
        /\ new[a] = moved(a)
    BY <1>2, <1>4, <1>6, Zenon
  <2>2. Atomic!leg_delta(old[a].type, legs[h], a) = delta(a)
    BY <2>1, SameOperators
  <2>3. new[a] = [type |-> accounts'[a].type, posted |-> accounts'[a].posted,
                  pending |-> accounts'[a].pending]
    BY <1>2, <1>6, Zenon
  <2>. HIDE DEF delta, old, new
  <2>4. new[a].posted \in Atomic!I64 /\ new[a].pending \in Atomic!I64
    <3>1. new[a].posted = accounts'[a].posted /\ new[a].pending = accounts'[a].pending
      BY <2>3, RowFields
    <3>. QED
      BY <1>4, <3>1, SameOperators, Zenon
  <2>5. [old[a] EXCEPT !.posted = @ + Atomic!PostedPart(op, delta(a)),
                       !.pending = @ + Atomic!PendingPart(op, delta(a))] = moved(a)
    <3>. DEFINE t == accounts[a].type
                p == accounts[a].posted
                q == accounts[a].pending
    <3>1. old[a] = [type |-> t, posted |-> p, pending |-> q]
      BY <2>1
    <3>. HIDE DEF t, p, q
    <3>2. old[a].posted = p /\ old[a].pending = q
      BY <3>1
    <3>3. ASSUME NEW u, NEW v
          PROVE  [old[a] EXCEPT !.posted = u, !.pending = v] = [type |-> t, posted |-> u, pending |-> v]
      <4>. DEFINE row == old[a]
                  result == [row EXCEPT !.posted = u, !.pending = v]
      <4>1. row = [type |-> t, posted |-> p, pending |-> q] /\ result = [row EXCEPT !.posted = u, !.pending = v]
        BY <3>1
      <4>. HIDE DEF row, result
      <4>2. result = [type |-> t, posted |-> u, pending |-> v]
        BY <4>1
      <4>. QED
        BY <4>2 DEF row, result
    <3>. QED
      BY <3>2, <3>3, Zenon DEF t, p, q
  <2>. QED
    BY <2>1, <2>2, <2>4, <2>5, Zenon
<1>8. \A a \in DOMAIN accounts \ Touched(h) : new[a] = old[a]
  BY <1>3, <1>6, Zenon
<1>. HIDE DEF old, new
<1>9. new = [a \in DOMAIN old |->
               IF a \in Touched(h)
               THEN LET d == Atomic!leg_delta(old[a].type, legs[h], a)
                    IN  [old[a] EXCEPT !.posted = @ + Atomic!PostedPart(op, d),
                                       !.pending = @ + Atomic!PendingPart(op, d)]
               ELSE old[a]]
  <2>1. new = [a \in DOMAIN new |-> new[a]]
    BY Zenon DEF new, BalancesOf
  <2>. QED
    BY <1>6, <1>7, <1>8, <2>1
<1>. QED
  BY <1>2, <1>5, <1>6, <1>7, <1>9, Zenon DEF Atomic!Move, old, new

\* The commit of create_account opens one account.
LEMMA CommitOpens ==
  ASSUME IInv, OwnRows, NEW h \in Requests, Commit(h), call[h].op = "CreateAccount"
  PROVE  Atomic!Open
<1>. USE DEF IInv
<1>1. /\ pc[h] = "commit" /\ accounts' = Overwrite(accounts, dirty[h]) /\ transactions' = transactions
  BY DEF Commit, TransactionsAfter, Settles
<1>2. PICK a \in DOMAIN dirty[h], t \in AccountType : dirty[h] = [z \in {a} |-> NewAccount(t)]
  BY <1>1, Zenon DEF OwnRows, Own
<1>3. a \notin DOMAIN accounts
  BY Zenon DEF UncommittedRows
<1>4. /\ DOMAIN accounts' = DOMAIN accounts \cup {a} /\ accounts'[a] = NewAccount(t)
      /\ \A b \in DOMAIN accounts : accounts'[b] = accounts[b]
  BY <1>1, <1>2, <1>3, Zenon DEF Overwrite
<1>. DEFINE old == BalancesOf(accounts)
            new == BalancesOf(accounts')
<1>5. /\ DOMAIN old = DOMAIN accounts /\ DOMAIN new = DOMAIN accounts \cup {a}
      /\ \A b \in DOMAIN accounts : new[b] = old[b]
  BY <1>4, Zenon DEF BalancesOf
<1>6. new[a] = [type |-> t, posted |-> 0, pending |-> 0]
  <2>1. new[a] = [type |-> accounts'[a].type, posted |-> accounts'[a].posted,
                  pending |-> accounts'[a].pending]
    BY <1>4, Zenon DEF BalancesOf
  <2>. QED
    BY <1>4, <2>1 DEF NewAccount
<1>7. new = [b \in DOMAIN new |-> new[b]]
  BY Zenon DEF BalancesOf
<1>. HIDE DEF old, new
<1>8. new = [b \in DOMAIN old \cup {a} |->
               IF b = a THEN [type |-> t, posted |-> 0, pending |-> 0] ELSE old[b]]
  BY <1>5, <1>6, <1>7
<1>9. a \in DOMAIN new \ DOMAIN old
  BY <1>3, <1>5, Zenon
<1>a. BookOf(transactions)' = BookOf(transactions)
  BY <1>1, Zenon
<1>b. t \in Atomic!AccountType
  BY DEF Atomic!AccountType, AccountType
<1>. QED
  BY <1>8, <1>9, <1>a, <1>b, Zenon DEF Atomic!Open, old, new

\* The commit of authorize places one hold, under a key no transaction has.
LEMMA CommitHolds ==
  ASSUME IInv, OwnRows, NEW h \in Requests, Commit(h), call[h].op = "Authorize"
  PROVE  \E t \in TransactionIds, k \in {c.key : c \in AcceptedAuthorizations},
            ls \in {parse_transfer_legs(c.legs) : c \in AcceptedAuthorizations} :
              Atomic!Hold(t, k, ls)
<1>. USE DEF IInv
<1>. DEFINE row == create_transaction(call[h].key, legs[h])
<1>1. /\ pc[h] = "commit" /\ InFlight(h) /\ ~Settles(call[h])
      /\ transactions' = Overwrite(transactions, [z \in {h} |-> row])
  BY DEF Commit, TransactionsAfter, Settles, InFlight, Extend
<1>2. /\ arguments(call[h]) = "Ok" /\ call[h] # NoCall /\ call[h] \in Calls
      /\ legs[h] = parse_transfer_legs(call[h].legs)
  <2>1. arguments(call[h]) = "Ok" /\ call[h] # NoCall
    BY <1>1 DEF PhaseOfOperation
  <2>2. call[h] \in Calls
    BY <2>1, Zenon DEF TypeOK
  <2>. QED
    BY <1>1, <2>1, <2>2, Zenon DEF OwnRows, Own
<1>3. validate_transaction_balance(legs[h]) = "Ok"
  BY <1>2 DEF arguments, authorize_arguments
<1>4. h \in TransactionIds /\ h \notin DOMAIN transactions
  BY CommittedRows DEF TransactionIds
<1>5. \A u \in DOMAIN transactions : transactions[u].key # call[h].key
  BY <1>1, Zenon DEF KeyReservations, Inserted, KeyIsTaken
<1>. DEFINE old == BookOf(transactions)
            new == BookOf(transactions')
<1>. HIDE DEF row
<1>6. /\ DOMAIN transactions' = DOMAIN transactions \cup {h} /\ transactions'[h] = row
      /\ \A u \in DOMAIN transactions : transactions'[u] = transactions[u]
  BY <1>1, <1>4, Zenon DEF Overwrite
<1>7. /\ DOMAIN old = DOMAIN transactions /\ DOMAIN new = DOMAIN transactions \cup {h}
      /\ \A u \in DOMAIN transactions : new[u] = old[u]
  BY <1>6, Zenon DEF BookOf
<1>8. \A u \in DOMAIN old : old[u].key # call[h].key
  <2>1. \A u \in DOMAIN transactions : old[u].key = transactions[u].key
    BY DEF BookOf
  <2>. QED
    BY <1>5, <1>7, <2>1, Zenon
<1>9. new[h] = [key |-> call[h].key, status |-> "Pending", legs |-> legs[h]]
  <2>1. new[h] = [key |-> row.key, status |-> row.status, legs |-> row.legs]
    BY <1>6, Zenon DEF BookOf
  <2>. QED
    BY <2>1 DEF row, create_transaction
<1>a. new = [u \in DOMAIN new |-> new[u]]
  BY Zenon DEF BookOf
<1>. HIDE DEF old, new
<1>b. new = [u \in DOMAIN old \cup {h} |->
               IF u = h THEN [key |-> call[h].key, status |-> "Pending", legs |-> legs[h]] ELSE old[u]]
  BY <1>4, <1>7, <1>9, <1>a, Zenon
<1>c. Atomic!Move(legs[h], "Authorize")
  BY CommitMoves
<1>d. Atomic!Hold(h, call[h].key, legs[h])
  BY <1>3, <1>4, <1>7, <1>8, <1>b, <1>c, SameOperators, Zenon DEF Atomic!Hold, old, new
<1>e. /\ call[h].key \in {c.key : c \in AcceptedAuthorizations}
      /\ legs[h] \in {parse_transfer_legs(c.legs) : c \in AcceptedAuthorizations}
  BY <1>2, Zenon DEF AcceptedAuthorizations
<1>. QED
  BY <1>4, <1>d, <1>e, Zenon

\* The commit of capture or void settles one transaction that was pending.
LEMMA CommitSettles ==
  ASSUME IInv, OwnRows, SettlesAlone, NEW h \in Requests, Commit(h), Settles(call[h])
  PROVE  \E t \in TransactionIds, op \in {"Capture", "Void"} : Atomic!Settle(t, op)
<1>. USE DEF IInv
<1>. DEFINE t == call[h].tx
            op == call[h].op
<1>1. pc[h] = "commit" /\ pc[h] \in Holding /\ op \in {"Capture", "Void"}
  BY DEF Commit, Settles, Holding
<1>2. /\ t \in DOMAIN transactions /\ transactions[t].status = "Pending"
      /\ legs[h] = transactions[t].legs
  BY <1>1, Zenon DEF SettlesAlone, OwnRows, Own
<1>3. /\ DOMAIN transactions' = DOMAIN transactions
      /\ transactions'[t] = settled(transactions[t], call[h])
      /\ \A u \in DOMAIN transactions : u # t => transactions'[u] = transactions[u]
  BY <1>2, CommittedRows, Zenon
<1>4. t \in TransactionIds /\ transactions[t] \in Transaction
  BY <1>2, Zenon DEF TypeOK
<1>5. /\ transactions'[t].key = transactions[t].key /\ transactions'[t].legs = transactions[t].legs
      /\ transactions'[t].status = IF op = "Capture" THEN "Posted" ELSE "Voided"
  BY <1>1, <1>3, <1>4
  DEF settled, update_entry_status_by_transaction, update_transaction_status, TargetStatus, Transaction
<1>. DEFINE old == BookOf(transactions)
            new == BookOf(transactions')
            target == IF op = "Capture" THEN "Posted" ELSE "Voided"
<1>6. /\ DOMAIN old = DOMAIN transactions /\ DOMAIN new = DOMAIN transactions
      /\ \A u \in DOMAIN transactions : u # t => new[u] = old[u]
  BY <1>3, Zenon DEF BookOf
<1>7. /\ old[t] = [key |-> transactions[t].key, status |-> "Pending", legs |-> legs[h]]
      /\ new[t] = [key |-> transactions[t].key, status |-> target, legs |-> legs[h]]
  BY <1>2, <1>3, <1>5, Zenon DEF BookOf
<1>8. new = [u \in DOMAIN new |-> new[u]] /\ old = [u \in DOMAIN old |-> old[u]]
  BY Zenon DEF BookOf
<1>. HIDE DEF old, new, target
<1>9. old[t].status = "Pending" /\ old[t].legs = legs[h]
  BY <1>7
<1>a. new[t] = [old[t] EXCEPT !.status = target]
  <2>. DEFINE before == old[t]
              after == [before EXCEPT !.status = target]
              k == transactions[t].key
  <2>1. before = [key |-> k, status |-> "Pending", legs |-> legs[h]] /\ after = [before EXCEPT !.status = target]
    BY <1>7
  <2>. HIDE DEF before, after, k
  <2>2. after = [key |-> k, status |-> target, legs |-> legs[h]]
    BY <2>1
  <2>. QED
    BY <1>7, <2>2 DEF before, after, k
<1>b. new = [old EXCEPT ![t].status = target]
  <2>1. new = [old EXCEPT ![t] = new[t]]
    BY <1>2, <1>6, <1>8, Zenon
  <2>. QED
    BY <1>a, <2>1, Zenon
<1>c. Atomic!Move(legs[h], op)
  BY <1>1, CommitMoves
<1>d. Atomic!Settle(t, op)
  BY <1>2, <1>6, <1>9, <1>b, <1>c, Zenon DEF Atomic!Settle, old, new, target
<1>. QED
  BY <1>1, <1>4, <1>d, Zenon

\* Every step is one operation of the atomic ledger or leaves the book as it is.
LEMMA StepImplements ==
  IInv /\ OwnRows /\ SettlesAlone /\ [Next]_vars => [Atomic!BookNext]_(Atomic!bookVars)
<1>. SUFFICES ASSUME IInv, OwnRows, SettlesAlone, [Next]_vars
              PROVE  [Atomic!BookNext]_(Atomic!bookVars)
  OBVIOUS
<1>1. ASSUME NEW h \in Requests, Commit(h)
      PROVE  Atomic!BookNext
  <2>1. call[h].op = "Authorize" \/ call[h].op = "CreateAccount" \/ Settles(call[h])
    <3>1. call[h] \in Calls
      BY <1>1, Zenon DEF Commit, IInv, TypeOK, PhaseOfOperation
    <3>. QED
      BY <3>1, CallKinds DEF Settles
  <2>. QED
    BY <1>1, <2>1, CommitOpens, CommitHolds, CommitSettles, Zenon DEF Atomic!BookNext
<1>2. ASSUME accounts' = accounts, transactions' = transactions
      PROVE  UNCHANGED Atomic!bookVars
  BY <1>2, Zenon DEF Atomic!bookVars, BalancesOf, BookOf
<1>3. ASSUME NEW h \in Requests, Receive(h)
      PROVE  accounts' = accounts /\ transactions' = transactions
  BY <1>3 DEF Receive, database
<1>4. CASE \A h \in Requests : ~Receive(h) /\ ~Commit(h)
  BY <1>2, <1>4, TheRestIsQuiet, Zenon DEF Quiet
<1>. QED
  BY <1>1, <1>2, <1>3, <1>4, Zenon

\* The concurrent ledger, with its locks, versions, crashes and lost answers, is the
\* atomic ledger: under one settlement of a transaction at a time, every commit of
\* authorize, capture, void or create_account is one whole operation on the book.
THEOREM ConcurrentLedgerIsAtomic ==
  ASSUME ~ConcurrentSettlement
  PROVE  Spec => ImplementsAtomicLedger
<1>1. Init => Atomic!BookInit
  BY Zenon DEF Init, Opened, Atomic!BookInit
<1>2. Init => OwnRows
  BY InitOwnRows
<1>3. IInv /\ OwnRows /\ [Next]_vars => OwnRows'
  BY NextOwnRows
<1>4. IInv /\ OwnRows /\ SettlesAlone /\ [Next]_vars => [Atomic!BookNext]_(Atomic!bookVars)
  BY StepImplements
<1>. QED
  BY <1>1, <1>2, <1>3, <1>4, AlwaysAlone, PTL DEF Spec, ImplementsAtomicLedger, Atomic!BookSpec
=============================================================================
