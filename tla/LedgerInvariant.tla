-------------------------- MODULE LedgerInvariant --------------------------
(***************************************************************************)
(* The inductive invariant of Ledger and the proof that every action keeps *)
(* it.  LedgerProofs draws the conclusions.                                *)
(***************************************************************************)
EXTENDS Ledger, TLAPS, SequenceTheorems

-----------------------------------------------------------------------------
(* Facts about the operators. *)

\* saturating_add returns an i64 whatever it is given.
LEMMA SaturatingAddType ==
  ASSUME NEW x, NEW y
  PROVE  saturating_add(x, y) \in I64
BY MaxI64Assumption DEF saturating_add, I64, MinI64

\* Legs that pass AccountId::new, proto_to_entry_type, Amount::new and
\* TransferLeg::new parse into well-formed transfer legs.
LEMMA ParsedLegsType ==
  ASSUME NEW s \in Seq(ProtoLeg), \A i \in DOMAIN s : leg_parses(s[i])
  PROVE  parse_transfer_legs(s) \in Seq(TransferLeg)
<1>1. DOMAIN s = 1 .. Len(s) /\ Len(s) \in Nat
  OBVIOUS
<1>2. ASSUME NEW i \in 1 .. Len(s)
      PROVE  [account |-> s[i].account_id, type |-> EntryTypeOfProto[s[i].entry_type],
              amount |-> s[i].amount] \in TransferLeg
  <2>1. s[i] \in ProtoLeg /\ leg_parses(s[i])
    BY <1>1
  <2>2. s[i].entry_type \in {1, 2}
    BY <2>1 DEF leg_parses, EntryTypeOfProto
  <2>3. EntryTypeOfProto[s[i].entry_type] \in EntryType
    BY <2>2 DEF EntryTypeOfProto, EntryType
  <2>4. s[i].account_id \in Nat \ {0} /\ s[i].amount \in 1 .. MaxI64
    BY <2>1, MaxI64Assumption DEF ProtoLeg, leg_parses, I64, MinI64
  <2>. QED
    BY <2>3, <2>4 DEF TransferLeg
<1>3. parse_transfer_legs(s) \in [1 .. Len(s) -> TransferLeg]
  BY <1>1, <1>2 DEF parse_transfer_legs
<1>. QED
  BY <1>1, <1>3, SeqDef

\* The three kinds of call.
LEMMA CallKinds ==
  ASSUME NEW c \in Calls
  PROVE  /\ c # NoCall
         /\ c.op \in {"Authorize", "Capture", "Void", "CreateAccount"}
         /\ c.op = "Authorize" => c \in AuthorizeCall
         /\ Settles(c) => c \in SettleCall
         /\ c.op = "CreateAccount" => c \in CreateAccountCall
BY CallsAssumption DEF AuthorizeCall, SettleCall, CreateAccountCall, NoCall, Settles

\* Whatever arguments() answers is a reply code, and never an outcome that only
\* a database statement produces.
LEMMA ArgumentCodes ==
  ASSUME NEW c \in Calls
  PROVE  arguments(c) \in {"Ok", "InvalidArgument", "Internal", "UnbalancedTransaction"}
<1>1. CASE c.op = "Authorize"
  BY <1>1 DEF arguments, authorize_arguments, validate_transaction_balance
<1>2. CASE c.op = "CreateAccount"
  BY <1>2 DEF arguments, create_account_arguments
<1>3. CASE c.op \in {"Capture", "Void"}
  BY <1>3 DEF arguments, settle_arguments
<1>. QED
  BY <1>1, <1>2, <1>3, CallKinds

\* The legs of an accepted authorize are well-formed.
LEMMA AcceptedLegs ==
  ASSUME NEW c \in Calls, c.op = "Authorize", arguments(c) = "Ok"
  PROVE  parse_transfer_legs(c.legs) \in Seq(TransferLeg)
<1>1. c.legs \in Seq(ProtoLeg)
  BY CallKinds DEF AuthorizeCall
<1>2. \A i \in DOMAIN c.legs : leg_parses(c.legs[i])
  BY DEF arguments, authorize_arguments
<1>. QED
  BY <1>1, <1>2, ParsedLegsType

\* The columns of the row UPDATE accounts writes, when it succeeds.
LEMMA UpdatedRowType ==
  ASSUME NEW h, NEW a, accounts[a] \in Account, RowFits(UpdatedRow(h, a))
  PROVE  /\ UpdatedRow(h, a) \in Account
         /\ UpdatedRow(h, a).version = accounts[a].version + 1
BY DEF RowFits, UpdatedRow, Account

\* A cached balance stays within i64.
LEMMA ApplyDeltaType ==
  ASSUME NEW h, NEW a, cache \in [DOMAIN cache -> [posted : I64, pending : I64]]
  PROVE  /\ DOMAIN apply_delta(h, a) = DOMAIN cache
         /\ apply_delta(h, a) \in [DOMAIN cache -> [posted : I64, pending : I64]]
BY SaturatingAddType DEF apply_delta

\* The accounts of a handler's legs have ids.
LEMMA TouchedType ==
  ASSUME TypeOK, NEW h \in Requests
  PROVE  Touched(h) \subseteq AccountIds
<1>1. legs[h] \in Seq(TransferLeg)
  BY DEF TypeOK
<1>2. \A i \in DOMAIN legs[h] : legs[h][i] \in TransferLeg
  BY <1>1
<1>. QED
  BY <1>2 DEF Touched, TransferLeg, AccountIds

-----------------------------------------------------------------------------
(* The inductive invariant. *)

IInv ==
  /\ TypeOK
  /\ PhaseOfOperation
  /\ LockDiscipline
  /\ UncommittedRows
  /\ LocksAscend
  /\ KeyReservations
  /\ OneTransactionPerKey
  /\ NoVersionConflict

\* The invariant holds when the server starts on an opening database.
LEMMA InitIInv == Init => IInv
<1> SUFFICES ASSUME Init PROVE IInv
  OBVIOUS
<1>. USE DEF Init, Opened
<1>1. TypeOK
  <2>1. cache \in [DOMAIN cache -> [posted : I64, pending : I64]] /\ DOMAIN cache = DOMAIN accounts
    BY OpeningAccountsAssumption DEF Balances, Account
  <2>2. legs \in [Requests -> Seq(TransferLeg)]
    OBVIOUS
  <2>3. DOMAIN Empty = {} /\ Empty \in [{} -> 0 .. MaxI32] /\ Empty \in [{} -> Account]
    BY DEF Empty
  <2>. QED
    BY <2>1, <2>2, <2>3, OpeningAccountsAssumption, OpeningTransactionsAssumption
    DEF TypeOK, Labels, NoReply, Codes, TransactionIds
<1>2. PhaseOfOperation
  BY DEF PhaseOfOperation, InFlight, NoCall, Settles
<1>3. LockDiscipline
  BY DEF LockDiscipline, Empty
<1>4. UncommittedRows
  BY OpeningAccountsAssumption DEF UncommittedRows, Empty, NoCall
<1>5. LocksAscend
  BY DEF LocksAscend
<1>6. KeyReservations
  BY OpeningTransactionsAssumption DEF KeyReservations, Inserted, NoCall
<1>7. OneTransactionPerKey
  BY OpeningTransactionsAssumption DEF OneTransactionPerKey, NoCall
<1>8. NoVersionConflict
  BY DEF NoVersionConflict, NoReply
<1>. QED
  BY <1>1, <1>2, <1>3, <1>4, <1>5, <1>6, <1>7, <1>8 DEF IInv

-----------------------------------------------------------------------------
(* Steps of one handler that leave a part of the invariant's state alone. *)

\* A request under way moves on: the other handlers are where they were.
LEMMA PhaseKept ==
  ASSUME PhaseOfOperation, NEW h \in Requests, InFlight(h), call' = call,
         \A g \in Requests \ {h} : pc'[g] = pc[g] /\ reply'[g] = reply[g],
         pc'[h] # "idle",
         pc'[h] # "done" => reply'[h] = NoReply,
         pc'[h] \in {"find", "check", "create"} => call[h].op = "Authorize",
         pc'[h] = "read" => Settles(call[h]),
         pc'[h] = "insert" => call[h].op = "CreateAccount",
         pc'[h] \in {"lock", "update"} => call[h].op # "CreateAccount"
  PROVE  PhaseOfOperation'
<1>. SUFFICES ASSUME NEW g \in Requests
     PROVE  /\ call[g] = NoCall <=> pc'[g] = "idle"
            /\ InFlight(g)' => arguments(call[g]) = "Ok"
            /\ pc'[g] \in {"find", "check", "create"} => call[g].op = "Authorize"
            /\ pc'[g] = "read" => Settles(call[g])
            /\ pc'[g] = "insert" => call[g].op = "CreateAccount"
            /\ pc'[g] \in {"lock", "update"} => call[g].op # "CreateAccount"
            /\ pc'[g] # "done" => reply'[g] = NoReply
  BY Zenon DEF PhaseOfOperation
<1>1. CASE g = h
  BY <1>1, Zenon DEF PhaseOfOperation, InFlight
<1>2. CASE g # h
  BY <1>2, Zenon DEF PhaseOfOperation, InFlight
<1>. QED
  BY <1>1, <1>2, Zenon

\* The same for the locks, when no lock is taken or released.
LEMMA LocksKept ==
  ASSUME LockDiscipline, NEW h \in Requests,
         seen' = seen, legs' = legs, accounts' = accounts,
         \A g \in Requests \ {h} : pc'[g] = pc[g],
         DOMAIN seen[h] # {} => pc'[h] \in {"lock", "check", "create", "update", "commit"},
         pc'[h] \in {"check", "create", "update"} => Touched(h) \subseteq DOMAIN seen[h]
  PROVE  LockDiscipline'
<1>1. ASSUME NEW g \in Requests
      PROVE  /\ DOMAIN seen'[g] # {} => pc'[g] \in {"lock", "check", "create", "update", "commit"}
             /\ \A f \in Requests \ {g} : DOMAIN seen'[f] \cap DOMAIN seen'[g] = {}
             /\ \A a \in DOMAIN seen'[g] : accounts'[a].version = seen'[g][a]
             /\ pc'[g] \in {"check", "create", "update"} => Touched(g)' \subseteq DOMAIN seen'[g]
  <2>1. Touched(g)' = Touched(g)
    BY Zenon DEF Touched
  <2>2. CASE g = h
    BY <2>1, <2>2 DEF LockDiscipline
  <2>3. CASE g # h
    BY <2>1, <2>3 DEF LockDiscipline
  <2>. QED
    BY <2>2, <2>3, Zenon
<1>. QED
  BY <1>1, Zenon DEF LockDiscipline

-----------------------------------------------------------------------------
(* One lemma per way a handler moves. *)

\* An error return, at any point of a request, rolls back without a trace.
LEMMA FailStep ==
  ASSUME IInv, NEW h \in Requests, NEW code \in Codes \ {"Ok", "VersionConflict"},
         pc[h] # "idle", Fail(h, code)
  PROVE  IInv'
<1>. USE DEF IInv, Fail, Answer, database
<1>0. DOMAIN Empty = {} /\ Empty \in [{} -> 0 .. MaxI32] /\ Empty \in [{} -> Account]
  BY DEF Empty
<1>1. TypeOK'
  BY <1>0 DEF TypeOK, Labels
<1>2. PhaseOfOperation'
  BY DEF TypeOK, PhaseOfOperation, InFlight
<1>3. LockDiscipline'
  BY <1>0 DEF TypeOK, LockDiscipline, Touched
<1>4. UncommittedRows'
  BY <1>0 DEF TypeOK, UncommittedRows
<1>5. LocksAscend'
  BY DEF TypeOK, LocksAscend, Touched
<1>6. KeyReservations'
  BY DEF TypeOK, KeyReservations, Inserted, KeyIsTaken, KeyIsReserved
<1>7. OneTransactionPerKey'
  BY DEF TypeOK, OneTransactionPerKey
<1>8. NoVersionConflict'
  BY DEF TypeOK, NoVersionConflict
<1>. QED
  BY <1>1, <1>2, <1>3, <1>4, <1>5, <1>6, <1>7, <1>8

\* Arrival: a call that is refused at once leaves nothing behind, an accepted one
\* starts without locks, rows or replies.
LEMMA ReceiveStep ==
  ASSUME IInv, NEW h \in Requests, Receive(h)
  PROVE  IInv'
<1>. USE DEF IInv, database
<1>1. PICK c \in Calls :
        /\ call' = [call EXCEPT ![h] = c]
        /\ IF arguments(c) = "Ok"
           THEN /\ Goto(h, "begin")
                /\ legs' = [legs EXCEPT ![h] =
                              IF c.op = "Authorize" THEN parse_transfer_legs(c.legs) ELSE <<>>]
                /\ UNCHANGED reply
           ELSE Answer(h, arguments(c), NoTransaction) /\ UNCHANGED legs
  BY DEF Receive
<1>2. /\ pc[h] = "idle"
      /\ UNCHANGED <<database, cache, up, seen, checked, dirty, unapplied>>
  BY DEF Receive
<1>3. /\ c # NoCall
      /\ c.op \in {"Authorize", "Capture", "Void", "CreateAccount"}
  BY CallKinds
<1>4. /\ pc' = [pc EXCEPT ![h] = IF arguments(c) = "Ok" THEN "begin" ELSE "done"]
      /\ reply' = IF arguments(c) = "Ok" THEN reply
                  ELSE [reply EXCEPT ![h] = [code |-> arguments(c), tx |-> NoTransaction]]
  BY <1>1 DEF Goto, Answer
<1>5. legs' \in [Requests -> Seq(TransferLeg)]
  <2>1. legs \in [Requests -> Seq(TransferLeg)]
    BY DEF TypeOK
  <2>2. CASE arguments(c) # "Ok"
    BY <1>1, <2>1, <2>2
  <2>3. CASE arguments(c) = "Ok" /\ c.op = "Authorize"
    <3>1. parse_transfer_legs(c.legs) \in Seq(TransferLeg)
      BY <2>3, AcceptedLegs
    <3>2. legs' = [legs EXCEPT ![h] = parse_transfer_legs(c.legs)]
      BY <1>1, <2>3
    <3>. QED
      BY <2>1, <3>1, <3>2
  <2>4. CASE arguments(c) = "Ok" /\ c.op # "Authorize"
    <3>1. legs' = [legs EXCEPT ![h] = <<>>]
      BY <1>1, <2>4
    <3>. QED
      BY <2>1, <3>1
  <2>. QED
    BY <2>2, <2>3, <2>4
<1>6. \A g \in Requests \ {h} : legs'[g] = legs[g] /\ call'[g] = call[g] /\ pc'[g] = pc[g]
  BY <1>1, <1>4 DEF TypeOK
<1>7. call'[h] = c /\ pc'[h] \in {"begin", "done"}
  BY <1>1, <1>4, Zenon DEF TypeOK
<1>8. DOMAIN seen[h] = {} /\ DOMAIN dirty[h] = {} /\ h \notin DOMAIN transactions /\ reply[h] = NoReply
  BY <1>2 DEF LockDiscipline, UncommittedRows, KeyReservations, PhaseOfOperation
<1>a. TypeOK'
  BY <1>1, <1>2, <1>4, <1>5, ArgumentCodes DEF TypeOK, Labels, Codes
<1>b. PhaseOfOperation'
  BY <1>1, <1>2, <1>3, <1>4, <1>6, <1>7, <1>8 DEF TypeOK, PhaseOfOperation, InFlight
<1>c. LockDiscipline'
  BY <1>2, <1>6, <1>7, <1>8 DEF LockDiscipline, Touched
<1>d. UncommittedRows'
  BY <1>2, <1>6, <1>7, <1>8 DEF UncommittedRows
<1>e. LocksAscend'
  BY <1>2, <1>6, <1>7 DEF LocksAscend, Touched
<1>f. KeyReservations'
  BY <1>2, <1>6, <1>7, <1>8 DEF KeyReservations, Inserted, KeyIsTaken, KeyIsReserved
<1>g. OneTransactionPerKey'
  BY <1>2, <1>4, <1>6, <1>7, <1>8, ArgumentCodes DEF TypeOK, OneTransactionPerKey, NoReply
<1>h. NoVersionConflict'
  BY <1>4, ArgumentCodes, Zenon DEF TypeOK, NoVersionConflict
<1>. QED
  BY <1>a, <1>b, <1>c, <1>d, <1>e, <1>f, <1>g, <1>h

\* BEGIN, once the pool has a connection.
LEMMA BeginStep ==
  ASSUME IInv, NEW h \in Requests, Begin(h)
  PROVE  IInv'
<1>. USE DEF IInv, database
<1>1. call[h] \in Calls
  BY DEF Begin, TypeOK, PhaseOfOperation
<1>2. PICK next \in {"find", "insert", "read"} :
        /\ pc' = [pc EXCEPT ![h] = next]
        /\ next = "find" <=> call[h].op = "Authorize"
        /\ next = "insert" <=> call[h].op = "CreateAccount"
  BY Zenon DEF Begin, Goto
<1>3. next = "read" => Settles(call[h])
  BY <1>1, <1>2, CallKinds DEF Settles
<1>4. /\ pc[h] = "begin"
      /\ UNCHANGED <<database, cache, up, call, legs, seen, checked, dirty, unapplied, reply>>
  BY DEF Begin
<1>5. DOMAIN seen[h] = {} /\ DOMAIN dirty[h] = {} /\ h \notin DOMAIN transactions
  BY <1>4, Zenon DEF LockDiscipline, UncommittedRows, KeyReservations
<1>a. TypeOK'
  BY <1>2, <1>4, Zenon DEF TypeOK, Labels
<1>b. PhaseOfOperation'
  BY <1>2, <1>3, <1>4 DEF TypeOK, PhaseOfOperation, InFlight
<1>c. LockDiscipline'
  BY <1>2, <1>4, <1>5 DEF TypeOK, LockDiscipline, Touched
<1>d. UncommittedRows'
  BY <1>2, <1>4, <1>5 DEF TypeOK, UncommittedRows
<1>e. LocksAscend'
  BY <1>2, <1>4 DEF TypeOK, LocksAscend, Touched
<1>f. KeyReservations'
  BY <1>2, <1>4, <1>5 DEF TypeOK, KeyReservations, Inserted, KeyIsTaken, KeyIsReserved
<1>g. OneTransactionPerKey'
  BY <1>4 DEF OneTransactionPerKey
<1>h. NoVersionConflict'
  BY <1>4 DEF NoVersionConflict
<1>. QED
  BY <1>a, <1>b, <1>c, <1>d, <1>e, <1>f, <1>g, <1>h

\* A replayed request: the answer names a transaction that is there already.
LEMMA ReplayStep ==
  ASSUME IInv, NEW h \in Requests, pc[h] \in {"find", "read"},
         NEW t \in DOMAIN transactions, Answer(h, "Ok", t),
         call[h].op = "Authorize" => transactions[t].key = call[h].key,
         UNCHANGED <<database, cache, up, call, legs, seen, checked, dirty, unapplied>>
  PROVE  IInv'
<1>. USE DEF IInv, database, Answer
<1>1. DOMAIN seen[h] = {} /\ DOMAIN dirty[h] = {} /\ h \notin DOMAIN transactions
  BY Zenon DEF LockDiscipline, UncommittedRows, KeyReservations
<1>a. TypeOK'
  BY Zenon DEF TypeOK, Labels, Codes
<1>b. PhaseOfOperation'
  BY DEF TypeOK, PhaseOfOperation, InFlight
<1>c. LockDiscipline'
  BY <1>1 DEF TypeOK, LockDiscipline, Touched
<1>d. UncommittedRows'
  BY <1>1 DEF TypeOK, UncommittedRows
<1>e. LocksAscend'
  BY DEF TypeOK, LocksAscend, Touched
<1>f. KeyReservations'
  BY <1>1 DEF TypeOK, KeyReservations, Inserted, KeyIsTaken, KeyIsReserved
<1>g. OneTransactionPerKey'
  BY DEF TypeOK, OneTransactionPerKey
<1>h. NoVersionConflict'
  BY Zenon DEF TypeOK, NoVersionConflict
<1>. QED
  BY <1>a, <1>b, <1>c, <1>d, <1>e, <1>f, <1>g, <1>h, Zenon

\* authorize finds its key, or goes on to lock.
LEMMA FindStep ==
  ASSUME IInv, NEW h \in Requests, FindTransactionByKey(h)
  PROVE  IInv'
<1>. USE DEF IInv, database
<1>1. /\ pc[h] = "find"
      /\ UNCHANGED <<database, cache, up, call, legs, seen, checked, dirty, unapplied>>
  BY Zenon DEF FindTransactionByKey
<1>2. /\ DOMAIN seen[h] = {} /\ DOMAIN dirty[h] = {} /\ h \notin DOMAIN transactions
      /\ call[h].op = "Authorize"
  BY <1>1, Zenon DEF LockDiscipline, UncommittedRows, KeyReservations, PhaseOfOperation
<1>3. ASSUME NEW t \in DOMAIN transactions, transactions[t].key = call[h].key, Answer(h, "Ok", t)
      PROVE  IInv'
  BY <1>1, <1>3, ReplayStep
<1>4. CASE Goto(h, "lock") /\ UNCHANGED reply
  <2>. USE DEF Goto
  <2>1. \A g \in Requests \ {h} : pc'[g] = pc[g]
    BY <1>4 DEF TypeOK
  <2>2. pc'[h] = "lock"
    BY <1>4, Zenon DEF TypeOK
  <2>a. TypeOK'
    BY <1>1, <1>4, Zenon DEF TypeOK, Labels
  <2>b. PhaseOfOperation'
    BY <1>1, <1>2, <1>4, Zenon DEF TypeOK, PhaseOfOperation, InFlight
  <2>c. LockDiscipline'
    BY <1>1, <1>2, <2>1, <2>2 DEF LockDiscipline, Touched
  <2>d. UncommittedRows'
    BY <1>1, <1>2, <2>1, <2>2 DEF UncommittedRows
  <2>e. LocksAscend'
    BY <1>1, <1>2, <2>1, <2>2 DEF LocksAscend, Touched
  <2>f. KeyReservations'
    BY <1>1, <1>2, <2>1, <2>2, Zenon DEF KeyReservations, Inserted, KeyIsTaken, KeyIsReserved
  <2>g. OneTransactionPerKey'
    BY <1>1, <1>4 DEF OneTransactionPerKey
  <2>h. NoVersionConflict'
    BY <1>4 DEF NoVersionConflict
  <2>. QED
    BY <2>a, <2>b, <2>c, <2>d, <2>e, <2>f, <2>g, <2>h, Zenon
<1>. QED
  BY <1>3, <1>4, Zenon DEF FindTransactionByKey, find_transaction_by_key

\* capture and void read the transaction: they are done, refused, or go on with
\* its legs.
LEMMA GetTransactionStep ==
  ASSUME IInv, NEW h \in Requests, GetTransaction(h)
  PROVE  IInv'
<1>. USE DEF IInv, database
<1>. DEFINE t == call[h].tx
            decision == settle_decision(call[h], transactions[t].status)
<1>1. pc[h] = "read"
  BY Zenon DEF GetTransaction
<1>2. /\ DOMAIN seen[h] = {} /\ DOMAIN dirty[h] = {} /\ h \notin DOMAIN transactions
      /\ Settles(call[h])
  BY <1>1, Zenon DEF LockDiscipline, UncommittedRows, KeyReservations, PhaseOfOperation
<1>3. call[h].op \in {"Capture", "Void"}
  BY <1>2 DEF Settles
<1>4. CASE Fail(h, "TransactionNotFound") \/ Fail(h, "InvalidTransactionState")
  BY <1>1, <1>4, FailStep, Zenon DEF Codes
<1>5. CASE /\ t \in DOMAIN transactions
           /\ Answer(h, "Ok", t)
           /\ UNCHANGED <<database, cache, up, call, legs, seen, checked, dirty, unapplied>>
  BY <1>1, <1>3, <1>5, ReplayStep
<1>6. CASE /\ t \in DOMAIN transactions
           /\ legs' = [legs EXCEPT ![h] = transactions[t].legs]
           /\ Goto(h, "lock")
           /\ UNCHANGED <<database, cache, up, call, seen, checked, dirty, unapplied, reply>>
  <2>1. transactions[t].legs \in Seq(TransferLeg)
    BY <1>6, Zenon DEF TypeOK, Transaction
  <2>. USE DEF Goto
  <2>2. \A g \in Requests \ {h} : legs'[g] = legs[g] /\ pc'[g] = pc[g]
    BY <1>6 DEF TypeOK
  <2>3. pc'[h] = "lock"
    BY <1>6, Zenon DEF TypeOK
  <2>a. TypeOK'
    BY <1>6, <2>1, Zenon DEF TypeOK, Labels
  <2>b. PhaseOfOperation'
    BY <1>1, <1>3, <1>6, Zenon DEF TypeOK, PhaseOfOperation, InFlight
  <2>c. LockDiscipline'
    BY <1>2, <1>6, <2>2, <2>3 DEF LockDiscipline, Touched
  <2>d. UncommittedRows'
    BY <1>2, <1>6, <2>2, <2>3, Zenon DEF UncommittedRows
  <2>e. LocksAscend'
    BY <1>2, <1>6, <2>2, <2>3 DEF LocksAscend, Touched
  <2>f. KeyReservations'
    BY <1>2, <1>3, <1>6, <2>2, <2>3, Zenon DEF KeyReservations, Inserted, KeyIsTaken, KeyIsReserved
  <2>g. OneTransactionPerKey'
    BY <1>6 DEF OneTransactionPerKey
  <2>h. NoVersionConflict'
    BY <1>6, Zenon DEF NoVersionConflict
  <2>. QED
    BY <2>a, <2>b, <2>c, <2>d, <2>e, <2>f, <2>g, <2>h, Zenon
<1>. QED
  BY <1>4, <1>5, <1>6, Zenon DEF GetTransaction, get_entries_for_transaction

\* One turn of the lock loop: the row was free, and its version is the committed
\* one for as long as the lock is held.
LEMMA LockStep ==
  ASSUME IInv, NEW h \in Requests, LockAccount(h)
  PROVE  IInv'
<1>. USE DEF IInv, database
<1>1. pc[h] = "lock"
  BY Zenon DEF LockAccount
<1>2. PICK a \in Touched(h) :
        /\ NextToLock(h, a)
        /\ \/ Fail(h, "AccountNotFound")
           \/ /\ a \in DOMAIN accounts
              /\ RowIsFree(h, a)
              /\ seen' = [seen EXCEPT ![h] = Extend(@, a, accounts[a].version)]
              /\ Goto(h, IF Touched(h) \ DOMAIN seen[h] # {a} THEN "lock"
                         ELSE IF call[h].op = "Authorize" THEN "check" ELSE "update")
              /\ UNCHANGED <<database, cache, up, call, legs, checked, dirty, unapplied, reply>>
  BY DEF LockAccount
<1>3. CASE Fail(h, "AccountNotFound")
  BY <1>1, <1>3, FailStep, Zenon DEF Codes
<1>4. CASE /\ a \in DOMAIN accounts
           /\ RowIsFree(h, a)
           /\ seen' = [seen EXCEPT ![h] = Extend(@, a, accounts[a].version)]
           /\ Goto(h, IF Touched(h) \ DOMAIN seen[h] # {a} THEN "lock"
                      ELSE IF call[h].op = "Authorize" THEN "check" ELSE "update")
           /\ UNCHANGED <<database, cache, up, call, legs, checked, dirty, unapplied, reply>>
  <2>1. /\ DOMAIN seen'[h] = DOMAIN seen[h] \cup {a}
        /\ \A b \in DOMAIN seen'[h] : seen'[h][b] = IF b = a THEN accounts[a].version ELSE seen[h][b]
        /\ seen'[h] \in [DOMAIN seen'[h] -> 0 .. MaxI32]
    BY <1>4 DEF TypeOK, Extend, Overwrite, Account
  <2>2. /\ \A g \in Requests \ {h} : seen'[g] = seen[g] /\ pc'[g] = pc[g]
        /\ DOMAIN seen' = Requests
    BY <1>4, Zenon DEF TypeOK, Goto
  <2>3. /\ pc'[h] \in {"lock", "check", "update"}
        /\ pc'[h] = "check" => call[h].op = "Authorize"
        /\ pc'[h] = "update" => call[h].op # "Authorize"
        /\ pc'[h] # "lock" => Touched(h) \subseteq DOMAIN seen'[h]
    BY <1>4, <2>1, Zenon DEF TypeOK, Goto
  <2>4. \A g \in Requests : Touched(g)' = Touched(g)
    BY <1>4, Zenon DEF Touched
  <2>5. /\ DOMAIN dirty[h] = {}
        /\ h \notin DOMAIN transactions
        /\ call[h].op # "CreateAccount"
    BY <1>1, Zenon DEF UncommittedRows, KeyReservations, PhaseOfOperation
  <2>a. TypeOK'
    <3>1. pc' \in [Requests -> Labels]
      BY <1>4, <2>2, <2>3, Zenon DEF TypeOK, Goto, Labels
    <3>2. \A g \in Requests : /\ DOMAIN seen'[g] \subseteq DOMAIN accounts
                              /\ seen'[g] \in [DOMAIN seen'[g] -> 0 .. MaxI32]
      BY <1>4, <2>1, <2>2, Zenon DEF TypeOK
    <3>. QED
      BY <1>4, <2>2, <3>1, <3>2, Zenon DEF TypeOK
  <2>b. PhaseOfOperation'
    BY <1>1, <1>4, <2>2, <2>3, <2>5 DEF PhaseOfOperation, InFlight
  <2>c. LockDiscipline'
    <3>1. \A g \in Requests : DOMAIN seen'[g] # {} =>
                                pc'[g] \in {"lock", "check", "create", "update", "commit"}
      BY <2>2, <2>3, Zenon DEF LockDiscipline
    <3>2. \A f, g \in Requests : f # g => DOMAIN seen'[f] \cap DOMAIN seen'[g] = {}
      BY <1>4, <2>1, <2>2 DEF LockDiscipline, RowIsFree
    <3>3. \A g \in Requests : \A b \in DOMAIN seen'[g] : accounts[b].version = seen'[g][b]
      BY <2>1, <2>2 DEF LockDiscipline
    <3>4. \A g \in Requests : pc'[g] \in {"check", "create", "update"} =>
                                Touched(g) \subseteq DOMAIN seen'[g]
      BY <2>2, <2>3, Zenon DEF LockDiscipline
    <3>. QED
      BY <1>4, <2>4, <3>1, <3>2, <3>3, <3>4 DEF LockDiscipline
  <2>d. UncommittedRows'
    BY <1>4, <2>1, <2>2, <2>5 DEF UncommittedRows
  <2>e. LocksAscend'
    <3>1. \A b \in DOMAIN seen'[h], c \in Touched(h) \ DOMAIN seen'[h] : b < c
      <4>1. Touched(h) \subseteq Nat
        BY TouchedType, Zenon DEF AccountIds
      <4>2. a \in Touched(h) \ DOMAIN seen[h] /\ \A c \in Touched(h) \ DOMAIN seen[h] : a <= c
        BY <1>2, Zenon DEF NextToLock
      <4>3. \A b \in DOMAIN seen[h], c \in Touched(h) \ DOMAIN seen[h] : b < c
        BY <1>1, Zenon DEF LocksAscend
      <4>. QED
        BY <2>1, <4>1, <4>2, <4>3
    <3>. QED
      BY <2>2, <2>4, <3>1, Zenon DEF LocksAscend
  <2>f. KeyReservations'
    BY <1>1, <1>4, <2>2, <2>3, <2>5 DEF KeyReservations, Inserted, KeyIsTaken, KeyIsReserved
  <2>g. OneTransactionPerKey'
    BY <1>4, Zenon DEF OneTransactionPerKey
  <2>h. NoVersionConflict'
    BY <1>4, Zenon DEF NoVersionConflict
  <2>. QED
    BY <2>a, <2>b, <2>c, <2>d, <2>e, <2>f, <2>g, <2>h, Zenon
<1>. QED
  BY <1>2, <1>3, <1>4, Zenon

\* authorize advances with its locks: to the next leg, to the INSERT, or past it
\* with a key that is neither taken nor reserved.
LEMMA AdvanceStep ==
  ASSUME IInv, NEW h \in Requests, pc[h] \in {"check", "create"},
         NEW next \in {"check", "create", "update"}, Goto(h, next),
         next = "update" => ~KeyIsTaken(call[h].key) /\ ~KeyIsReserved(h),
         checked' \in [Requests -> Nat],
         UNCHANGED <<database, cache, up, call, legs, seen, dirty, unapplied, reply>>
  PROVE  IInv'
<1>. USE DEF IInv, database
<1>1. /\ \A g \in Requests \ {h} : pc'[g] = pc[g]
      /\ pc'[h] = next
  BY DEF Goto, TypeOK
<1>2. /\ DOMAIN dirty[h] = {}
      /\ h \notin DOMAIN transactions
      /\ call[h].op = "Authorize"
      /\ Touched(h) \subseteq DOMAIN seen[h]
  BY Zenon DEF UncommittedRows, KeyReservations, PhaseOfOperation, LockDiscipline
<1>3. \A g \in Requests : Touched(g)' = Touched(g)
  BY Zenon DEF Touched
<1>a. TypeOK'
  BY DEF Goto, TypeOK, Labels
<1>b. PhaseOfOperation'
  <2>1. InFlight(h) /\ reply[h] = NoReply /\ call' = call /\ reply' = reply
    BY Zenon DEF InFlight, PhaseOfOperation
  <2>. QED
    BY <1>1, <1>2, <2>1, PhaseKept, Zenon
<1>c. LockDiscipline'
  <2>1. seen' = seen /\ legs' = legs /\ accounts' = accounts
    BY Zenon
  <2>. QED
    BY <1>1, <1>2, <2>1, LocksKept, Zenon
<1>d. UncommittedRows'
  BY <1>1, <1>2 DEF UncommittedRows
<1>e. LocksAscend'
  BY <1>1, <1>3, Zenon DEF LocksAscend
<1>f. KeyReservations'
  <2>1. \A k : KeyIsTaken(k)' <=> KeyIsTaken(k)
    BY Zenon DEF KeyIsTaken
  <2>2. \A g \in Requests \ {h} : Inserted(g)' <=> Inserted(g)
    BY <1>1, Zenon DEF Inserted
  <2>3. Inserted(h)' => next = "update"
    BY <1>1, Zenon DEF Inserted
  <2>4. ~Inserted(h)
    BY Zenon DEF Inserted
  <2>5. Inserted(h)' => ~KeyIsTaken(call[h].key)' /\ ~KeyIsReserved(h)'
    BY <2>1, <2>2, <2>3, Zenon DEF KeyIsReserved
  <2>6. ASSUME NEW g \in Requests \ {h}, Inserted(g)'
        PROVE  ~KeyIsTaken(call[g].key)' /\ ~KeyIsReserved(g)'
    <3>1. Inserted(g) /\ ~KeyIsTaken(call[g].key) /\ ~KeyIsReserved(g)
      BY <2>2, <2>6, Zenon DEF KeyReservations
    <3>2. Inserted(h)' => call[h].key # call[g].key
      BY <2>3, <3>1 DEF KeyIsReserved
    <3>. QED
      BY <2>1, <2>2, <3>1, <3>2, Zenon DEF KeyIsReserved
  <2>. QED
    BY <1>1, <1>2, <2>5, <2>6, Zenon DEF KeyReservations
<1>g. OneTransactionPerKey'
  BY Zenon DEF OneTransactionPerKey
<1>h. NoVersionConflict'
  BY DEF NoVersionConflict
<1>. QED
  BY <1>a, <1>b, <1>c, <1>d, <1>e, <1>f, <1>g, <1>h, Zenon

\* The funds check of one leg.
LEMMA CheckFundsStep ==
  ASSUME IInv, NEW h \in Requests, CheckFunds(h)
  PROVE  IInv'
<1>1. pc[h] = "check"
  BY Zenon DEF CheckFunds
<1>2. CASE Fail(h, "AccountNotFound") \/ Fail(h, "InsufficientFunds")
  BY <1>1, <1>2, FailStep DEF Codes
<1>3. CASE /\ checked' = [checked EXCEPT ![h] = @ + 1]
           /\ Goto(h, IF checked[h] + 1 = Len(legs[h]) THEN "create" ELSE "check")
           /\ UNCHANGED <<database, cache, up, call, legs, seen, dirty, unapplied, reply>>
  <2>1. checked' \in [Requests -> Nat]
    BY <1>3 DEF IInv, TypeOK
  <2>. QED
    BY <1>1, <1>3, <2>1, AdvanceStep, Zenon
<1>. QED
  BY <1>2, <1>3, Zenon DEF CheckFunds, RefuseFunds

\* INSERT INTO transactions.
LEMMA CreateTransactionStep ==
  ASSUME IInv, NEW h \in Requests, CreateTransaction(h)
  PROVE  IInv'
<1>1. pc[h] = "create"
  BY DEF CreateTransaction
<1>2. CASE Fail(h, "DuplicateTransaction")
  BY <1>1, <1>2, FailStep, Zenon DEF Codes
<1>3. CASE /\ ~KeyIsTaken(call[h].key)
           /\ ~KeyIsReserved(h)
           /\ Goto(h, "update")
           /\ UNCHANGED <<database, cache, up, call, legs, seen, checked, dirty, unapplied, reply>>
  <2>1. checked' \in [Requests -> Nat]
    BY <1>3, Zenon DEF IInv, TypeOK
  <2>. QED
    BY <1>1, <1>3, <2>1, AdvanceStep, Zenon
<1>. QED
  BY <1>2, <1>3, Zenon DEF CreateTransaction

\* UPDATE accounts: the version guard always holds, because the row is locked.
LEMMA UpdateStep ==
  ASSUME IInv, NEW h \in Requests, UpdateAccountBalance(h)
  PROVE  IInv'
<1>. USE DEF IInv, database
<1>1. pc[h] = "update"
  BY Zenon DEF UpdateAccountBalance
<1>2. PICK a \in Touched(h) :
        \/ accounts[a].version # seen[h][a] /\ Fail(h, "VersionConflict")
        \/ Fail(h, "Internal")
        \/ /\ RowFits(UpdatedRow(h, a))
           /\ dirty' = [dirty EXCEPT ![h] = Extend(@, a, UpdatedRow(h, a))]
           /\ Goto(h, IF Touched(h) \ DOMAIN dirty[h] # {a} THEN "update" ELSE "commit")
           /\ UNCHANGED <<database, cache, up, call, legs, seen, checked, unapplied, reply>>
  BY Zenon DEF UpdateAccountBalance
<1>3. /\ a \in DOMAIN seen[h]
      /\ a \in DOMAIN accounts
      /\ accounts[a].version = seen[h][a]
  BY <1>1, Zenon DEF TypeOK, LockDiscipline
<1>4. CASE Fail(h, "Internal")
  BY <1>1, <1>4, FailStep, Zenon DEF Codes
<1>5. CASE /\ RowFits(UpdatedRow(h, a))
           /\ dirty' = [dirty EXCEPT ![h] = Extend(@, a, UpdatedRow(h, a))]
           /\ Goto(h, IF Touched(h) \ DOMAIN dirty[h] # {a} THEN "update" ELSE "commit")
           /\ UNCHANGED <<database, cache, up, call, legs, seen, checked, unapplied, reply>>
  <2>1. UpdatedRow(h, a) \in Account /\ a \in AccountIds
    BY <1>3, <1>5, UpdatedRowType, Zenon DEF TypeOK
  <2>2. /\ DOMAIN dirty'[h] = DOMAIN dirty[h] \cup {a}
        /\ dirty'[h] \in [DOMAIN dirty'[h] -> Account]
        /\ DOMAIN dirty' = Requests
        /\ \A g \in Requests \ {h} : dirty'[g] = dirty[g]
    BY <1>5, <2>1, Zenon DEF TypeOK, Extend, Overwrite
  <2>3. /\ \A g \in Requests \ {h} : pc'[g] = pc[g]
        /\ pc'[h] \in {"update", "commit"}
    BY <1>5, Zenon DEF TypeOK, Goto
  <2>4. \A g \in Requests : Touched(g)' = Touched(g)
    BY <1>5 DEF Touched
  <2>5. h \notin DOMAIN transactions /\ call[h].op # "CreateAccount"
    BY <1>1, Zenon DEF KeyReservations, PhaseOfOperation
  <2>a. TypeOK'
    <3>1. pc' \in [Requests -> Labels]
      BY <1>5, <2>3, Zenon DEF TypeOK, Goto, Labels
    <3>2. \A g \in Requests : /\ DOMAIN dirty'[g] \subseteq AccountIds
                              /\ dirty'[g] \in [DOMAIN dirty'[g] -> Account]
      BY <2>1, <2>2, Zenon DEF TypeOK
    <3>. QED
      BY <1>5, <2>2, <3>1, <3>2, Zenon DEF TypeOK
  <2>b. PhaseOfOperation'
    <3>1. InFlight(h) /\ reply[h] = NoReply /\ call' = call /\ reply' = reply
      BY <1>1, <1>5, Zenon DEF InFlight, PhaseOfOperation
    <3>. QED
      BY <2>3, <2>5, <3>1, PhaseKept, Zenon
  <2>c. LockDiscipline'
    <3>1. Touched(h) \subseteq DOMAIN seen[h] /\ seen' = seen /\ legs' = legs /\ accounts' = accounts
      BY <1>1, <1>5, Zenon DEF LockDiscipline
    <3>. QED
      BY <2>3, <3>1, LocksKept, Zenon
  <2>d. UncommittedRows'
    <3>1. DOMAIN dirty'[h] \subseteq DOMAIN seen[h]
      BY <1>3, <2>2, <2>5, Zenon DEF UncommittedRows
    <3>2. \A g \in Requests \ {h} : DOMAIN dirty'[g] \cap DOMAIN dirty'[h] = {}
      BY <2>2, <3>1 DEF TypeOK, LockDiscipline, UncommittedRows
    <3>. QED
      BY <1>5, <2>2, <2>3, <2>5, <3>1, <3>2 DEF UncommittedRows
  <2>e. LocksAscend'
    BY <1>5, <2>3, <2>4, Zenon DEF LocksAscend
  <2>f. KeyReservations'
    <3>1. \A g \in Requests : Inserted(g)' <=> Inserted(g)
      BY <1>1, <1>5, <2>3, Zenon DEF Inserted
    <3>. QED
      BY <1>5, <2>3, <2>5, <3>1, Zenon DEF KeyReservations, KeyIsTaken, KeyIsReserved
  <2>g. OneTransactionPerKey'
    BY <1>5, Zenon DEF OneTransactionPerKey
  <2>h. NoVersionConflict'
    BY <1>5, Zenon DEF NoVersionConflict
  <2>. QED
    BY <2>a, <2>b, <2>c, <2>d, <2>e, <2>f, <2>g, <2>h, Zenon
<1>. QED
  BY <1>2, <1>3, <1>4, <1>5

\* INSERT INTO accounts: a row nobody else sees, under an id nobody else gets.
LEMMA InsertStep ==
  ASSUME IInv, NEW h \in Requests, InsertAccount(h)
  PROVE  IInv'
<1>. USE DEF IInv, database
<1>. DEFINE row == [type |-> AccountTypeOfProto[call[h].account_type],
                    version |-> 0, posted |-> 0, pending |-> 0]
<1>1. /\ pc[h] = "insert"
      /\ dirty' = [dirty EXCEPT ![h] = Extend(@, nextAccountId, row)]
      /\ nextAccountId' = nextAccountId + 1
      /\ pc' = [pc EXCEPT ![h] = "commit"]
      /\ UNCHANGED <<accounts, transactions, cache, up, call, legs, seen, checked, unapplied, reply>>
  BY DEF InsertAccount, Goto
<1>2. /\ call[h].op = "CreateAccount" /\ arguments(call[h]) = "Ok"
      /\ DOMAIN seen[h] = {} /\ DOMAIN dirty[h] = {} /\ h \notin DOMAIN transactions
  BY <1>1, Zenon DEF PhaseOfOperation, InFlight, LockDiscipline, UncommittedRows, KeyReservations
<1>3. row \in Account
  <2>1. call[h].account_type \in 1 .. 5
    BY <1>2 DEF arguments, create_account_arguments, AccountTypeOfProto
  <2>2. AccountTypeOfProto[call[h].account_type] \in AccountType
    BY <2>1 DEF AccountTypeOfProto, AccountType
  <2>3. 0 \in 0 .. MaxI32 /\ 0 \in I64
    BY MaxI64Assumption, LimitsAssumption DEF I64, MinI64
  <2>. QED
    BY <2>2, <2>3 DEF Account
<1>4. /\ DOMAIN dirty'[h] = {nextAccountId}
      /\ dirty'[h] \in [DOMAIN dirty'[h] -> Account]
      /\ DOMAIN dirty' = Requests
      /\ \A g \in Requests \ {h} : dirty'[g] = dirty[g]
  <2>. HIDE DEF row
  <2>. QED
    BY <1>1, <1>2, <1>3, Zenon DEF TypeOK, Extend, Overwrite
<1>5. (\A g \in Requests \ {h} : pc'[g] = pc[g]) /\ pc'[h] = "commit"
  BY <1>1 DEF TypeOK
<1>6. \A g \in Requests : Touched(g)' = Touched(g)
  BY <1>1, Zenon DEF Touched
<1>7. /\ nextAccountId \in AccountIds /\ nextAccountId' \in AccountIds
      /\ nextAccountId' = nextAccountId + 1
  BY <1>1 DEF TypeOK, AccountIds
<1>8. \A g \in Requests : \A a \in DOMAIN dirty[g] : a < nextAccountId
  BY Zenon DEF TypeOK, UncommittedRows
<1>a. TypeOK'
  <2>1. pc' \in [Requests -> Labels]
    BY <1>1, Zenon DEF TypeOK, Labels
  <2>2. \A g \in Requests : /\ DOMAIN dirty'[g] \subseteq AccountIds
                            /\ dirty'[g] \in [DOMAIN dirty'[g] -> Account]
    <3>1. {nextAccountId} \subseteq AccountIds
      BY <1>7
    <3>2. \A g \in Requests : /\ DOMAIN dirty[g] \subseteq AccountIds
                              /\ dirty[g] \in [DOMAIN dirty[g] -> Account]
      BY Zenon DEF TypeOK
    <3>. QED
      BY <1>4, <3>1, <3>2, Zenon
  <2>. QED
    BY <1>1, <1>4, <1>7, <2>1, <2>2, Zenon DEF TypeOK
<1>b. PhaseOfOperation'
  <2>1. InFlight(h) /\ reply[h] = NoReply /\ call' = call /\ reply' = reply
    BY <1>1, Zenon DEF InFlight, PhaseOfOperation
  <2>. QED
    BY <1>5, <2>1, PhaseKept, Zenon
<1>c. LockDiscipline'
  <2>1. seen' = seen /\ legs' = legs /\ accounts' = accounts
    BY <1>1, Zenon
  <2>. QED
    BY <1>2, <1>5, <2>1, LocksKept, Zenon
<1>d. UncommittedRows'
  <2>1. \A a : a \in AccountIds /\ a < nextAccountId => a < nextAccountId'
    BY <1>7 DEF AccountIds
  <2>2. nextAccountId < nextAccountId' /\ nextAccountId \notin DOMAIN accounts
    BY <1>7 DEF UncommittedRows, AccountIds
  <2>3. \A a \in DOMAIN accounts : a < nextAccountId'
    BY <2>1, Zenon DEF TypeOK, UncommittedRows
  <2>4. \A g \in Requests \ {h} : DOMAIN dirty'[g] \cap DOMAIN dirty'[h] = {}
    BY <1>4, <1>7, <1>8 DEF AccountIds
  <2>5. \A g \in Requests : DOMAIN dirty'[g] # {} => pc'[g] \in {"update", "commit"}
    BY <1>4, <1>5, Zenon DEF UncommittedRows
  <2>6. \A g \in Requests : call[g].op # "CreateAccount" => DOMAIN dirty'[g] \subseteq DOMAIN seen[g]
    BY <1>2, <1>4, Zenon DEF UncommittedRows
  <2>7. \A g \in Requests : call[g].op = "CreateAccount" =>
          \A a \in DOMAIN dirty'[g] : a \notin DOMAIN accounts /\ a < nextAccountId'
    BY <1>4, <2>1, <2>2 DEF TypeOK, UncommittedRows
  <2>8. \A f, g \in Requests : f # g => DOMAIN dirty'[f] \cap DOMAIN dirty'[g] = {}
    BY <1>4, <2>4 DEF UncommittedRows
  <2>. QED
    BY <1>1, <2>3, <2>5, <2>6, <2>7, <2>8, Zenon DEF UncommittedRows
<1>e. LocksAscend'
  BY <1>1, <1>5, <1>6, Zenon DEF LocksAscend
<1>f. KeyReservations'
  <2>1. \A g \in Requests : Inserted(g)' <=> Inserted(g)
    BY <1>1, <1>2, <1>5, Zenon DEF Inserted
  <2>. QED
    BY <1>1, <1>2, <1>5, <2>1, Zenon DEF KeyReservations, KeyIsTaken, KeyIsReserved
<1>g. OneTransactionPerKey'
  BY <1>1, Zenon DEF OneTransactionPerKey
<1>h. NoVersionConflict'
  BY <1>1, Zenon DEF NoVersionConflict
<1>. QED
  BY <1>a, <1>b, <1>c, <1>d, <1>e, <1>f, <1>g, <1>h, Zenon

\* What a commit does to the transactions table: keys and legs stay, and only an
\* authorize adds a row, its own.
LEMMA TransactionsAfterFacts ==
  ASSUME IInv, NEW h \in Requests, pc[h] = "commit"
  PROVE  /\ TransactionsAfter(h) \in [DOMAIN TransactionsAfter(h) -> Transaction]
         /\ DOMAIN TransactionsAfter(h) = IF call[h].op = "Authorize" THEN DOMAIN transactions \cup {h}
                                                                    ELSE DOMAIN transactions
         /\ \A t \in DOMAIN transactions : TransactionsAfter(h)[t].key = transactions[t].key
         /\ call[h].op = "Authorize" => TransactionsAfter(h)[h].key = call[h].key
<1>. USE DEF IInv
<1>1. call[h] \in Calls /\ h \notin DOMAIN transactions
  BY Zenon DEF TypeOK, PhaseOfOperation, KeyReservations
<1>2. transactions \in [DOMAIN transactions -> Transaction] /\ legs[h] \in Seq(TransferLeg)
  BY Zenon DEF TypeOK
<1>3. CASE call[h].op = "Authorize"
  <2>. DEFINE row == [key |-> call[h].key, status |-> "Pending", posted_at |-> FALSE,
                      entry_status |-> "Pending", legs |-> legs[h]]
  <2>1. row \in Transaction /\ row.key = call[h].key
    BY <1>1, <1>2, <1>3, CallKinds, Zenon DEF AuthorizeCall, Transaction, TransactionStatus, EntryStatus
  <2>2. TransactionsAfter(h) = Extend(transactions, h, row)
    BY <1>3 DEF TransactionsAfter, Settles, create_transaction
  <2>. HIDE DEF row
  <2>. QED
    BY <1>1, <1>2, <1>3, <2>1, <2>2, Zenon DEF Extend, Overwrite
<1>4. CASE Settles(call[h])
  <2>1. call[h].op # "Authorize" /\ TargetStatus(call[h]) \in EntryStatus
    BY <1>4 DEF Settles, TargetStatus, EntryStatus
  <2>2. TransactionsAfter(h) = [transactions EXCEPT ![call[h].tx] = settled(@, call[h])]
    BY <1>4, <2>1 DEF TransactionsAfter
  <2>3. ASSUME NEW r \in Transaction
        PROVE  settled(r, call[h]) \in Transaction /\ settled(r, call[h]).key = r.key
    <3>. DEFINE posted == update_transaction_status(r, TargetStatus(call[h]))
    <3>1. posted \in Transaction /\ posted.key = r.key
      BY <2>1, Zenon DEF update_transaction_status, Transaction, TransactionStatus
    <3>. HIDE DEF posted
    <3>2. settled(r, call[h]) = update_entry_status_by_transaction(posted, TargetStatus(call[h]))
      BY DEF settled, posted
    <3>. QED
      BY <2>1, <3>1, <3>2, Zenon DEF update_entry_status_by_transaction, Transaction
  <2>4. DOMAIN TransactionsAfter(h) = DOMAIN transactions
    BY <2>2, Zenon
  <2>5. ASSUME NEW t \in DOMAIN transactions
        PROVE  /\ TransactionsAfter(h)[t] \in Transaction
               /\ TransactionsAfter(h)[t].key = transactions[t].key
    <3>1. TransactionsAfter(h)[t] =
            IF t = call[h].tx THEN settled(transactions[t], call[h]) ELSE transactions[t]
      BY <2>2, Zenon
    <3>. QED
      BY <1>2, <2>3, <3>1, Zenon
  <2>6. TransactionsAfter(h) \in [DOMAIN TransactionsAfter(h) -> Transaction]
    BY <2>2, <2>4, <2>5, Zenon
  <2>. QED
    BY <2>1, <2>4, <2>5, <2>6
<1>5. CASE call[h].op = "CreateAccount"
  <2>1. TransactionsAfter(h) = transactions
    BY <1>5 DEF TransactionsAfter, Settles
  <2>. QED
    BY <1>2, <1>5, <2>1
<1>. QED
  BY <1>1, <1>3, <1>4, <1>5, CallKinds, Zenon DEF Settles

\* COMMIT: no row another handler has locked changes, and the key it publishes
\* is nobody else's.
LEMMA CommitStep ==
  ASSUME IInv, NEW h \in Requests, Commit(h)
  PROVE  IInv'
<1>. USE DEF IInv
<1>1. /\ pc[h] = "commit"
      /\ accounts' = Overwrite(accounts, dirty[h])
      /\ transactions' = TransactionsAfter(h)
      /\ seen' = [seen EXCEPT ![h] = Empty]
      /\ dirty' = [dirty EXCEPT ![h] = Empty]
      /\ unapplied' = [unapplied EXCEPT ![h] = DOMAIN dirty[h]]
      /\ pc' = [pc EXCEPT ![h] = "committed"]
      /\ UNCHANGED <<nextAccountId, cache, up, call, legs, checked, reply>>
  BY DEF Commit, Goto
<1>2. DOMAIN Empty = {} /\ Empty \in [{} -> 0 .. MaxI32] /\ Empty \in [{} -> Account]
  BY DEF Empty
<1>3. /\ DOMAIN accounts' = DOMAIN accounts \cup DOMAIN dirty[h]
      /\ \A a \in DOMAIN accounts' : accounts'[a] = IF a \in DOMAIN dirty[h] THEN dirty[h][a]
                                                                            ELSE accounts[a]
      /\ accounts' \in [DOMAIN accounts' -> Account]
      /\ DOMAIN accounts' \subseteq AccountIds
  BY <1>1 DEF TypeOK, Overwrite
<1>4. /\ transactions' \in [DOMAIN transactions' -> Transaction]
      /\ DOMAIN transactions' = IF call[h].op = "Authorize" THEN DOMAIN transactions \cup {h}
                                                            ELSE DOMAIN transactions
      /\ \A t \in DOMAIN transactions : transactions'[t].key = transactions[t].key
      /\ call[h].op = "Authorize" => transactions'[h].key = call[h].key
  BY <1>1, TransactionsAfterFacts, Zenon
<1>5. /\ seen'[h] = Empty /\ dirty'[h] = Empty /\ pc'[h] = "committed"
      /\ \A g \in Requests \ {h} : seen'[g] = seen[g] /\ dirty'[g] = dirty[g] /\ pc'[g] = pc[g]
      /\ DOMAIN seen' = Requests /\ DOMAIN dirty' = Requests
  BY <1>1 DEF TypeOK
<1>6. \A g \in Requests : Touched(g)' = Touched(g)
  BY <1>1, Zenon DEF Touched
<1>7. h \notin DOMAIN transactions /\ call[h] # NoCall
  BY <1>1, Zenon DEF KeyReservations, PhaseOfOperation
<1>8. \A g \in Requests \ {h} : DOMAIN seen[g] \cap DOMAIN dirty[h] = {}
  BY Zenon DEF TypeOK, LockDiscipline, UncommittedRows
<1>a. TypeOK'
  <2>1. pc' \in [Requests -> Labels]
    BY <1>1 DEF TypeOK, Labels
  <2>2. \A g \in Requests : /\ DOMAIN dirty'[g] \subseteq AccountIds
                            /\ dirty'[g] \in [DOMAIN dirty'[g] -> Account]
                            /\ DOMAIN seen'[g] \subseteq DOMAIN accounts'
                            /\ seen'[g] \in [DOMAIN seen'[g] -> 0 .. MaxI32]
    BY <1>2, <1>3, <1>5, Zenon DEF TypeOK
  <2>3. unapplied' \in [Requests -> SUBSET AccountIds]
    BY <1>1, Zenon DEF TypeOK
  <2>4. DOMAIN transactions' \subseteq TransactionIds
    BY <1>4, Zenon DEF TypeOK, TransactionIds
  <2>. QED
    BY <1>1, <1>3, <1>4, <1>5, <2>1, <2>2, <2>3, <2>4, Zenon DEF TypeOK
<1>b. PhaseOfOperation'
  BY <1>1, <1>5, <1>7 DEF PhaseOfOperation, InFlight
<1>c. LockDiscipline'
  <2>1. \A g \in Requests : DOMAIN seen'[g] # {} =>
                              pc'[g] \in {"lock", "check", "create", "update", "commit"}
    BY <1>2, <1>5, Zenon DEF LockDiscipline
  <2>2. \A f, g \in Requests : f # g => DOMAIN seen'[f] \cap DOMAIN seen'[g] = {}
    BY <1>2, <1>5 DEF LockDiscipline
  <2>3. \A g \in Requests : \A a \in DOMAIN seen'[g] : accounts'[a].version = seen'[g][a]
    <3>1. ASSUME NEW g \in Requests \ {h}, NEW a \in DOMAIN seen[g]
          PROVE  accounts'[a].version = seen[g][a]
      <4>1. a \in DOMAIN accounts /\ a \notin DOMAIN dirty[h]
        BY <1>8, Zenon DEF TypeOK
      <4>. QED
        BY <1>3, <4>1 DEF LockDiscipline
    <3>. QED
      BY <1>2, <1>5, <3>1
  <2>4. \A g \in Requests : pc'[g] \in {"check", "create", "update"} =>
                              Touched(g) \subseteq DOMAIN seen'[g]
    BY <1>5, Zenon DEF LockDiscipline
  <2>. QED
    BY <1>6, <2>1, <2>2, <2>3, <2>4 DEF LockDiscipline
<1>d. UncommittedRows'
  <2>1. \A a \in DOMAIN accounts' : a < nextAccountId
    BY <1>3 DEF TypeOK, UncommittedRows
  <2>2. \A g \in Requests : call[g].op = "CreateAccount" =>
          \A a \in DOMAIN dirty'[g] : a \notin DOMAIN accounts' /\ a < nextAccountId
    BY <1>2, <1>3, <1>5, Zenon DEF UncommittedRows
  <2>. QED
    BY <1>1, <1>2, <1>5, <2>1, <2>2, Zenon DEF UncommittedRows
<1>e. LocksAscend'
  BY <1>5, <1>6, Zenon DEF LocksAscend
<1>f. KeyReservations'
  <2>1. ~Inserted(h)' /\ \A g \in Requests \ {h} : Inserted(g)' <=> Inserted(g)
    BY <1>1, <1>5 DEF Inserted
  <2>2. ASSUME NEW g \in Requests \ {h}, Inserted(g)'
        PROVE  ~KeyIsTaken(call[g].key)' /\ ~KeyIsReserved(g)'
    <3>1. Inserted(g) /\ ~KeyIsTaken(call[g].key) /\ ~KeyIsReserved(g)
      BY <2>1, <2>2, Zenon DEF KeyReservations
    <3>2. call[h].op = "Authorize" => call[h].key # call[g].key
      BY <1>1, <3>1, Zenon DEF KeyIsReserved, Inserted
    <3>3. ~KeyIsTaken(call[g].key)'
      BY <1>1, <1>4, <3>1, <3>2, Zenon DEF KeyIsTaken
    <3>4. ~KeyIsReserved(g)'
      BY <1>1, <2>1, <3>1, Zenon DEF KeyIsReserved
    <3>. QED
      BY <3>3, <3>4, Zenon
  <2>3. \A g \in Requests : g \in DOMAIN transactions' => pc'[g] \in {"committed", "apply", "done"}
    BY <1>4, <1>5, Zenon DEF KeyReservations
  <2>4. \A g \in Requests : call[g].op = "Authorize" /\ pc'[g] \in {"committed", "apply"} =>
          g \in DOMAIN transactions' /\ transactions'[g].key = call[g].key
    BY <1>4, <1>5, Zenon DEF KeyReservations
  <2>. QED
    BY <1>1, <2>1, <2>2, <2>3, <2>4, Zenon DEF KeyReservations
<1>g. OneTransactionPerKey'
  <2>1. call[h].op = "Authorize" => \A t \in DOMAIN transactions : transactions[t].key # call[h].key
    BY <1>1, Zenon DEF KeyReservations, Inserted, KeyIsTaken
  <2>2. \A t, u \in DOMAIN transactions' : transactions'[t].key = transactions'[u].key => t = u
    BY <1>4, <1>7, <2>1 DEF OneTransactionPerKey
  <2>3. \A g \in Requests : call[g].op = "Authorize" /\ reply[g].code = "Ok" =>
          reply[g].tx \in DOMAIN transactions' /\ transactions'[reply[g].tx].key = call[g].key
    BY <1>4, Zenon DEF OneTransactionPerKey
  <2>. QED
    BY <1>1, <2>2, <2>3 DEF OneTransactionPerKey
<1>h. NoVersionConflict'
  BY <1>1, Zenon DEF NoVersionConflict
<1>. QED
  BY <1>a, <1>b, <1>c, <1>d, <1>e, <1>f, <1>g, <1>h

\* After the commit a handler only touches the cache, its own bookkeeping and, at
\* the end, its reply.
LEMMA CacheStep ==
  ASSUME IInv, NEW h \in Requests, pc[h] \in {"committed", "apply"},
         NEW next \in {"apply", "done"}, pc' = [pc EXCEPT ![h] = next],
         NEW t \in TransactionIds \cup {NoTransaction}, call[h].op = "Authorize" => t = h,
         reply' = IF next = "apply" THEN reply ELSE [reply EXCEPT ![h] = [code |-> "Ok", tx |-> t]],
         DOMAIN cache' \subseteq AccountIds,
         cache' \in [DOMAIN cache' -> [posted : I64, pending : I64]],
         unapplied' \in [Requests -> SUBSET AccountIds],
         UNCHANGED <<database, up, call, legs, seen, checked, dirty>>
  PROVE  IInv'
<1>. USE DEF IInv, database
<1>1. /\ DOMAIN seen[h] = {} /\ DOMAIN dirty[h] = {}
      /\ call[h].op = "Authorize" => h \in DOMAIN transactions /\ transactions[h].key = call[h].key
  BY Zenon DEF LockDiscipline, UncommittedRows, KeyReservations
<1>2. (\A g \in Requests \ {h} : pc'[g] = pc[g]) /\ pc'[h] = next
  BY Zenon DEF TypeOK
<1>3. \A g \in Requests : Touched(g)' = Touched(g)
  BY Zenon DEF Touched
<1>4. /\ reply' \in [Requests -> [code : Codes, tx : TransactionIds \cup {NoTransaction}]]
      /\ \A g \in Requests \ {h} : reply'[g] = reply[g]
      /\ reply'[h] = IF next = "apply" THEN reply[h] ELSE [code |-> "Ok", tx |-> t]
  BY Zenon DEF TypeOK, Codes
<1>a. TypeOK'
  <2>1. pc' \in [Requests -> Labels]
    BY Zenon DEF TypeOK, Labels
  <2>. QED
    BY <1>4, <2>1, Zenon DEF TypeOK
<1>b. PhaseOfOperation'
  BY <1>2, <1>4 DEF PhaseOfOperation, InFlight
<1>c. LockDiscipline'
  BY <1>1, <1>2, <1>3 DEF LockDiscipline
<1>d. UncommittedRows'
  BY <1>1, <1>2, Zenon DEF UncommittedRows
<1>e. LocksAscend'
  BY <1>2, <1>3, Zenon DEF LocksAscend
<1>f. KeyReservations'
  <2>1. \A g \in Requests : Inserted(g)' <=> Inserted(g)
    BY <1>2, Zenon DEF Inserted
  <2>. QED
    BY <1>1, <1>2, <2>1, Zenon DEF KeyReservations, KeyIsTaken, KeyIsReserved
<1>g. OneTransactionPerKey'
  BY <1>1, <1>4, Zenon DEF OneTransactionPerKey
<1>h. NoVersionConflict'
  BY <1>4 DEF NoVersionConflict
<1>. QED
  BY <1>a, <1>b, <1>c, <1>d, <1>e, <1>f, <1>g, <1>h, Zenon

\* One turn of the loop over balance_updates.
LEMMA ApplyDeltaStep ==
  ASSUME IInv, NEW h \in Requests, ApplyDelta(h)
  PROVE  IInv'
<1>. USE DEF IInv
<1>. DEFINE t == IF call[h].op = "Authorize" THEN h ELSE call[h].tx
<1>1. PICK a \in unapplied[h] :
        /\ cache' = apply_delta(h, a)
        /\ unapplied' = [unapplied EXCEPT ![h] = @ \ {a}]
        /\ IF unapplied[h] = {a} THEN Answer(h, "Ok", t) ELSE Goto(h, "apply") /\ UNCHANGED reply
  BY Zenon DEF ApplyDelta
<1>2. /\ pc[h] \in {"committed", "apply"}
      /\ call[h].op # "CreateAccount"
      /\ UNCHANGED <<database, up, call, legs, seen, checked, dirty>>
  BY Zenon DEF ApplyDelta
<1>3. t \in TransactionIds \cup {NoTransaction}
  <2>1. call[h] \in Calls
    BY <1>2, Zenon DEF TypeOK, PhaseOfOperation
  <2>. QED
    BY <1>2, <2>1, CallKinds DEF SettleCall, Settles, TransactionIds
<1>4. /\ DOMAIN cache' \subseteq AccountIds
      /\ cache' \in [DOMAIN cache' -> [posted : I64, pending : I64]]
  BY <1>1, ApplyDeltaType, Zenon DEF TypeOK
<1>5. unapplied' \in [Requests -> SUBSET AccountIds]
  BY <1>1 DEF TypeOK
<1>6. call[h].op = "Authorize" => t = h
  BY Zenon
<1>. HIDE DEF t, IInv
<1>7. CASE unapplied[h] = {a}
  BY <1>1, <1>2, <1>3, <1>4, <1>5, <1>6, <1>7, CacheStep, Zenon DEF Answer
<1>8. CASE unapplied[h] # {a}
  BY <1>1, <1>2, <1>3, <1>4, <1>5, <1>6, <1>8, CacheStep, Zenon DEF Goto
<1>. QED
  BY <1>7, <1>8, Zenon

\* create_account puts its account into the cache.
LEMMA SetCacheStep ==
  ASSUME IInv, NEW h \in Requests, SetCache(h)
  PROVE  IInv'
<1>1. /\ pc[h] = "committed" /\ call[h].op = "CreateAccount"
      /\ Answer(h, "Ok", NoTransaction)
      /\ UNCHANGED <<database, up, call, legs, seen, checked, dirty>>
  BY Zenon DEF SetCache
<1>2. /\ DOMAIN cache' \subseteq AccountIds
      /\ cache' \in [DOMAIN cache' -> [posted : I64, pending : I64]]
  <2>1. PICK a \in unapplied[h] : cache' = Extend(cache, a, [posted |-> 0, pending |-> 0])
    BY Zenon DEF SetCache
  <2>2. a \in AccountIds /\ [posted |-> 0, pending |-> 0] \in [posted : I64, pending : I64]
    BY MaxI64Assumption DEF IInv, TypeOK, I64, MinI64
  <2>. QED
    BY <2>1, <2>2 DEF IInv, TypeOK, Extend, Overwrite
<1>3. unapplied' \in [Requests -> SUBSET AccountIds]
  BY DEF SetCache, IInv, TypeOK
<1>. QED
  BY <1>1, <1>2, <1>3, CacheStep, Zenon DEF Answer

\* A crash leaves the tables and forgets everything else.
LEMMA CrashStep ==
  ASSUME IInv, Crash
  PROVE  IInv'
<1>. USE DEF IInv, Crash, Die, database
<1>1. DOMAIN Empty = {} /\ \A S : Empty \in [{} -> S]
  BY Zenon DEF Empty
<1>2. /\ \A h \in Requests : pc'[h] \in {"idle", "done"} /\ (pc'[h] = "idle" <=> pc[h] = "idle")
      /\ \A h \in Requests : reply'[h] = reply[h] \/ reply'[h] = [code |-> "Unknown", tx |-> NoTransaction]
      /\ \A h \in Requests : pc[h] = "idle" => reply'[h] = reply[h]
  BY DEF TypeOK, InFlight
<1>3. \A h \in Requests : seen'[h] = Empty /\ dirty'[h] = Empty
  BY Zenon
<1>a. TypeOK'
  <2>1. pc' \in [Requests -> Labels]
    BY Zenon DEF TypeOK, Labels
  <2>2. reply' \in [Requests -> [code : Codes, tx : TransactionIds \cup {NoTransaction}]]
    BY Zenon DEF TypeOK, Codes
  <2>3. legs' \in [Requests -> Seq(TransferLeg)]
    OBVIOUS
  <2>4. cache' \in [DOMAIN cache' -> [posted : I64, pending : I64]] /\ DOMAIN cache' = {}
    BY <1>1, Zenon
  <2>5. \A h \in Requests : /\ DOMAIN seen'[h] \subseteq DOMAIN accounts
                            /\ seen'[h] \in [DOMAIN seen'[h] -> 0 .. MaxI32]
                            /\ DOMAIN dirty'[h] \subseteq AccountIds
                            /\ dirty'[h] \in [DOMAIN dirty'[h] -> Account]
    BY <1>1, <1>3
  <2>6. /\ checked' \in [Requests -> Nat]
        /\ unapplied' \in [Requests -> SUBSET AccountIds]
        /\ DOMAIN seen' = Requests /\ DOMAIN dirty' = Requests
        /\ up' \in BOOLEAN
    BY Zenon
  <2>. QED
    BY <2>1, <2>2, <2>3, <2>4, <2>5, <2>6, Zenon DEF TypeOK
<1>b. PhaseOfOperation'
  BY <1>2, Zenon DEF PhaseOfOperation, InFlight
<1>c. LockDiscipline'
  BY <1>1, <1>2, <1>3, Zenon DEF LockDiscipline
<1>d. UncommittedRows'
  BY <1>1, <1>3, Zenon DEF UncommittedRows
<1>e. LocksAscend'
  BY <1>2, Zenon DEF LocksAscend
<1>f. KeyReservations'
  BY <1>2, Zenon DEF KeyReservations, Inserted
<1>g. OneTransactionPerKey'
  BY <1>2, Zenon DEF OneTransactionPerKey
<1>h. NoVersionConflict'
  BY <1>2, Zenon DEF NoVersionConflict
<1>. QED
  BY <1>a, <1>b, <1>c, <1>d, <1>e, <1>f, <1>g, <1>h, Zenon

\* A state in which nothing but `up` and the cache differ satisfies the invariant
\* too.
LEMMA MemoryStep ==
  ASSUME IInv, up' \in BOOLEAN, UNCHANGED <<database, locals>>,
         DOMAIN cache' \subseteq AccountIds,
         cache' \in [DOMAIN cache' -> [posted : I64, pending : I64]]
  PROVE  IInv'
<1>. USE DEF IInv, database, locals
<1>1. \A g \in Requests : Touched(g)' = Touched(g)
  BY Zenon DEF Touched
<1>a. TypeOK'
  BY Zenon DEF TypeOK
<1>b. PhaseOfOperation'
  BY Zenon DEF PhaseOfOperation, InFlight
<1>c. LockDiscipline'
  BY <1>1 DEF LockDiscipline
<1>d. UncommittedRows'
  BY Zenon DEF UncommittedRows
<1>e. LocksAscend'
  BY <1>1, Zenon DEF LocksAscend
<1>f. KeyReservations'
  BY Zenon DEF KeyReservations, Inserted, KeyIsTaken, KeyIsReserved
<1>g. OneTransactionPerKey'
  BY DEF OneTransactionPerKey
<1>h. NoVersionConflict'
  BY DEF NoVersionConflict
<1>. QED
  BY <1>a, <1>b, <1>c, <1>d, <1>e, <1>f, <1>g, <1>h, Zenon

\* Rehydration.
LEMMA RestartStep ==
  ASSUME IInv, Restart
  PROVE  IInv'
<1>1. /\ DOMAIN cache' \subseteq AccountIds
      /\ cache' \in [DOMAIN cache' -> [posted : I64, pending : I64]]
  BY DEF Restart, Balances, IInv, TypeOK, Account
<1>. QED
  BY <1>1, MemoryStep, Zenon DEF Restart

\* Every step keeps the invariant.
LEMMA NextIInv == IInv /\ [Next]_vars => IInv'
<1>. SUFFICES ASSUME IInv, [Next]_vars PROVE IInv'
  OBVIOUS
<1>1. ASSUME NEW h \in Requests, Receive(h)
      PROVE  IInv'
  BY <1>1, ReceiveStep, Zenon
<1>2. ASSUME NEW h \in Requests, Step(h)
      PROVE  IInv'
  BY <1>2, BeginStep, FindStep, GetTransactionStep, LockStep, CheckFundsStep, CreateTransactionStep,
     UpdateStep, InsertStep, CommitStep, ApplyDeltaStep, SetCacheStep, Zenon DEF Step
<1>3. ASSUME NEW h \in Requests, Fault(h)
      PROVE  IInv'
  <2>1. PICK code \in {"Unknown", "Internal"} : Fail(h, code) /\ pc[h] # "idle"
    BY <1>3 DEF Fault, Cancel, DatabaseError, PoolTimeout, Connected
  <2>. QED
    BY <2>1, FailStep, Zenon DEF Codes
<1>4. CASE Crash
  BY <1>4, CrashStep
<1>5. CASE Restart
  BY <1>5, RestartStep, Zenon
<1>6. CASE UNCHANGED vars
  <2>1. /\ UNCHANGED <<database, locals>> /\ up' = up /\ cache' = cache
        /\ up \in BOOLEAN /\ DOMAIN cache \subseteq AccountIds
        /\ cache \in [DOMAIN cache -> [posted : I64, pending : I64]]
    BY <1>6 DEF vars, IInv, TypeOK
  <2>. QED
    BY <2>1, MemoryStep, Zenon
<1>. QED
  BY <1>1, <1>2, <1>3, <1>4, <1>5, <1>6 DEF Next, AllServed
=============================================================================
