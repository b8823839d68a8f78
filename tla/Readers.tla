------------------------------- MODULE Readers -------------------------------
(***************************************************************************)
(* The read-only calls GetAccount, GetBalance and GetEntries beside the    *)
(* handlers of Ledger.  They take connections of the same pool.            *)
(* GetBalance answers from the cache without an await.  GetEntries reads   *)
(* all entries of an account in one statement, gives its connection back   *)
(* and leaves the sending to a task of its own, through a channel that     *)
(* blocks when it is full.                                                 *)
(***************************************************************************)
EXTENDS Ledger

CONSTANTS
  Readers,        \* read-only calls, one handler each
  Queries,        \* what they may ask for
  StreamCapacity  \* size of the channel of a stream

Query == [op : {"GetAccount", "GetBalance", "GetEntries"}, account_id : Int]

ASSUME QueriesAssumption == Queries \subseteq Query /\ StreamCapacity \in Nat \ {0}

ASSUME ReadersAssumption == IsFiniteSet(Readers)

VARIABLES
  at,        \* where each handler is
  query,     \* what it was asked
  unsent,    \* GetEntries: the entries its task has still to send
  channel,   \* ... those in the channel
  received,  \* ... those the client has taken out
  result,    \* the answer
  answered,  \* history: the requests that were answered Ok before a GetEntries
  row        \* history: the account row when the entries were read

stream == <<unsent, channel, received>>
history == <<answered, row>>
readerVars == <<at, query, stream, result, history>>
systemVars == <<vars, readerVars>>

NoResult == [code |-> "None"]

ReadersInit ==
  /\ at = [r \in Readers |-> "idle"]
  /\ query = [r \in Readers |-> NoCall]
  /\ unsent = [r \in Readers |-> {}]
  /\ channel = [r \in Readers |-> {}]
  /\ received = [r \in Readers |-> {}]
  /\ result = [r \in Readers |-> NoResult]
  /\ answered = [r \in Readers |-> {}]
  /\ row = [r \in Readers |-> NoResult]

\* A stream keeps the connection its entries were read on.
ReaderHoldsStream(r) == at[r] \in {"account", "entries", "commit", "stream"}

\* A handler here has a connection of the pool checked out.
ReaderHolds(r) == at[r] \in {"account", "entries", "commit"}

ConnectionsOut ==
  Cardinality({h \in Requests : pc[h] \in Connected}) + Cardinality({r \in Readers : ReaderHolds(r)})

SharedRoom == ConnectionsOut < MaxConnections

Move(r, label) == at' = [at EXCEPT ![r] = label]

Finish(r, answer) == Move(r, "done") /\ result' = [result EXCEPT ![r] = answer]

-----------------------------------------------------------------------------
(* The handlers. *)

\* get_balance, all of it: there is no await in it.
get_balance(r, a) ==
  \/ a \notin DOMAIN cache /\ Finish(r, [code |-> "AccountNotFound"])
  \/ /\ a \in DOMAIN cache
     /\ Finish(r, [code |-> "Ok", posted |-> cache[a].posted, pending |-> cache[a].pending,
                   available |-> available(cache[a])])

\* A query arrives: everything before the first await.
Ask(r) ==
  /\ up
  /\ at[r] = "idle"
  /\ \E q \in Queries :
       /\ query' = [query EXCEPT ![r] = q]
       /\ answered' = [answered EXCEPT ![r] =
                         {h \in Requests : q.op = "GetEntries" /\ reply[h].code = "Ok"}]
       /\ \/ q.account_id <= 0 /\ Finish(r, [code |-> "InvalidArgument"])
          \/ q.account_id > 0 /\ q.op = "GetBalance" /\ get_balance(r, q.account_id)
          \/ /\ q.account_id > 0 /\ q.op # "GetBalance"
             /\ Move(r, "begin")
             /\ UNCHANGED result
  /\ UNCHANGED <<vars, stream, row>>

\* storage.begin(): waits for a connection of the pool.
BeginRead(r) ==
  /\ at[r] = "begin"
  /\ SharedRoom
  /\ Move(r, "account")
  /\ UNCHANGED <<vars, query, stream, result, history>>

\* The enums and the account of ledger.proto.
account_type_to_proto == [Asset |-> 1, Liability |-> 2, Equity |-> 3, Revenue |-> 4, Expense |-> 5]

normal_balance_to_proto == [Debit |-> 1, Credit |-> 2]

account_to_proto(a) ==
  [account_type |-> account_type_to_proto[a.type],
   normal_balance |-> normal_balance_to_proto[normal_balance(a.type)], version |-> a.version]

\* get_account, the whole of GetAccount and the existence test of GetEntries.
get_account(r) ==
  LET a == query[r].account_id
  IN  /\ at[r] = "account"
      /\ \/ a \notin DOMAIN accounts /\ Finish(r, [code |-> "AccountNotFound"])
         \/ /\ a \in DOMAIN accounts
            /\ query[r].op = "GetAccount"
            /\ Move(r, "commit")
            /\ result' = [result EXCEPT ![r] = [code |-> "Ok", account |-> account_to_proto(accounts[a])]]
         \/ /\ a \in DOMAIN accounts
            /\ query[r].op = "GetEntries"
            /\ Move(r, "entries")
            /\ UNCHANGED result
      /\ UNCHANGED <<vars, query, stream, history>>

EntriesIn(ts, a) ==
  UNION {{[tx |-> t, index |-> i, type |-> transactions[t].legs[i].type,
           amount |-> transactions[t].legs[i].amount, status |-> transactions[t].entry_status] :
            i \in {j \in DOMAIN transactions[t].legs : transactions[t].legs[j].account = a}} :
         t \in ts}

\* Holds are left out.
get_entries_for_account_posted(a) ==
  EntriesIn({t \in DOMAIN transactions : transactions[t].entry_status # "Pending"}, a)

\* The entries of an account.  They go out in the order of their ids, which the
\* model does not have: a stream is a set here.
get_entries_for_account(a) == EntriesIn(DOMAIN transactions, a)

ReadEntries(r) ==
  /\ at[r] = "entries"
  /\ unsent' = [unsent EXCEPT ![r] = get_entries_for_account(query[r].account_id)]
  /\ row' = [row EXCEPT ![r] = accounts[query[r].account_id]]
  /\ Move(r, "commit")
  /\ UNCHANGED <<vars, query, channel, received, result, answered>>

\* tx.commit() gives the connection back; then the answer, or the task and the
\* receiving end of its channel.
CommitRead(r) ==
  /\ at[r] = "commit"
  /\ Move(r, IF query[r].op = "GetEntries" THEN "stream" ELSE "done")
  /\ UNCHANGED <<vars, query, stream, result, history>>

-----------------------------------------------------------------------------
(* The stream of GetEntries. *)

\* The enums of ledger.proto: entry_type_to_proto and entry_status_to_proto.
entry_type_to_proto == [Debit |-> 1, Credit |-> 2]

entry_status_to_proto == [Pending |-> 1, Posted |-> 2, Voided |-> 3]

\* The status is looked up when the entry goes out.
entry_to_proto_late(e) ==
  [tx |-> e.tx, index |-> e.index, entry_type |-> entry_type_to_proto[e.type],
   amount |-> e.amount, status |-> entry_status_to_proto[transactions[e.tx].entry_status]]

entry_to_proto(e) ==
  [tx |-> e.tx, index |-> e.index, entry_type |-> entry_type_to_proto[e.type],
   amount |-> e.amount, status |-> entry_status_to_proto[e.status]]

\* One place of the channel is kept free.
SendEntryShort(r) ==
  /\ at[r] = "stream"
  /\ Cardinality(channel[r]) + 1 < StreamCapacity
  /\ \E e \in unsent[r] :
       /\ unsent' = [unsent EXCEPT ![r] = @ \ {e}]
       /\ channel' = [channel EXCEPT ![r] = @ \cup {entry_to_proto(e)}]
  /\ UNCHANGED <<vars, at, query, received, result, history>>

SendEntry(r) ==
  /\ at[r] = "stream"
  /\ Cardinality(channel[r]) < StreamCapacity
  /\ \E e \in unsent[r] :
       /\ unsent' = [unsent EXCEPT ![r] = @ \ {e}]
       /\ channel' = [channel EXCEPT ![r] = @ \cup {entry_to_proto(e)}]
  /\ UNCHANGED <<vars, at, query, received, result, history>>

\* The client takes an entry.
ReceiveEntry(r) ==
  /\ at[r] = "stream"
  /\ \E e \in channel[r] :
       /\ channel' = [channel EXCEPT ![r] = @ \ {e}]
       /\ received' = [received EXCEPT ![r] = @ \cup {e}]
  /\ UNCHANGED <<vars, at, query, unsent, result, history>>

\* The task has dropped its end and the channel is empty.
EndOfStream(r) ==
  /\ at[r] = "stream"
  /\ unsent[r] = {} /\ channel[r] = {}
  /\ Finish(r, [code |-> "Ok"])
  /\ UNCHANGED <<vars, query, stream, history>>

\* The client goes away in the middle and its end of the channel is dropped.
HangUp(r) ==
  /\ at[r] = "stream"
  /\ Move(r, "hungup")
  /\ channel' = [channel EXCEPT ![r] = {}]
  /\ UNCHANGED <<vars, query, unsent, received, result, history>>

\* send() fails and the task leaves its loop.
StopSending(r) ==
  /\ at[r] = "hungup"
  /\ unsent' = [unsent EXCEPT ![r] = {}]
  /\ Finish(r, [code |-> "Unknown"])
  /\ UNCHANGED <<vars, query, channel, received, history>>

-----------------------------------------------------------------------------
(* What may go wrong. *)

\* A statement fails, the client goes away before the answer, or no connection
\* becomes free in time.
ReadFault(r) ==
  /\ \/ "database" \in Faults /\ (ReaderHolds(r) \/ at[r] = "begin")
     \/ "cancel" \in Faults /\ (ReaderHolds(r) \/ at[r] = "begin")
     \/ "timeout" \in Faults /\ at[r] = "begin" /\ ~SharedRoom
  /\ Finish(r, [code |-> "Internal"])
  /\ unsent' = [unsent EXCEPT ![r] = {}]
  /\ UNCHANGED <<vars, query, channel, received, history>>

\* The readers' share of the end of the process.
ReadersDie ==
  /\ at' = [r \in Readers |-> IF at[r] = "idle" THEN "idle" ELSE "done"]
  /\ result' = [r \in Readers |->
                  IF at[r] \in {"idle", "done"} THEN result[r] ELSE [code |-> "Unknown"]]
  /\ unsent' = [r \in Readers |-> {}]
  /\ channel' = [r \in Readers |-> {}]
  /\ UNCHANGED <<query, received, history>>

-----------------------------------------------------------------------------
\* The handlers of Ledger compete with the readers for connections.
SharedStep(h) == Step(h) /\ (pc[h] = "begin" => SharedRoom) /\ UNCHANGED readerVars

SharedTimeout(h) ==
  /\ "timeout" \in Faults
  /\ pc[h] = "begin"
  /\ ~SharedRoom
  /\ Fail(h, "Internal")
  /\ UNCHANGED readerVars

ReadStep(r) ==
  \/ BeginRead(r)
  \/ get_account(r)
  \/ ReadEntries(r)
  \/ CommitRead(r)
  \/ SendEntry(r)
  \/ StopSending(r)

Client(r) == ReceiveEntry(r) \/ EndOfStream(r)

ReadersNext ==
  \/ \E h \in Requests :
       \/ (Receive(h) \/ Cancel(h) \/ DatabaseError(h)) /\ UNCHANGED readerVars
       \/ SharedStep(h)
       \/ SharedTimeout(h)
  \/ \E r \in Readers : Ask(r) \/ ReadStep(r) \/ Client(r) \/ HangUp(r) \/ ReadFault(r)
  \/ Crash /\ ReadersDie
  \/ Restart /\ UNCHANGED readerVars

ReadersSpec == Init /\ ReadersInit /\ [][ReadersNext]_systemVars

\* As for Ledger; the handlers and tasks of the readers are polled as well.
\* Nothing is assumed of their clients.
ReadersFairness ==
  /\ \A h \in Requests : WF_systemVars(SharedStep(h))
  /\ \A r \in Readers : WF_systemVars(ReadStep(r))
  /\ WF_systemVars(Restart /\ UNCHANGED readerVars)

FairReadersSpec == ReadersSpec /\ ReadersFairness

-----------------------------------------------------------------------------
\* A client's sum of the entries it received, by the enums of ledger.proto.
StreamedBalance(r, status) ==
  SumOver(LAMBDA e : compute_balance_delta(normal_balance(row[r].type),
                                           EntryTypeOfProto[e.entry_type], e.amount),
          {e \in received[r] : e.status = entry_status_to_proto[status]})

Streamed(r) == query[r].op = "GetEntries" /\ at[r] = "done" /\ result[r].code = "Ok"

\* An audit adds up: the entries a client receives in a complete stream sum to
\* the posted and the pending balance the account had at one moment, however
\* many captures and voids happen while the stream goes out, since get_entries
\* reads all entries in one statement before it sends the first.
StreamAddsUp ==
  \A r \in Readers : Streamed(r) =>
    /\ StreamedBalance(r, "Posted") = row[r].posted
    /\ StreamedBalance(r, "Pending") = row[r].pending

\* A client that was answered finds its own write: a complete stream has the
\* entries of every transfer that was authorized before the query, and none of a
\* transaction that was captured or voided before it still looks pending.
AnsweredWritesAreRead ==
  \A r \in Readers : Streamed(r) =>
    \A h \in answered[r] :
      /\ call[h].op = "Authorize" =>
           \A i \in DOMAIN transactions[reply[h].tx].legs :
             transactions[reply[h].tx].legs[i].account = query[r].account_id =>
               \E e \in received[r] : e.tx = reply[h].tx /\ e.index = i
      /\ Settles(call[h]) =>
           \A e \in received[r] : e.tx = call[h].tx => e.status = entry_status_to_proto[TargetStatus(call[h])]

\* Every query is answered, or its stream begins, and a task whose client is gone
\* ends.  A reader that stops reading can neither keep another query waiting nor a
\* request of Ledger (EveryCallAnswered), even on a pool of one connection, because
\* a stream holds none.
QueriesAnswered ==
  \A r \in Readers : at[r] \notin {"idle", "stream"} ~> at[r] \in {"stream", "done"}

\* A stream comes to its end when its client goes on reading.
StreamsEnd ==
  \A r \in Readers : WF_systemVars(Client(r)) => (at[r] = "stream" ~> at[r] = "done")
=============================================================================
