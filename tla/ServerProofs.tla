---------------------------- MODULE ServerProofs ----------------------------
(***************************************************************************)
(* What the shutdown and the readiness probe promise, for any requests,    *)
(* queries, configurations and numbers of restarts, and any of the faults  *)
(* Server has: a killed process, an acquire that takes too long, a failed  *)
(* query of the probe and a server's task that ends by itself.             *)
(***************************************************************************)
EXTENDS Server, FiniteSetTheorems, TLAPS

Running == {"serving", "drain_http", "drain_grpc", "closing", "closed"}

\* Main, the two servers and the pool agree on how far the shutdown has come.
ServerInv ==
  /\ DOMAIN pc = Requests /\ DOMAIN at = Readers
  /\ up \in BOOLEAN /\ (up <=> phase \in Running)
  /\ grpc # "off" \/ http # "off" \/ Probing => up
  /\ accepting => phase = "serving"
  /\ Probing => probed = "serving"
  /\ up => grpc \in {"accepting", "failed"} \/ shutdown
  /\ grpc = "ended" => Served
  /\ phase \in {"closing", "closed"} => closed /\ (~timedOut => grpc \in {"ended", "failed"})
  /\ NoTransactionIsCut

-----------------------------------------------------------------------------
(* What a step of a handler does to its place. *)

\* A handler of the ledger moves only while its request is under way, and gets a
\* connection only in begin().
LEMMA HandlerMoves ==
  ASSUME DOMAIN pc = Requests, NEW h \in Requests, Step(h)
  PROVE  /\ up' = up /\ DOMAIN pc' = Requests /\ InFlight(h)
         /\ \A g \in Requests \ {h} : pc'[g] = pc[g]
         /\ pc'[h] \in Connected => pc[h] \in Connected \/ pc[h] = "begin"
<1>1. up' = up
  BY Zenon DEF Step, Begin, FindTransactionByKey, GetTransaction, LockAccount, CheckFunds, RefuseFunds,
     CreateTransaction, UpdateAccountBalance, InsertAccount, Commit, ApplyDelta, SetCache, Fail
<1>2. \E label : pc' = [pc EXCEPT ![h] = label]
  BY Zenon DEF Step, Begin, FindTransactionByKey, GetTransaction, LockAccount, CheckFunds, RefuseFunds,
     CreateTransaction, UpdateAccountBalance, InsertAccount, Commit, ApplyDelta, SetCache, Fail,
     Goto, Answer
<1>3. DOMAIN pc' = Requests /\ \A g \in Requests \ {h} : pc'[g] = pc[g]
  BY <1>2, Zenon
<1>4. CASE ApplyDelta(h) \/ SetCache(h)
  <2>1. pc[h] \in {"committed", "apply"} /\ (pc' = [pc EXCEPT ![h] = "apply"] \/ pc' = [pc EXCEPT ![h] = "done"])
    BY <1>4, Zenon DEF ApplyDelta, SetCache, Goto, Answer
  <2>2. pc'[h] \in {"apply", "done"}
    BY <2>1, Zenon
  <2>. QED
    BY <1>1, <1>3, <2>1, <2>2 DEF InFlight, Connected
<1>5. CASE ~(ApplyDelta(h) \/ SetCache(h))
  <2>1. pc[h] \in Connected \/ pc[h] = "begin"
    BY <1>5, Zenon DEF Step, Begin, FindTransactionByKey, GetTransaction, LockAccount, CheckFunds,
       CreateTransaction, UpdateAccountBalance, InsertAccount, Commit, Connected
  <2>2. InFlight(h)
    BY <2>1 DEF InFlight, Connected
  <2>. QED
    BY <1>1, <1>3, <2>1, <2>2, Zenon
<1>. QED
  BY <1>4, <1>5, Zenon

\* The same for a handler of a query; a stream needs no connection.
LEMMA ReaderMoves ==
  ASSUME DOMAIN at = Readers, NEW r \in Readers, ReadStep(r) \/ Client(r) \/ HangUp(r)
  PROVE  /\ UNCHANGED vars /\ DOMAIN at' = Readers
         /\ \A q \in Readers \ {r} : at'[q] = at[q]
         /\ at[r] \in {"idle", "hungup", "done"} => at'[r] \in {"idle", "hungup", "done"}
         /\ ReaderHolds(r)' => ReaderHolds(r) \/ at[r] = "begin"
<1>. USE DEF ReadStep, BeginRead, get_account, ReadEntries, CommitRead, SendEntry, StopSending,
             Client, ReceiveEntry, EndOfStream, HangUp, Finish, Move
<1>1. UNCHANGED vars
  BY Zenon
<1>2. at' = at \/ \E label : at' = [at EXCEPT ![r] = label]
  BY Zenon
<1>3. DOMAIN at' = Readers /\ \A q \in Readers \ {r} : at'[q] = at[q]
  BY <1>2, Zenon
<1>4. CASE ReaderHolds(r) \/ at[r] = "begin"
  BY <1>1, <1>3, <1>4 DEF ReaderHolds
<1>5. CASE at' = at
  BY <1>1, <1>3, <1>5, Zenon DEF ReaderHolds
<1>6. CASE ~(ReaderHolds(r) \/ at[r] = "begin") /\ at' # at
  <2>1. at' = [at EXCEPT ![r] = "done"] \/ (at[r] = "stream" /\ at' = [at EXCEPT ![r] = "hungup"])
    BY <1>6 DEF ReaderHolds
  <2>2. at'[r] \in {"done", "hungup"}
    BY <2>1, Zenon
  <2>. QED
    BY <1>1, <1>3, <2>2, SMTT(30) DEF ReaderHolds
<1>. QED
  BY <1>4, <1>5, <1>6, Zenon

\* pool.close() returns when nobody has a connection.
LEMMA PoolEmpty ==
  ASSUME InUse = 0
  PROVE  /\ \A h \in Requests : pc[h] \notin Connected
         /\ \A r \in Readers : ~ReaderHolds(r)
         /\ checker # "query" /\ probe # "query"
<1>. DEFINE H == {h \in Requests : pc[h] \in Connected}
            R == {r \in Readers : ReaderHolds(r)}
<1>1. IsFiniteSet(H) /\ IsFiniteSet(R)
  BY RequestsAssumption, ReadersAssumption, FS_Subset, Zenon
<1>2. Cardinality(H) \in Nat /\ Cardinality(R) \in Nat
  BY <1>1, FS_CardinalityType, Zenon
<1>3. Cardinality(H) + Cardinality(R) + (IF checker = "query" THEN 1 ELSE 0)
        + (IF probe = "query" THEN 1 ELSE 0) = 0
  BY Zenon DEF InUse, ConnectionsOut
<1>. HIDE DEF H, R
<1>4. Cardinality(H) = 0 /\ Cardinality(R) = 0 /\ checker # "query" /\ probe # "query"
  BY <1>2, <1>3
<1>5. H = {} /\ R = {}
  BY <1>1, <1>4, FS_EmptySet, Zenon
<1>. QED
  BY <1>4, <1>5, Zenon DEF H, R

-----------------------------------------------------------------------------
(* Each step keeps ServerInv. *)

\* A step of a handler leaves main, the servers and the pool as they are.
LEMMA HandlersKeep ==
  ASSUME ServerInv, UNCHANGED serverVars, up' = up, DOMAIN pc' = Requests, DOMAIN at' = Readers,
         grpc = "ended" => Served', phase = "closed" => NoTransactionIsCut'
  PROVE  ServerInv'
<1>1. /\ phase' = phase /\ grpc' = grpc /\ http' = http /\ probe' = probe /\ checker' = checker
      /\ probed' = probed /\ accepting' = accepting
      /\ shutdown' = shutdown /\ closed' = closed /\ timedOut' = timedOut
  BY DEF serverVars, tasks, control
<1>2. phase # "closed" => NoTransactionIsCut'
  BY <1>1, Zenon DEF NoTransactionIsCut
<1>. QED
  BY <1>1, <1>2, Zenon DEF ServerInv, Probing

\* Requests arrive and are handled.
LEMMA RequestKeeps ==
  ASSUME ServerInv, NEW h \in Requests, Arrive(h) \/ Handle(h)
  PROVE  ServerInv'
<1>. USE DEF ServerInv
<1>1. /\ UNCHANGED serverVars /\ at' = at
  BY DEF Arrive, Handle, SharedStep, readerVars
<1>2. checker' = checker /\ probe' = probe /\ phase' = phase
  BY <1>1 DEF serverVars, tasks, control
<1>3. /\ up' = up /\ DOMAIN pc' = Requests
      /\ \A g \in Requests \ {h} : pc'[g] = pc[g]
      /\ grpc # "ended"
      /\ phase = "closed" => pc'[h] \notin Connected
  <2>1. CASE Arrive(h)
    <3>1. up' = up /\ grpc = "accepting"
      BY <2>1 DEF Arrive, Receive
    <3>2. pc' = [pc EXCEPT ![h] = "begin"] \/ pc' = [pc EXCEPT ![h] = "done"]
      BY <2>1, Zenon DEF Arrive, Receive, Goto, Answer
    <3>3. pc'[h] \in {"begin", "done"} /\ DOMAIN pc' = Requests /\ \A g \in Requests \ {h} : pc'[g] = pc[g]
      BY <3>2, Zenon
    <3>. QED
      BY <3>1, <3>3 DEF Connected
  <2>2. CASE SharedStep(h) /\ (pc[h] = "begin" => Room)
    <3>1. /\ up' = up /\ DOMAIN pc' = Requests /\ InFlight(h)
          /\ \A g \in Requests \ {h} : pc'[g] = pc[g]
          /\ pc'[h] \in Connected => pc[h] \in Connected \/ pc[h] = "begin"
      BY <2>2, HandlerMoves, Zenon DEF SharedStep
    <3>2. grpc # "ended"
      BY <3>1, Zenon DEF Served
    <3>3. phase = "closed" => pc[h] # "begin" /\ pc[h] \notin Connected
      BY <2>2, Zenon DEF Room, NoTransactionIsCut
    <3>. QED
      BY <3>1, <3>2, <3>3, Zenon
  <2>3. CASE pc[h] = "begin" /\ Fail(h, "Internal")
    <3>1. up' = up /\ pc' = [pc EXCEPT ![h] = "done"]
      BY <2>3 DEF Fail, Answer
    <3>2. pc'[h] = "done" /\ DOMAIN pc' = Requests /\ \A g \in Requests \ {h} : pc'[g] = pc[g]
      BY <3>1, Zenon
    <3>3. InFlight(h)
      BY <2>3 DEF InFlight
    <3>4. grpc # "ended"
      BY <3>3, Zenon DEF Served
    <3>. QED
      BY <3>1, <3>2, <3>4 DEF Connected
  <2>. QED
    BY <2>1, <2>2, <2>3, Zenon DEF Handle
<1>4. phase = "closed" => NoTransactionIsCut'
  BY <1>1, <1>2, <1>3, Zenon DEF NoTransactionIsCut, ReaderHolds
<1>. QED
  BY <1>1, <1>3, <1>4, HandlersKeep, Zenon

\* Queries arrive, are handled, and their clients read or hang up.
LEMMA QueryKeeps ==
  ASSUME ServerInv, NEW r \in Readers, ArriveRead(r) \/ HandleRead(r) \/ ClientRead(r)
  PROVE  ServerInv'
<1>. USE DEF ServerInv
<1>1. UNCHANGED serverVars
  BY DEF ArriveRead, HandleRead, ClientRead
<1>2. checker' = checker /\ probe' = probe /\ phase' = phase
  BY <1>1 DEF serverVars, tasks, control
<1>3. /\ UNCHANGED vars /\ DOMAIN at' = Readers
      /\ \A q \in Readers \ {r} : at'[q] = at[q]
      /\ grpc = "ended" => at'[r] \in {"idle", "hungup", "done"}
      /\ phase = "closed" => ~ReaderHolds(r)'
  <2>1. CASE ArriveRead(r)
    <3>1. UNCHANGED vars /\ grpc = "accepting"
      BY <2>1 DEF ArriveRead, Ask
    <3>2. at' = [at EXCEPT ![r] = "begin"] \/ at' = [at EXCEPT ![r] = "done"]
      BY <2>1, Zenon DEF ArriveRead, Ask, get_balance, Finish, Move
    <3>3. at'[r] \in {"begin", "done"} /\ DOMAIN at' = Readers /\ \A q \in Readers \ {r} : at'[q] = at[q]
      BY <3>2, Zenon
    <3>. QED
      BY <3>1, <3>3 DEF ReaderHolds
  <2>2. CASE (ReadStep(r) /\ (at[r] = "begin" => Room)) \/ ClientRead(r)
    <3>1. /\ UNCHANGED vars /\ DOMAIN at' = Readers
          /\ \A q \in Readers \ {r} : at'[q] = at[q]
          /\ at[r] \in {"idle", "hungup", "done"} => at'[r] \in {"idle", "hungup", "done"}
          /\ ReaderHolds(r)' => ReaderHolds(r) \/ at[r] = "begin"
      BY <2>2, ReaderMoves, Zenon DEF ClientRead
    <3>2. grpc = "ended" => at[r] \in {"idle", "hungup", "done"}
      BY Zenon DEF Served
    <3>3. phase = "closed" => ~ReaderHolds(r) /\ (at[r] = "begin" => ~Room)
      BY Zenon DEF Room, NoTransactionIsCut
    <3>4. ClientRead(r) => at[r] = "stream"
      BY Zenon DEF ClientRead, Client, ReceiveEntry, EndOfStream, HangUp
    <3>5. phase = "closed" => at[r] # "begin"
      BY <2>2, <3>3, <3>4
    <3>. QED
      BY <3>1, <3>2, <3>3, <3>5, Zenon
  <2>3. CASE at[r] = "begin" /\ Finish(r, [code |-> "Internal"]) /\ UNCHANGED vars
    <3>1. at'[r] = "done" /\ DOMAIN at' = Readers /\ \A q \in Readers \ {r} : at'[q] = at[q]
      BY <2>3, Zenon DEF Finish, Move
    <3>. QED
      BY <2>3, <3>1 DEF ReaderHolds
  <2>. QED
    BY <2>1, <2>2, <2>3, Zenon DEF HandleRead
<1>4. pc' = pc /\ up' = up
  BY <1>3 DEF vars, locals
<1>5. grpc = "ended" => Served'
  BY <1>3, <1>4, Zenon DEF Served, InFlight
<1>6. phase = "closed" => NoTransactionIsCut'
  BY <1>2, <1>3, <1>4, Zenon DEF NoTransactionIsCut, ReaderHolds
<1>. QED
  BY <1>1, <1>3, <1>4, <1>5, <1>6, HandlersKeep, Zenon

\* The process ends.
LEMMA EndKeeps ==
  ASSUME ProcessEnds, up' = FALSE, DOMAIN pc' = Requests, DOMAIN at' = Readers
  PROVE  ServerInv'
<1>1. phase' = "down" /\ grpc' = "off" /\ http' = "off" /\ probe' = "idle" /\ accepting' = FALSE
  BY DEF ProcessEnds
<1>. QED
  BY <1>1, Zenon DEF ServerInv, Running, Probing, NoTransactionIsCut

\* Start-up: nothing is served before both listeners are bound.
LEMMA StartKeeps ==
  ASSUME ServerInv, StartUp
  PROVE  ServerInv'
<1>. USE DEF ServerInv
<1>1. pc' = pc /\ at' = at
  BY Zenon DEF StartUp, LoadConfig, connect_db, run_migrations, rehydrate, bind_http, bind_grpc, StartFails,
     systemVars, vars, locals, readerVars
<1>2. phase \notin Running
  BY DEF StartUp, LoadConfig, connect_db, run_migrations, rehydrate, bind_http, bind_grpc, StartFails,
     Running
<1>3. up = FALSE /\ grpc = "off" /\ http = "off" /\ ~Probing /\ ~accepting
  BY <1>2, Zenon DEF Running
<1>4. CASE bind_grpc
  BY <1>1, <1>3, <1>4 DEF bind_grpc, Running, Probing, NoTransactionIsCut
<1>5. CASE (run_migrations \/ StartFails) /\ ProcessEnds
  <2>1. up' = up
    BY <1>5 DEF run_migrations, StartFails, systemVars, vars
  <2>. QED
    BY <1>1, <1>3, <1>5, <2>1, EndKeeps, Zenon
<1>6. CASE ~bind_grpc /\ ~((run_migrations \/ StartFails) /\ ProcessEnds)
  <2>1. /\ up' = up /\ grpc' = grpc /\ http' = http /\ probe' = probe /\ accepting' = accepting
        /\ phase' \notin Running
    BY <1>2, <1>6 DEF StartUp, LoadConfig, connect_db, run_migrations, rehydrate, bind_http, StartFails,
       systemVars, vars, tasks, Running
  <2>2. phase' \notin {"closing", "closed"}
    BY <2>1 DEF Running
  <2>. QED
    BY <1>1, <1>3, <2>1, <2>2, SMTT(30) DEF Probing, NoTransactionIsCut
<1>. QED
  BY <1>4, <1>5, <1>6, Zenon

\* The signal, the two servers and the users of the pool that are no handlers.
LEMMA TaskKeeps ==
  ASSUME ServerInv,
         \/ Signal \/ NoticeHttp \/ NoticeGrpc \/ EndHttp \/ EndGrpc \/ HttpFails \/ GrpcFails
         \/ ready \/ ReadyQuery \/ CheckerLoop
  PROVE  ServerInv'
<1>. USE DEF ServerInv
<1>1. /\ pc' = pc /\ at' = at /\ up' = up /\ closed' = closed /\ timedOut' = timedOut
  BY Zenon DEF Signal, NoticeHttp, NoticeGrpc, EndHttp, EndGrpc, HttpFails, GrpcFails, ready, ReadyQuery, CheckerLoop,
     systemVars, vars, locals, readerVars, control
<1>2. Served' = Served
  BY <1>1, Zenon DEF Served, InFlight
<1>3. CASE Signal
  <2>1. /\ phase = "serving" /\ phase' = "drain_http" /\ shutdown' = TRUE
        /\ accepting' = FALSE
        /\ grpc' = grpc /\ http' = http /\ probe' = probe /\ probed' = probed
    BY <1>3 DEF Signal, tasks
  <2>2. up /\ phase' \in Running /\ phase' \notin {"closing", "closed"}
    BY <2>1 DEF Running
  <2>3. NoTransactionIsCut'
    BY <2>1 DEF NoTransactionIsCut
  <2>. QED
    BY <1>1, <1>2, <2>1, <2>2, <2>3, Zenon DEF Probing
<1>4. CASE ~Signal
  <2>. USE DEF NoticeHttp, NoticeGrpc, EndHttp, EndGrpc, HttpFails, GrpcFails, ready, ReadyQuery,
               CheckerLoop
  <2>1. phase' = phase /\ shutdown' = shutdown /\ accepting' = accepting
    BY <1>4 DEF control
  <2>2. http' # "off" \/ grpc' # "off" \/ Probing' => up
    BY <1>4 DEF Probing
  <2>3. Probing' => probed' = "serving"
    BY <1>4 DEF Probing
  <2>4. \/ grpc' = grpc \/ (shutdown /\ grpc' = "draining" /\ grpc = "accepting")
        \/ (Served /\ grpc' = "ended" /\ grpc = "draining")
        \/ (grpc' = "failed" /\ grpc \in {"accepting", "draining"})
    BY <1>4
  <2>5. /\ up => grpc' \in {"accepting", "failed"} \/ shutdown
        /\ grpc' = "ended" => Served
        /\ grpc \in {"ended", "failed"} => grpc' \in {"ended", "failed"}
    BY <2>4
  <2>6. phase = "closed" => checker' # "query" /\ probe' # "query"
    BY <1>4 DEF Room, NoTransactionIsCut
  <2>7. NoTransactionIsCut'
    BY <1>1, <2>1, <2>6, Zenon DEF NoTransactionIsCut, ReaderHolds
  <2>. QED
    BY <1>1, <1>2, <2>1, <2>2, <2>3, <2>5, <2>7, Zenon
<1>. QED
  BY <1>3, <1>4, Zenon

\* main drains, closes the pool and returns, or is killed on the way.
LEMMA DrainKeeps ==
  ASSUME ServerInv, Drain \/ Kill
  PROVE  ServerInv'
<1>. USE DEF ServerInv
<1>1. CASE Exit \/ Kill
  <2>1. ProcessEnds /\ up' = FALSE /\ DOMAIN pc' = Requests /\ DOMAIN at' = Readers
    BY <1>1, Zenon DEF Exit, Kill, Die, ReadersDie, locals, readerVars
  <2>. QED
    BY <2>1, EndKeeps, Zenon
<1>2. CASE JoinHttp \/ JoinGrpc \/ DrainTimeout \/ PoolClose
  <2>1. /\ pc' = pc /\ at' = at /\ up' = up /\ shutdown' = shutdown
        /\ grpc' = grpc /\ http' = http /\ probe' = probe /\ probed' = probed /\ checker' = checker
        /\ accepting' = accepting
        /\ phase \in Running \ {"serving"} /\ phase' \in Running
    BY <1>2 DEF JoinHttp, JoinGrpc, DrainTimeout, PoolClose, systemVars, vars, locals, readerVars, tasks,
       Running
  <2>2. Served' = Served
    BY <2>1, Zenon DEF Served, InFlight
  <2>3. phase' \in {"closing", "closed"} => closed' /\ (~timedOut' => grpc' \in {"ended", "failed"})
    BY <1>2 DEF JoinHttp, JoinGrpc, DrainTimeout, PoolClose, tasks
  <2>4. NoTransactionIsCut'
    <3>1. CASE PoolClose
      BY <2>1, <3>1, PoolEmpty, Zenon DEF PoolClose, NoTransactionIsCut, ReaderHolds
    <3>2. CASE ~PoolClose
      BY <1>2, <3>2, Zenon DEF JoinHttp, JoinGrpc, DrainTimeout, NoTransactionIsCut
    <3>. QED
      BY <3>1, <3>2, Zenon
  <2>. QED
    BY <2>1, <2>2, <2>3, <2>4, Zenon DEF Probing
<1>. QED
  BY <1>1, <1>2, Zenon DEF Drain

\* Every step of the process keeps ServerInv.
LEMMA NextServerInv == ServerInv /\ [ServerNext]_allVars => ServerInv'
<1>. SUFFICES ASSUME ServerInv, [ServerNext]_allVars PROVE ServerInv'
  OBVIOUS
<1>1. CASE UNCHANGED allVars
  <2>1. /\ UNCHANGED serverVars /\ up' = up /\ pc' = pc /\ at' = at
    BY <1>1 DEF allVars, systemVars, vars, locals, readerVars
  <2>2. checker' = checker /\ probe' = probe /\ phase' = phase
    BY <2>1 DEF serverVars, tasks, control
  <2>3. (Served => Served') /\ (NoTransactionIsCut => NoTransactionIsCut')
    BY <2>1, <2>2, Zenon DEF Served, InFlight, NoTransactionIsCut, ReaderHolds
  <2>. QED
    BY <2>1, <2>3, HandlersKeep, Zenon DEF ServerInv
<1>2. CASE ServerNext
  BY <1>2, StartKeeps, TaskKeeps, DrainKeeps, RequestKeeps, QueryKeeps, Zenon DEF ServerNext
<1>. QED
  BY <1>1, <1>2

\* It holds before the first start.
LEMMA InitServerInv == ServerInit => ServerInv
<1>. SUFFICES ASSUME ServerInit PROVE ServerInv
  OBVIOUS
<1>1. /\ DOMAIN pc = Requests /\ DOMAIN at = Readers /\ up = FALSE /\ phase = "down"
      /\ grpc = "off" /\ http = "off" /\ probe = "idle" /\ accepting = FALSE
  BY DEF ServerInit, Opened, ReadersInit
<1>. QED
  BY <1>1, Zenon DEF ServerInv, Running, Probing, NoTransactionIsCut

\* Hence it always holds.
LEMMA ServerInvariance == ServerSpec => []ServerInv
BY InitServerInv, NextServerInv, PTL DEF ServerSpec

-----------------------------------------------------------------------------
(* The theorems. *)

\* drain() of server.rs, when it is not cut short and finds the gRPC task in order,
\* closes the pool only after every accepted request and stream has come to its end.
THEOREM DrainIsGraceful == ServerSpec => []GracefulDrain
<1>1. ServerInv => GracefulDrain
  BY DEF ServerInv, GracefulDrain
<1>. QED
  BY <1>1, ServerInvariance, PTL

\* pool.close() lets main return only when nobody is inside a database transaction,
\* also when the drain timed out or a server's task had failed.
THEOREM NoTransactionCut == ServerSpec => []NoTransactionIsCut
<1>1. ServerInv => NoTransactionIsCut
  BY Zenon DEF ServerInv
<1>. QED
  BY <1>1, ServerInvariance, PTL

\* ready() of health.rs says OK only to a probe that arrived while main was serving,
\* before the signal and after both listeners were bound, and not once main has
\* closed the pool; the gRPC server accepts at that moment unless the signal came
\* while the probe was under way or the task has failed.
THEOREM ReadyIsServing == ServerSpec => ReadyMeansServing
<1>1. ServerInv /\ [ServerNext]_allVars =>
        [probe = "query" /\ probe' = "ok" =>
           /\ probed = "serving"
           /\ phase # "closed"
           /\ grpc = "accepting" \/ shutdown \/ grpc = "failed"]_allVars
  <2>1. ServerInv /\ probe = "query" =>
          probed = "serving" /\ phase # "closed" /\ (grpc = "accepting" \/ shutdown \/ grpc = "failed")
    BY DEF ServerInv, Probing, NoTransactionIsCut
  <2>. QED
    BY <2>1, Zenon
<1>. QED
  BY <1>1, ServerInvariance, PTL DEF ServerSpec, ReadyMeansServing
=============================================================================
