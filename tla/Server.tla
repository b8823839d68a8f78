------------------------------- MODULE Server -------------------------------
(***************************************************************************)
(* The process around the handlers: configuration, start-up, readiness,    *)
(* the integrity checker's loop as a user of the pool, and the shutdown.   *)
(* main and server.rs are one thread of control (phase); the two servers,  *)
(* the probe and the checker are tasks that notice the shutdown signal in  *)
(* their own time.  up is TRUE from the moment serve() has spawned the     *)
(* servers until the process ends.                                         *)
(***************************************************************************)
EXTENDS Readers

CONSTANTS
  Invocations,  \* command lines, files and environments the process is started with
  MaxStarts     \* bound on the number of starts

VARIABLES
  phase,      \* where main is
  command,    \* its subcommand
  config,     \* its AppConfig
  http,       \* the HTTP server's task
  grpc,       \* the gRPC server's task
  accepting,  \* HealthState.accepting
  shutdown,   \* the value in the watch channel
  closed,     \* pool.close() has been called
  timedOut,   \* the drain was cut short
  probe,      \* a readiness probe
  probed,     \* history: where main was when the probe under way arrived
  checker,    \* the integrity checker's task
  starts      \* how often the process was started

tasks == <<http, grpc, probe, probed, checker>>
control == <<phase, command, config, accepting, shutdown, closed, timedOut, starts>>
serverVars == <<tasks, control>>
allVars == <<systemVars, serverVars>>

-----------------------------------------------------------------------------
(* config.rs *)

Defaults ==
  [url |-> "", grpc_port |-> 50051, http_port |-> 9090, max_connections |-> 10,
   min_connections |-> 1, shutdown_timeout_secs |-> 30, integrity_check_interval_secs |-> 60]

\* The last source wins: defaults, file, FIDES__* variables, DATABASE_URL.
load(i) == Overwrite(Overwrite(Overwrite(Defaults, i.file), i.variables), i.database_url)

validate(c) ==
  /\ c.url # ""
  /\ c.grpc_port # c.http_port
  /\ c.max_connections > 0
  /\ c.min_connections <= c.max_connections
  /\ c.shutdown_timeout_secs > 0
  /\ c.integrity_check_interval_secs >= 10

-----------------------------------------------------------------------------
(* The pool, as all its users share it. *)

InUse ==
  ConnectionsOut + (IF checker = "query" THEN 1 ELSE 0) + (IF probe = "query" THEN 1 ELSE 0)

Room == ~closed /\ InUse < config.max_connections

\* An acquire ends without a connection: the pool is closed, or it took too long.
AcquireFails == closed \/ ("timeout" \in Faults /\ ~Room)

-----------------------------------------------------------------------------
(* Start-up. *)

ServerInit ==
  /\ Opened /\ cache = Empty /\ up = FALSE
  /\ ReadersInit
  /\ phase = "down" /\ command = "none" /\ config = Defaults /\ starts = 0
  /\ http = "off" /\ grpc = "off" /\ probe = "idle" /\ probed = "none" /\ checker = "off"
  /\ accepting = FALSE /\ shutdown = FALSE /\ closed = FALSE /\ timedOut = FALSE

\* What is left of the process's own state when it ends.
ProcessEnds ==
  /\ phase' = "down" /\ command' = "none" /\ config' = Defaults
  /\ http' = "off" /\ grpc' = "off" /\ probe' = "idle" /\ probed' = "none" /\ checker' = "off"
  /\ accepting' = FALSE /\ shutdown' = FALSE /\ closed' = FALSE /\ timedOut' = FALSE
  /\ UNCHANGED starts

\* AppConfig::load; a configuration that is not valid ends the process.
LoadConfig ==
  /\ phase = "down"
  /\ starts < MaxStarts
  /\ starts' = starts + 1
  /\ \E i \in Invocations :
       \/ /\ i.file_found \/ ~i.path_given
          /\ validate(load(i))
          /\ phase' = "loaded" /\ command' = i.command /\ config' = load(i)
       \/ /\ ~(i.file_found \/ ~i.path_given) \/ ~validate(load(i))
          /\ UNCHANGED <<phase, command, config>>
  /\ UNCHANGED <<systemVars, tasks, accepting, shutdown, closed, timedOut>>

connect_db ==
  /\ phase = "loaded"
  /\ phase' = IF command = "serve" THEN "migrated" ELSE "connected"
  /\ UNCHANGED <<systemVars, tasks, command, config, accepting, shutdown, closed, timedOut, starts>>

\* The schema is up to date already or becomes so; the rows stay as they are.
\* `migrate` then closes the idle pool and ends.
run_migrations ==
  /\ phase = "connected"
  /\ \/ command = "migrate" /\ ProcessEnds
     \/ /\ command # "migrate"
        /\ phase' = "migrated"
        /\ UNCHANGED <<tasks, command, config, accepting, shutdown, closed, timedOut, starts>>
  /\ UNCHANGED systemVars

\* The cache is left empty, to be filled on demand.
rehydrate_skipped ==
  /\ phase = "migrated"
  /\ phase' = "hydrated"
  /\ command' = "none"
  /\ checker' = "sleep"
  /\ UNCHANGED <<vars, readerVars, http, grpc, probe, probed, config, accepting, shutdown, closed,
                 timedOut, starts>>

\* serve(), up to its first bind: the cache is filled and the checker spawned.  What
\* the command was no longer matters.
rehydrate ==
  /\ phase = "migrated"
  /\ phase' = "hydrated"
  /\ command' = "none"
  /\ cache' = Balances
  /\ checker' = "sleep"
  /\ UNCHANGED <<database, up, locals, readerVars, http, grpc, probe, probed, config, accepting,
                 shutdown, closed, timedOut, starts>>

bind_http ==
  /\ phase = "hydrated"
  /\ phase' = "bound"
  /\ UNCHANGED <<systemVars, tasks, command, config, accepting, shutdown, closed, timedOut, starts>>

\* The second listener is bound, and only then are both servers spawned.
bind_grpc ==
  /\ phase = "bound"
  /\ phase' = "serving"
  /\ up' = TRUE
  /\ http' = "accepting" /\ grpc' = "accepting"
  /\ accepting' = TRUE
  /\ UNCHANGED <<database, cache, locals, readerVars, probe, probed, checker, command, config, shutdown,
                 closed, timedOut, starts>>

\* A step of the start-up returns an error, and main exits with it.
StartFails ==
  /\ phase \in {"loaded", "connected", "migrated", "hydrated", "bound"}
  /\ ProcessEnds
  /\ cache' = Empty
  /\ UNCHANGED <<database, up, locals, readerVars>>

-----------------------------------------------------------------------------
(* Shutdown. *)

\* SIGTERM or ctrl-c reaches run(), which begins the drain: /ready turns to 503
\* and the tasks are told.
Signal ==
  /\ phase = "serving"
  /\ phase' = "drain_http"
  /\ accepting' = FALSE
  /\ shutdown' = TRUE
  /\ UNCHANGED <<systemVars, tasks, command, config, closed, timedOut, starts>>

\* A server sees the signal and stops accepting.
NoticeHttp ==
  /\ shutdown /\ http = "accepting"
  /\ http' = "draining"
  /\ UNCHANGED <<systemVars, grpc, probe, probed, checker, control>>

NoticeGrpc ==
  /\ shutdown /\ grpc = "accepting"
  /\ grpc' = "draining"
  /\ UNCHANGED <<systemVars, http, probe, probed, checker, control>>

Probing == probe \in {"acquire", "query"}

\* It ends when everything it accepted is answered.
EndHttp ==
  /\ http = "draining"
  /\ ~Probing
  /\ http' = "ended"
  /\ UNCHANGED <<systemVars, grpc, probe, probed, checker, control>>

Served ==
  /\ \A h \in Requests : ~InFlight(h)
  /\ \A r \in Readers : at[r] \in {"idle", "hungup", "done"}

EndGrpc ==
  /\ grpc = "draining"
  /\ Served
  /\ grpc' = "ended"
  /\ UNCHANGED <<systemVars, http, probe, probed, checker, control>>

\* A server's task ends by itself, with an error or a panic.  It accepts nothing
\* more; what it has accepted is served by tasks of its own, which go on.  Nobody
\* is told before drain() joins it.  Of the gRPC task it matters later that it failed.
HttpFails ==
  /\ "panic" \in Faults
  /\ http \in {"accepting", "draining"}
  /\ http' = "ended"
  /\ UNCHANGED <<systemVars, grpc, probe, probed, checker, control>>

GrpcFails ==
  /\ "panic" \in Faults
  /\ grpc \in {"accepting", "draining"}
  /\ grpc' = "failed"
  /\ UNCHANGED <<systemVars, http, probe, probed, checker, control>>

\* drain() waits for one handle after the other, and then closes the pool.  An error
\* or a panic of a task is logged and taken for its end.
JoinHttp ==
  /\ phase = "drain_http"
  /\ http = "ended"
  /\ phase' = "drain_grpc"
  /\ UNCHANGED <<systemVars, tasks, command, config, accepting, shutdown, closed, timedOut, starts>>

\* The gRPC handle is dropped without waiting for it.
JoinGrpcDetached ==
  /\ phase = "drain_grpc"
  /\ phase' = "closing"
  /\ closed' = TRUE
  /\ UNCHANGED <<systemVars, tasks, command, config, accepting, shutdown, timedOut, starts>>

JoinGrpc ==
  /\ phase = "drain_grpc"
  /\ grpc \in {"ended", "failed"}
  /\ phase' = "closing"
  /\ closed' = TRUE
  /\ UNCHANGED <<systemVars, tasks, command, config, accepting, shutdown, timedOut, starts>>

\* The handles are awaited for as long as it takes.
NoDrainTimeout == FALSE

\* shutdown_timeout_secs have passed: the handles are dropped, which detaches the
\* two servers, and the pool is closed.
DrainTimeout ==
  /\ phase \in {"drain_http", "drain_grpc"}
  /\ phase' = "closing"
  /\ closed' = TRUE
  /\ timedOut' = TRUE
  /\ UNCHANGED <<systemVars, tasks, command, config, accepting, shutdown, starts>>

\* The pool is dropped with the connections that are out.
PoolCloseDropped ==
  /\ phase = "closing"
  /\ phase' = "closed"
  /\ UNCHANGED <<systemVars, tasks, command, config, accepting, shutdown, closed, timedOut, starts>>

\* pool.close() returns when every connection has come back.
PoolClose ==
  /\ phase = "closing"
  /\ InUse = 0
  /\ phase' = "closed"
  /\ UNCHANGED <<systemVars, tasks, command, config, accepting, shutdown, closed, timedOut, starts>>

\* main returns; the runtime waits for nothing but the step a task is in.
Exit ==
  /\ phase = "closed"
  /\ \A h \in Requests : pc[h] # "apply"
  /\ Die /\ ReadersDie
  /\ ProcessEnds

\* The process is killed.
Kill ==
  /\ "crash" \in Faults
  /\ phase # "down"
  /\ \/ up /\ Die /\ ReadersDie
     \/ ~up /\ cache' = Empty /\ UNCHANGED <<database, up, locals, readerVars>>
  /\ ProcessEnds

-----------------------------------------------------------------------------
(* health.rs and the loop of integrity.rs, as users of the pool. *)

\* The flag is not looked at; the closed pool will tell.
ready_unchecked ==
  /\ http = "accepting"
  /\ ~Probing
  /\ probe' = "acquire" /\ probed' = phase
  /\ UNCHANGED <<systemVars, http, grpc, checker, control>>

\* A 503 leaves nothing behind, a 200 leaves probe = "ok".
ready ==
  /\ http = "accepting"
  /\ ~Probing
  /\ \/ accepting /\ probe' = "acquire" /\ probed' = phase
     \/ ~accepting /\ probe' = "idle" /\ probed' = "none"
  /\ UNCHANGED <<systemVars, http, grpc, checker, control>>

\* SELECT 1 takes a connection and gives it back with the answer.
ReadyQuery ==
  /\ \/ probe = "acquire" /\ Room /\ probe' = "query" /\ UNCHANGED probed
     \/ probe = "acquire" /\ AcquireFails /\ probe' = "idle" /\ probed' = "none"
     \/ probe = "query" /\ probe' = "ok" /\ probed' = "none"
     \/ probe = "query" /\ "database" \in Faults /\ probe' = "idle" /\ probed' = "none"
  /\ UNCHANGED <<systemVars, http, grpc, checker, control>>

CheckerLoop ==
  /\ \/ checker = "sleep" /\ checker' = "acquire"
     \/ checker = "sleep" /\ shutdown /\ checker' = "ended"
     \/ checker = "acquire" /\ Room /\ checker' = "query"
     \/ checker = "acquire" /\ AcquireFails /\ checker' \in {"acquire", "sleep"}
     \/ checker = "query" /\ checker' \in {"acquire", "sleep"}
  /\ UNCHANGED <<systemVars, http, grpc, probe, probed, control>>

-----------------------------------------------------------------------------
(* The handlers, on this server. *)

Arrive(h) == grpc = "accepting" /\ Receive(h) /\ UNCHANGED <<readerVars, serverVars>>

Handle(h) ==
  \/ SharedStep(h) /\ (pc[h] = "begin" => Room) /\ UNCHANGED serverVars
  \/ pc[h] = "begin" /\ AcquireFails /\ Fail(h, "Internal") /\ UNCHANGED <<readerVars, serverVars>>

ArriveRead(r) == grpc = "accepting" /\ Ask(r) /\ UNCHANGED serverVars

HandleRead(r) ==
  \/ ReadStep(r) /\ (at[r] = "begin" => Room) /\ UNCHANGED serverVars
  \/ /\ at[r] = "begin" /\ AcquireFails
     /\ Finish(r, [code |-> "Internal"])
     /\ UNCHANGED <<vars, query, stream, history, serverVars>>

ClientRead(r) == (Client(r) \/ HangUp(r)) /\ UNCHANGED serverVars

StartUp ==
  LoadConfig \/ connect_db \/ run_migrations \/ rehydrate \/ bind_http \/ bind_grpc \/ StartFails

Drain == JoinHttp \/ JoinGrpc \/ DrainTimeout \/ PoolClose \/ Exit

ServerNext ==
  \/ StartUp \/ Signal \/ Drain \/ Kill
  \/ NoticeHttp \/ NoticeGrpc \/ EndHttp \/ EndGrpc \/ HttpFails \/ GrpcFails
  \/ ready \/ ReadyQuery \/ CheckerLoop
  \/ \E h \in Requests : Arrive(h) \/ Handle(h)
  \/ \E r \in Readers : ArriveRead(r) \/ HandleRead(r) \/ ClientRead(r)

ServerSpec == ServerInit /\ [][ServerNext]_allVars

\* Tasks and main are polled, statements end and timers fire.  Nothing is assumed
\* of clients, probes, signals or whoever starts the process.
ServerFairness ==
  /\ WF_allVars(Drain)
  /\ WF_allVars(NoticeHttp \/ EndHttp)
  /\ WF_allVars(NoticeGrpc \/ EndGrpc)
  /\ WF_allVars(ReadyQuery)
  /\ WF_allVars(CheckerLoop)
  /\ \A h \in Requests : WF_allVars(Handle(h))
  /\ \A r \in Readers : WF_allVars(HandleRead(r))

FairServerSpec == ServerSpec /\ ServerFairness

-----------------------------------------------------------------------------
\* A graceful drain loses nothing: when drain() gets to close the pool without
\* having timed out, every request the gRPC server accepted has been answered
\* and every stream has ended, unless its task failed: drain() then closes the
\* pool at once, although requests may still be under way.
GracefulDrain ==
  phase \in {"closing", "closed"} /\ ~timedOut /\ grpc # "failed" => Served

\* Even a shutdown that was cut short, or that found a server's task dead, ends no
\* handler inside its database transaction: when main returns, every connection is back and, the pool being
\* closed, none can be taken again, so each request was either committed or
\* refused by the server and none is left to the rollback of a lost connection.
NoTransactionIsCut ==
  phase = "closed" => /\ \A h \in Requests : pc[h] \notin Connected
                      /\ \A r \in Readers : ~ReaderHolds(r)
                      /\ checker # "query" /\ probe # "query"

\* An OK of /ready can be trusted: it goes only to a probe that arrived between
\* the binding of both listeners and the shutdown signal, and not once the pool is
\* closed for good.  When it is given the gRPC server accepts, unless the signal
\* came while the probe waited for the database, or the gRPC task has failed, of
\* which /ready knows nothing.
ReadyMeansServing ==
  [][probe = "query" /\ probe' = "ok" =>
       /\ probed = "serving"
       /\ phase # "closed"
       /\ grpc = "accepting" \/ shutdown \/ grpc = "failed"]_allVars

\* Every shutdown comes to its end, whatever clients do: one that stops reading its
\* stream delays the drain only until the timeout.
ShutdownCompletes == shutdown ~> phase = "down"
=============================================================================
