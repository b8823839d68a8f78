------------------------------ MODULE MCServer ------------------------------
(***************************************************************************)
(* A server with one request and one query for TLC.                        *)
(***************************************************************************)
EXTENDS MCLedger, Server

Get(op, a) == [op |-> op, account_id |-> a]

ServerCalls == {Settle("Capture", "hold")}

ServerQueries == {Get("GetEntries", 1)}

Invoke(cmd, variables) ==
  [command |-> cmd, path_given |-> FALSE, file_found |-> FALSE, file |-> Empty,
   variables |-> variables, database_url |-> [url |-> "postgres"]]

\* A pool of one connection, set in the file or in the environment, a file that is
\* missing, two equal ports, and a migration on its own.
SmallInvocations ==
  {Invoke("serve --run-migrations", [max_connections |-> 1]),
   [Invoke("serve", Empty) EXCEPT !.file_found = TRUE, !.file = [max_connections |-> 1]],
   [Invoke("serve", Empty) EXCEPT !.path_given = TRUE],
   [Invoke("serve", [http_port |-> 9090]) EXCEPT !.file_found = TRUE, !.file = [grpc_port |-> 9090]],
   Invoke("migrate", Empty)}
=============================================================================
