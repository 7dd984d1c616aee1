------------------------------- MODULE MCPgStore -------------------------------
(* Two processes of one thread each over any database.                     *)
EXTENDS PgStore, TLC

CONSTANTS service, script, t1, t2, m1, m2

MCProcesses == {service, script}
MCThreads == {t1, t2}
MCProcess == (t1 :> service) @@ (t2 :> script)
MCModels == {m1, m2}
=============================================================================
