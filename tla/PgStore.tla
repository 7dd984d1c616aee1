-------------------------------- MODULE PgStore --------------------------------
(***************************************************************************)
(* The Postgres backend, src/src/pgvector_store.py: connecting, setting up *)
(* the schema with its check of the embedding model, and what the          *)
(* operations then do.                                                     *)
(*                                                                         *)
(* A process keeps one PgVectorStore with one autocommit connection, and   *)
(* its request threads share both without a lock, so every statement is a  *)
(* step of its own.  The database is external: an upsert is one step, and  *)
(* register_vector raises where the vector type does not exist yet.  A     *)
(* thread works on the connection the attribute holds at that moment.      *)
(* What is kept of the table is the set of models its rows name.           *)
(***************************************************************************)
EXTENDS Integers, Store

VARIABLES
    extension,  \* does the database have the vector type?
    rows,       \* models named by the rows of the table
    conn,       \* _conn: "none" (or closed), "bare" or "registered"
    ready,      \* _ready
    accepted    \* history: the model of the rows found at first, and those that
                \* passed the check over an empty table

pgVars == <<extension, rows, model, conn, ready, accepted, pc, op>>

Connection(t) == conn[Process[t]]

-----------------------------------------------------------------------------
PgGoto(t, step) ==
    /\ pc' = [pc EXCEPT ![t] = step]
    /\ UNCHANGED op

PgReturn(t) ==
    /\ pc' = [pc EXCEPT ![t] = "idle"]
    /\ op' = [op EXCEPT ![t] = None]

PgBegin(t, o) ==
    /\ pc[t] = "idle"
    /\ pc' = [pc EXCEPT ![t] = IF Connection(t) = "none" THEN "connect" ELSE "ready"]
    /\ op' = [op EXCEPT ![t] = o]
    /\ UNCHANGED <<extension, rows, model, conn, ready, accepted>>

SetConn(t, kind) == conn' = [conn EXCEPT ![Process[t]] = kind]

\* psycopg.connect; the attribute holds the connection from here on.
PgConnect(t) ==
    /\ pc[t] = "connect"
    /\ SetConn(t, "bare")
    /\ PgGoto(t, "register")
    /\ UNCHANGED <<extension, rows, model, ready, accepted>>

\* register_vector needs the type, which only the schema step creates; an
\* exception leaves the connection in the attribute.
Register(t) ==
    /\ pc[t] = "register"
    /\ IF extension /\ Connection(t) # "none"
       THEN SetConn(t, "registered") /\ PgGoto(t, "ready")
       ELSE UNCHANGED conn /\ PgReturn(t)
    /\ UNCHANGED <<extension, rows, model, ready, accepted>>

AfterReady(t) == IF ready[Process[t]] THEN "use" ELSE "schema"

TestReady(t) ==
    /\ pc[t] = "ready"
    /\ PgGoto(t, AfterReady(t))
    /\ UNCHANGED <<extension, rows, model, conn, ready, accepted>>

CreateSchema(t) ==
    /\ pc[t] = "schema"
    /\ extension' = TRUE
    /\ PgGoto(t, "check")
    /\ UNCHANGED <<rows, model, conn, ready, accepted>>

SetReady(t) == ready' = [ready EXCEPT ![Process[t]] = TRUE]

\* Fault: the model the row names is not asserted.
CheckModel_Unchecked(t) ==
    /\ pc[t] = "check"
    /\ SetReady(t)
    /\ PgGoto(t, "use")
    /\ UNCHANGED <<extension, rows, model, conn, accepted>>

\* SELECT model_name ... LIMIT 1: any row, or none, which passes too.
CheckModel(t) ==
    /\ pc[t] = "check"
    /\ \/ /\ rows = {}
          /\ accepted' = accepted \cup {ModelOf(t)}
          /\ SetReady(t)
          /\ PgGoto(t, "use")
       \/ /\ ModelOf(t) \in rows
          /\ SetReady(t)
          /\ PgGoto(t, "use")
          /\ UNCHANGED accepted
       \/ /\ rows \ {ModelOf(t)} # {}
          /\ PgReturn(t)
          /\ UNCHANGED <<ready, accepted>>
    /\ UNCHANGED <<extension, rows, model, conn>>

-----------------------------------------------------------------------------
\* A statement that binds a vector fails on a connection without the adapter.
PgSearch(t) ==
    /\ pc[t] = "use"
    /\ op[t] = "search"
    /\ PgReturn(t)
    /\ UNCHANGED <<extension, rows, model, conn, ready, accepted>>

PgUpsert(t) ==
    /\ pc[t] = "use"
    /\ op[t] = "upsert"
    /\ rows' = IF Connection(t) = "registered" THEN rows \cup {ModelOf(t)} ELSE rows
    /\ PgReturn(t)
    /\ UNCHANGED <<extension, model, conn, ready, accepted>>

PgDelete(t) ==
    /\ pc[t] = "use"
    /\ op[t] = "delete"
    /\ Connection(t) # "none"
    /\ rows' \in SUBSET rows
    /\ PgReturn(t)
    /\ UNCHANGED <<extension, model, conn, ready, accepted>>

\* A statement raises, or psycopg.connect does.
PgFail(t) ==
    /\ pc[t] # "idle"
    /\ PgReturn(t)
    /\ UNCHANGED <<extension, rows, model, conn, ready, accepted>>

\* The server closes the connection; _ready stays.
Lose(p) ==
    /\ conn[p] # "none"
    /\ conn' = [conn EXCEPT ![p] = "none"]
    /\ UNCHANGED <<extension, rows, model, ready, accepted, pc, op>>

\* A process dies, or is stopped and started with another configuration.
PgRestart(p, m) ==
    /\ model' = [model EXCEPT ![p] = m]
    /\ conn' = [conn EXCEPT ![p] = "none"]
    /\ ready' = [ready EXCEPT ![p] = FALSE]
    /\ pc' = [t \in Threads |-> IF Process[t] = p THEN "idle" ELSE pc[t]]
    /\ op' = [t \in Threads |-> IF Process[t] = p THEN None ELSE op[t]]
    /\ UNCHANGED <<extension, rows, accepted>>

-----------------------------------------------------------------------------
\* The database may be new, empty or written to with one of the models.
PgInit ==
    /\ extension \in BOOLEAN
    /\ rows \in { {m} : m \in Models } \cup {{}}
    /\ rows # {} => extension
    /\ accepted = rows
    /\ model \in [Processes -> Models]
    /\ conn = [p \in Processes |-> "none"]
    /\ ready = [p \in Processes |-> FALSE]
    /\ pc = [t \in Threads |-> "idle"]
    /\ op = [t \in Threads |-> None]

PgStep(t) ==
    \/ \E o \in Operations : PgBegin(t, o)
    \/ PgConnect(t) \/ Register(t) \/ TestReady(t)
    \/ CreateSchema(t) \/ CheckModel(t)
    \/ PgSearch(t) \/ PgUpsert(t) \/ PgDelete(t)
    \/ PgFail(t)

PgNext ==
    \/ \E t \in Threads : PgStep(t)
    \/ \E p \in Processes : Lose(p) \/ \E m \in Models : PgRestart(p, m)

PgSpec == PgInit /\ [][PgNext]_pgVars

-----------------------------------------------------------------------------
(* Properties.                                                             *)

PgSteps == {"idle", "connect", "register", "ready", "schema", "check", "use"}

\* Every variable has its type, a process works on the table only after it has
\* passed the check, and the vector type is there once it is registered.
PgTypeOK ==
    /\ extension \in BOOLEAN
    /\ rows \subseteq Models
    /\ accepted \subseteq Models
    /\ model \in [Processes -> Models]
    /\ conn \in [Processes -> {"none", "bare", "registered"}]
    /\ ready \in [Processes -> BOOLEAN]
    /\ pc \in [Threads -> PgSteps]
    /\ op \in [Threads -> Operations \cup {None}]
    /\ rows # {} => extension
    /\ \A p \in Processes : conn[p] = "registered" => extension
    /\ \A t \in Threads : pc[t] = "use" => ready[Process[t]]

PgContract == INSTANCE ModelStore WITH Unasserted <- FALSE, stored <- rows

\* The store keeps the promise of assert_model_matches as far as one check per
\* process of one row can: vectors of two models meet only where one of the two
\* passed the check over an empty table.
PgKeepsContract == PgContract!Spec
=============================================================================
