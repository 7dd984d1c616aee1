------------------------------ MODULE LanceStore ------------------------------
(***************************************************************************)
(* The LanceDB backend of src/src/vector_store.py: how a process opens its *)
(* table, caches the handle, and what its reads and writes then act on.    *)
(*                                                                         *)
(* A process keeps one LanceDBVectorStore, and its request threads run the *)
(* operations on it without a lock, so they interleave between any two     *)
(* accesses to the cached _db and _table.  Several processes (workers,     *)
(* corpus scripts) share the directory.  A Table object pins the version   *)
(* of the table it was opened or last refreshed at; a thread opens at most *)
(* one object in the life of its process, so an object is named by the     *)
(* thread that opened it.                                                  *)
(*                                                                         *)
(* LanceDB itself is external: opening, creating, refreshing and           *)
(* committing are one atomic step each, a write commits on top of the      *)
(* latest version, and creating a table that exists raises.  What is kept  *)
(* of a version is the set of embedding models its vectors came from.      *)
(***************************************************************************)
EXTENDS Integers, Sequences, Store

CONSTANTS
    MaxVersions     \* bound: committed versions of the table

ASSUME BoundAssumption == MaxVersions \in Nat

VARIABLES
    versions,   \* the directory: contents of every version of the table
    stamp,      \* embedding_model_name in the table's schema metadata
    connected,  \* _db: has the process a connection?
    table,      \* _table: the object the process caches, or None
    pinned,     \* the version each object pins
    local,      \* the object _open_table returned to the thread
    result,     \* how its last operation ended: done (in success or with an
                \* error it reports), absent or crashed
    since,      \* history: number of versions when the operation began
    racing,     \* history: did another thread of the process open the
                \* table during the search?
    stale,      \* history: did the search's own refresh of the handle fail?
    unasserted  \* history: models other than the stamped one with which a
                \* process opened the table, nothing having compared them

vars == <<versions, stamp, model, connected, table, pinned, pc, op, local,
          result, since, racing, stale, unasserted>>

disk == <<versions, stamp, unasserted>>

Latest == Len(versions)

Exists == versions # <<>>

Siblings(t) == { u \in Threads \ {t} : Process[u] = Process[t] }

Opening(t) == pc[t] \in {"connect", "list", "open", "create", "publish"}

-----------------------------------------------------------------------------
Goto(t, step) ==
    /\ pc' = [pc EXCEPT ![t] = step]
    /\ UNCHANGED <<op, result, since, racing, stale>>

Return(t, outcome) ==
    /\ pc' = [pc EXCEPT ![t] = "idle"]
    /\ result' = [result EXCEPT ![t] = outcome]
    /\ local' = [local EXCEPT ![t] = None]
    /\ op' = [op EXCEPT ![t] = None]
    /\ since' = [since EXCEPT ![t] = 0]
    /\ racing' = [racing EXCEPT ![t] = FALSE]
    /\ stale' = [stale EXCEPT ![t] = FALSE]

Begin(t, o) ==
    /\ pc[t] = "idle"
    /\ op' = [op EXCEPT ![t] = o]
    /\ result' = [result EXCEPT ![t] = "done"]
    /\ since' = [since EXCEPT ![t] = Latest]
    /\ LET opens == table[Process[t]] = None IN
       /\ pc' = [pc EXCEPT ![t] = IF opens THEN "connect" ELSE "refresh"]
       /\ racing' = [u \in Threads |->
            IF u = t
            THEN o = "search" /\ \E v \in Siblings(t) : Opening(v)
            ELSE racing[u] \/ (opens /\ u \in Siblings(t) /\ op[u] = "search")]
    /\ UNCHANGED <<disk, model, connected, table, pinned, local, stale>>

\* Fault: the handle is cached without asking for the latest version.
Refresh_Never(t) ==
    /\ pc[t] = "refresh"
    /\ Goto(t, "take")
    /\ UNCHANGED <<disk, model, connected, table, pinned, local>>

\* checkout_latest on the cached object.
Refresh(t) ==
    /\ pc[t] = "refresh"
    /\ pinned' = [pinned EXCEPT ![table[Process[t]]] = Latest]
    /\ Goto(t, "take")
    /\ UNCHANGED <<disk, model, connected, table, local>>

\* Whatever checkout_latest raises is suppressed; the handle stays as it is.
RefreshFails(t) ==
    /\ pc[t] = "refresh"
    /\ pc' = [pc EXCEPT ![t] = "take"]
    /\ stale' = [stale EXCEPT ![t] = op[t] = "search"]
    /\ UNCHANGED <<disk, model, connected, table, pinned, local, op, result,
                   since, racing>>

\* The attribute is read again: it may name another object by now.
Take(t) ==
    /\ pc[t] = "take"
    /\ local' = [local EXCEPT ![t] = table[Process[t]]]
    /\ Goto(t, "use")
    /\ UNCHANGED <<disk, model, connected, table, pinned>>

Connect(t) ==
    /\ pc[t] = "connect"
    /\ connected' = [connected EXCEPT ![Process[t]] = TRUE]
    /\ Goto(t, "list")
    /\ UNCHANGED <<disk, model, table, pinned, local>>

\* Reads and deletes take a VectorStoreError for a store nobody ingested into.
Swallowed(t) == IF op[t] = "upsert" THEN "done" ELSE "absent"

ConnectFails(t) ==
    /\ pc[t] = "connect"
    /\ ~connected[Process[t]]
    /\ Return(t, Swallowed(t))
    /\ UNCHANGED <<disk, model, connected, table, pinned>>

\* Fault: an upsert does not look whether the table exists.
List_UpsertCreates(t) ==
    /\ pc[t] = "list"
    /\ IF op[t] = "upsert" THEN Goto(t, "create") /\ UNCHANGED local
       ELSE IF Exists THEN Goto(t, "open") /\ UNCHANGED local
       ELSE Return(t, "absent")
    /\ UNCHANGED <<disk, model, connected, table, pinned>>

\* Only an upsert creates the table.
List(t) ==
    /\ pc[t] = "list"
    /\ IF Exists THEN Goto(t, "open") /\ UNCHANGED local
       ELSE IF op[t] = "upsert" THEN Goto(t, "create") /\ UNCHANGED local
       ELSE Return(t, "absent")
    /\ UNCHANGED <<disk, model, connected, table, pinned>>

\* Fault: the model is not asserted.
OpenTable_Unchecked(t) ==
    /\ pc[t] = "open"
    /\ pinned' = [pinned EXCEPT ![t] = Latest]
    /\ Goto(t, "publish")
    /\ UNCHANGED <<disk, model, connected, table, local>>

\* open_table, then _assert_metadata.
OpenTable(t) ==
    /\ pc[t] = "open"
    /\ IF stamp = ModelOf(t)
       THEN /\ pinned' = [pinned EXCEPT ![t] = Latest]
            /\ Goto(t, "publish")
            /\ UNCHANGED local
       ELSE Return(t, "done") /\ UNCHANGED pinned
    /\ UNCHANGED <<disk, model, connected, table>>

\* A schema that cannot be read, or has no stamp in it, is not compared.
OpenUnasserted(t) ==
    /\ pc[t] = "open"
    /\ pinned' = [pinned EXCEPT ![t] = Latest]
    /\ unasserted' = unasserted \cup ({ModelOf(t)} \ {stamp})
    /\ Goto(t, "publish")
    /\ UNCHANGED <<versions, stamp, model, connected, table, local>>

\* create_table; another thread or process may have been first.
CreateTable(t) ==
    /\ pc[t] = "create"
    /\ IF Exists
       THEN Return(t, "crashed") /\ UNCHANGED <<versions, stamp, pinned>>
       ELSE /\ versions' = << {} >>
            /\ stamp' = ModelOf(t)
            /\ pinned' = [pinned EXCEPT ![t] = 1]
            /\ Goto(t, "publish")
            /\ UNCHANGED local
    /\ UNCHANGED <<unasserted, model, connected, table>>

Publish(t) ==
    /\ pc[t] = "publish"
    /\ table' = [table EXCEPT ![Process[t]] = t]
    /\ local' = [local EXCEPT ![t] = t]
    /\ Goto(t, "use")
    /\ UNCHANGED <<disk, model, connected, pinned>>

-----------------------------------------------------------------------------
\* What a search through the thread's object finds.
Visible(t) == versions[pinned[local[t]]]

Search(t) ==
    /\ pc[t] = "use"
    /\ op[t] = "search"
    /\ Return(t, "done")
    /\ UNCHANGED <<disk, model, connected, table, pinned>>

Commit(t, contents) ==
    /\ Latest < MaxVersions
    /\ versions' = Append(versions, contents)
    /\ pinned' = [pinned EXCEPT ![local[t]] = Latest + 1]
    /\ Return(t, "done")
    /\ UNCHANGED <<stamp, unasserted, model, connected, table>>

Upsert(t) ==
    /\ pc[t] = "use"
    /\ op[t] = "upsert"
    /\ Commit(t, versions[Latest] \cup {ModelOf(t)})

\* delete_by_source may remove all rows of a model or leave some.
Delete(t) ==
    /\ pc[t] = "use"
    /\ op[t] = "delete"
    /\ \E left \in {{}, versions[Latest]} : Commit(t, left)

\* LanceDB raises: a list, an open, a search or a commit fails.
Fail(t) ==
    /\ pc[t] \in {"list", "open", "create", "use"}
    /\ Return(t, "done")
    /\ UNCHANGED <<disk, model, connected, table, pinned>>

Forget(p, f, initial) ==
    [t \in Threads |-> IF Process[t] = p THEN initial ELSE f[t]]

\* A process dies, or is stopped and started with another configuration.
Restart(p, m) ==
    /\ model' = [model EXCEPT ![p] = m]
    /\ connected' = [connected EXCEPT ![p] = FALSE]
    /\ table' = [table EXCEPT ![p] = None]
    /\ pinned' = Forget(p, pinned, 0)
    /\ pc' = Forget(p, pc, "idle")
    /\ op' = Forget(p, op, None)
    /\ local' = Forget(p, local, None)
    /\ result' = Forget(p, result, "done")
    /\ since' = Forget(p, since, 0)
    /\ racing' = Forget(p, racing, FALSE)
    /\ stale' = Forget(p, stale, FALSE)
    /\ UNCHANGED disk

-----------------------------------------------------------------------------
Init ==
    /\ versions = <<>>
    /\ stamp = None
    /\ model \in [Processes -> Models]
    /\ connected = [p \in Processes |-> FALSE]
    /\ table = [p \in Processes |-> None]
    /\ pinned = [t \in Threads |-> 0]
    /\ pc = [t \in Threads |-> "idle"]
    /\ op = [t \in Threads |-> None]
    /\ local = [t \in Threads |-> None]
    /\ result = [t \in Threads |-> "done"]
    /\ since = [t \in Threads |-> 0]
    /\ racing = [t \in Threads |-> FALSE]
    /\ stale = [t \in Threads |-> FALSE]
    /\ unasserted = {}

Step(t) ==
    \/ \E o \in Operations : Begin(t, o)
    \/ Refresh(t) \/ RefreshFails(t) \/ Take(t)
    \/ Connect(t) \/ ConnectFails(t)
    \/ List(t) \/ OpenTable(t) \/ OpenUnasserted(t) \/ CreateTable(t) \/ Publish(t)
    \/ Search(t) \/ Upsert(t) \/ Delete(t)
    \/ Fail(t)

Next ==
    \/ \E t \in Threads : Step(t)
    \/ \E p \in Processes, m \in Models : Restart(p, m)

Spec == Init /\ [][Next]_vars

-----------------------------------------------------------------------------
(* Properties.                                                             *)

Steps == {"idle", "refresh", "take", "connect", "list", "open", "create",
          "publish", "use"}

Outcomes == {"done", "absent", "crashed"}

\* Every variable has its type, and an operation on the table has an object
\* that pins a version.
TypeOK ==
    /\ versions \in Seq(SUBSET Models)
    /\ stamp \in Models \cup {None}
    /\ Exists <=> stamp # None
    /\ model \in [Processes -> Models]
    /\ connected \in [Processes -> BOOLEAN]
    /\ table \in [Processes -> Threads \cup {None}]
    /\ pinned \in [Threads -> 0..Latest]
    /\ pc \in [Threads -> Steps]
    /\ op \in [Threads -> Operations \cup {None}]
    /\ local \in [Threads -> Threads \cup {None}]
    /\ result \in [Threads -> Outcomes]
    /\ since \in [Threads -> 0..Latest]
    /\ racing \in [Threads -> BOOLEAN]
    /\ stale \in [Threads -> BOOLEAN]
    /\ unasserted \subseteq Models
    /\ \A t \in Threads :
        /\ pc[t] \in {"refresh", "take"} => table[Process[t]] # None
        /\ pc[t] = "use" => local[t] # None /\ pinned[local[t]] > 0

\* The models the table is known to have been opened with.
Accepted == IF Exists THEN {stamp} \cup unasserted ELSE {}

\* Whatever version a thread is about to work on, it compares its process's
\* vectors with those of the stamped model, and with another's only when nothing
\* compared that other model with the stamp: the assertion, made when a process
\* first opens the table and never on the cached handle, lets nothing else in.
ComparableOnly ==
    \A t \in Threads :
        pc[t] = "use" => Visible(t) \cup {ModelOf(t)} \subseteq Accepted

\* A search reads a version at least as new as the latest one when it began,
\* unless its own refresh failed, or another thread of its process was opening
\* the table meanwhile and replaced the refreshed handle by an older one.
ReadsAreFresh ==
    \A t \in Threads :
        pc[t] = "use" /\ op[t] = "search" /\ ~racing[t] /\ ~stale[t]
            => pinned[local[t]] >= since[t]

\* An operation that begins when the table exists finds it: it never answers as
\* before the first ingest, unless its process could not connect, and it never
\* crashes on creating a table, which only overlapping first upserts can.
ExistingTableIsFound ==
    [][\A t \in Threads : since[t] > 0 =>
        /\ result'[t] = "crashed" => result[t] = "crashed"
        /\ result'[t] = "absent" /\ result[t] # "absent"
              => ~connected[Process[t]]]_vars

Contents == IF Exists THEN versions[Latest] ELSE {}

Contract == INSTANCE ModelStore
                WITH Unasserted <- TRUE, stored <- Contents, accepted <- Accepted

\* The store keeps the promise of assert_model_matches as far as it is asked.
KeepsContract == Contract!Spec
=============================================================================
