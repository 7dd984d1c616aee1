-------------------------------- MODULE Store ----------------------------------
(***************************************************************************)
(* What the two backends of src/src/vector_store.py have in common: a      *)
(* process is configured with one embedding model and keeps one store,     *)
(* whose operations its request threads run without a lock.                *)
(***************************************************************************)

CONSTANTS
    Processes,
    Threads,    \* request threads of all processes
    Process,    \* [Threads -> Processes]
    Models,     \* embedding models a process may be configured with
    None

ASSUME ProcessAssumption == Process \in [Threads -> Processes]

Operations == {"search", "upsert", "delete"}

ASSUME NoneAssumption ==
    None \notin Threads /\ None \notin Models /\ None \notin Operations

VARIABLES
    model,      \* the model each process is configured with
    pc,         \* the step each thread is about to take
    op          \* the operation the thread is in, or None

ModelOf(t) == model[Process[t]]
===============================================================================
