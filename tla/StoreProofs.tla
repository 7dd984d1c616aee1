------------------------------- MODULE StoreProofs -----------------------------
(***************************************************************************)
(* Proofs about the two backends, LanceStore and PgStore, for all sets of  *)
(* processes, threads and models.                                          *)
(***************************************************************************)
EXTENDS LanceStore, PgStore, TLAPS

-----------------------------------------------------------------------------
(* Type correctness.  A cached or published object pins a version, and     *)
(* objects do not cross processes: that is what survives a restart.        *)

\* What the objects a process holds are.
ObjectInv ==
    /\ \A p \in Processes :
        table[p] # None => Process[table[p]] = p /\ pinned[table[p]] > 0
    /\ \A t \in Threads : pc[t] = "publish" => pinned[t] > 0
    /\ \A t \in Threads : pc[t] = "use" => Process[local[t]] = Process[t]
    /\ \A t \in Threads : pc[t] = "open" => Exists

\* A return keeps the types of what it resets.
LEMMA ReturnTypes ==
    ASSUME TypeOK, NEW t \in Threads, NEW o \in Outcomes, Return(t, o)
    PROVE  /\ pc' \in [Threads -> Steps]
           /\ op' \in [Threads -> Operations \cup {None}]
           /\ local' \in [Threads -> Threads \cup {None}]
           /\ result' \in [Threads -> Outcomes]
           /\ since' \in [Threads -> 0..Latest]
           /\ racing' \in [Threads -> BOOLEAN]
           /\ stale' \in [Threads -> BOOLEAN]
           /\ pc'[t] = "idle"
           /\ \A u \in Threads \ {t} : pc'[u] = pc[u] /\ local'[u] = local[u]
<1>1. Latest \in Nat
  BY DEF TypeOK, Latest
<1>2. QED
  BY <1>1 DEF Return, TypeOK, Steps

\* A return that leaves store and objects alone keeps the types.
LEMMA QuietReturn ==
    ASSUME TypeOK, ObjectInv, NEW t \in Threads, NEW o \in Outcomes, Return(t, o),
           UNCHANGED <<disk, model, connected, table, pinned>>
    PROVE  TypeOK' /\ ObjectInv'
<1>1. Latest' = Latest /\ (Exists' <=> Exists)
  BY DEF disk, Latest, Exists
<1>2. TypeOK'
  BY <1>1, ReturnTypes DEF TypeOK, disk
<1>3. ObjectInv'
  BY <1>1, ReturnTypes DEF TypeOK, ObjectInv
<1>4. QED
  BY <1>2, <1>3

\* A step that moves one thread and leaves everything else alone keeps them
\* where the step it moves to asks for nothing.
LEMMA QuietGoto ==
    ASSUME TypeOK, ObjectInv, NEW t \in Threads,
           NEW step \in {"list", "open", "create"}, Goto(t, step),
           step = "open" => Exists,
           UNCHANGED <<disk, model, table, pinned, local>>,
           connected' \in [Processes -> BOOLEAN]
    PROVE  TypeOK' /\ ObjectInv'
<1>1. Latest' = Latest /\ (Exists' <=> Exists)
  BY DEF disk, Latest, Exists
<1>2. TypeOK'
  BY <1>1 DEF Goto, TypeOK, Steps, disk
<1>3. ObjectInv'
  BY <1>1 DEF Goto, TypeOK, ObjectInv
<1>4. QED
  BY <1>2, <1>3

\* A write adds a version, which the writer's object pins.
LEMMA CommitTypes ==
    ASSUME TypeOK, ObjectInv, NEW t \in Threads, pc[t] = "use",
           NEW contents \in SUBSET Models, Commit(t, contents)
    PROVE  TypeOK' /\ ObjectInv'
<1>1. Latest \in Nat /\ Latest' = Latest + 1 /\ versions' \in Seq(SUBSET Models)
  BY DEF TypeOK, Latest, Commit
<1>2. Exists' /\ Exists /\ local[t] \in Threads
  <2>1. local[t] \in Threads /\ pinned[local[t]] > 0 /\ pinned[local[t]] \in 0..Latest
    BY DEF TypeOK
  <2>2. Latest > 0
    BY <1>1, <2>1
  <2>3. QED
    BY <1>1, <2>1, <2>2 DEF Exists, Latest, TypeOK
<1>3. pinned' \in [Threads -> 0..Latest']
  BY <1>1, <1>2 DEF Commit, TypeOK
<1>4. \A u \in Threads : pinned'[u] >= pinned[u]
  BY <1>1, <1>2 DEF Commit, TypeOK
<1>5. "done" \in Outcomes /\ Return(t, "done")
  BY DEF Outcomes, Commit
<1>6. since' \in [Threads -> 0..Latest']
  BY <1>1, <1>5, ReturnTypes DEF TypeOK
<1>7. \A u \in Threads : pc'[u] = "use" => local'[u] # None /\ pinned'[local'[u]] > 0
  <2>1. SUFFICES ASSUME NEW u \in Threads, pc'[u] = "use"
                 PROVE  local'[u] # None /\ pinned'[local'[u]] > 0
    OBVIOUS
  <2>2. u # t /\ pc[u] = "use" /\ local'[u] = local[u]
    BY <1>5, <2>1, ReturnTypes
  <2>3. local[u] \in Threads /\ pinned[local[u]] > 0
    BY <2>2 DEF TypeOK
  <2>4. pinned[local[u]] \in Nat /\ pinned'[local[u]] \in Nat
    BY <1>1, <1>3, <2>3 DEF TypeOK
  <2>5. QED
    BY <1>4, <2>2, <2>3, <2>4, NoneAssumption
<1>8. TypeOK'
  BY <1>1, <1>2, <1>3, <1>5, <1>6, <1>7, ReturnTypes DEF TypeOK, Commit
<1>9. ObjectInv'
  <2>1. ASSUME NEW p \in Processes, table'[p] # None
        PROVE  Process[table'[p]] = p /\ pinned'[table'[p]] > 0
    <3>1. table[p] \in Threads /\ table' = table
      BY <2>1 DEF TypeOK, Commit
    <3>2. pinned[table[p]] \in Nat /\ pinned'[table[p]] \in Nat
      BY <1>1, <1>3, <3>1 DEF TypeOK
    <3>3. QED
      BY <1>4, <2>1, <3>1, <3>2 DEF ObjectInv
  <2>2. ASSUME NEW u \in Threads, pc'[u] = "publish" PROVE pinned'[u] > 0
    <3>1. pc[u] = "publish"
      BY <1>5, <2>2, ReturnTypes
    <3>2. pinned[u] \in Nat /\ pinned'[u] \in Nat /\ pinned[u] > 0
      BY <1>1, <1>3, <3>1 DEF TypeOK, ObjectInv
    <3>3. QED
      BY <1>4, <3>2
  <2>3. \A u \in Threads : pc'[u] = "use" => Process[local'[u]] = Process[u]
    BY <1>5, ReturnTypes DEF ObjectInv
  <2>4. QED
    BY <1>2, <2>1, <2>2, <2>3 DEF ObjectInv
<1>10. QED
  BY <1>8, <1>9

\* Beginning an operation keeps the types.
LEMMA BeginTypes ==
    ASSUME TypeOK, ObjectInv, NEW t \in Threads, NEW o \in Operations, Begin(t, o)
    PROVE  TypeOK' /\ ObjectInv'
<1>1. Latest \in 0..Latest /\ Latest' = Latest
  BY DEF TypeOK, Begin, disk, Latest
<1>2. since' \in [Threads -> 0..Latest']
  BY <1>1 DEF Begin, TypeOK
<1>3. racing' \in [Threads -> BOOLEAN]
  BY DEF Begin, TypeOK
<1>4. \A u \in Threads :
        pc'[u] \in {"refresh", "take"} => table'[Process[u]] # None
  BY ProcessAssumption DEF Begin, TypeOK
<1>5. pc' \in [Threads -> Steps] /\ op' \in [Threads -> Operations \cup {None}]
  BY DEF Begin, TypeOK, Steps
<1>6. TypeOK'
  BY <1>1, <1>2, <1>3, <1>4, <1>5 DEF Begin, TypeOK, disk, Exists, Outcomes
<1>7. ObjectInv'
  BY <1>1 DEF Begin, TypeOK, ObjectInv, Exists, disk
<1>8. QED
  BY <1>6, <1>7

\* Refreshing, taking and publishing a handle keep the types.
LEMMA HandleTypes ==
    ASSUME TypeOK, ObjectInv, NEW t \in Threads,
           Refresh(t) \/ RefreshFails(t) \/ Take(t) \/ Publish(t)
    PROVE  TypeOK' /\ ObjectInv'
<1>0. Process[t] \in Processes
  BY ProcessAssumption
<1>1. Latest \in Nat /\ Latest' = Latest /\ (Exists' <=> Exists)
  BY DEF TypeOK, Refresh, RefreshFails, Take, Publish, disk, Latest, Exists
<1>2. CASE Refresh(t)
  <2>1. table[Process[t]] \in Threads /\ pinned[table[Process[t]]] > 0
    <3>1. pc[t] = "refresh"
      BY <1>2 DEF Refresh
    <3>2. QED
      BY <1>0, <3>1 DEF TypeOK, ObjectInv
  <2>2. Latest > 0
    BY <1>1, <2>1 DEF TypeOK
  <2>3. pinned' \in [Threads -> 0..Latest]
    BY <1>1, <1>2, <2>1 DEF Refresh, TypeOK
  <2>4. \A u \in Threads : pinned[u] > 0 => pinned'[u] > 0
    BY <1>2, <2>2 DEF Refresh, TypeOK
  <2>5. TypeOK'
    BY <1>1, <1>2, <2>1, <2>3, <2>4 DEF Refresh, Goto, TypeOK, Steps, disk
  <2>6. ObjectInv'
    BY <1>1, <1>2, <2>4 DEF Refresh, Goto, TypeOK, ObjectInv
  <2>7. QED
    BY <2>5, <2>6
<1>3. CASE Take(t)
  <2>1. /\ table[Process[t]] \in Threads /\ pinned[table[Process[t]]] > 0
        /\ Process[table[Process[t]]] = Process[t]
    <3>1. pc[t] = "take"
      BY <1>3 DEF Take
    <3>2. QED
      BY <1>0, <3>1 DEF TypeOK, ObjectInv
  <2>2. local' = [local EXCEPT ![t] = table[Process[t]]] /\ pc' = [pc EXCEPT ![t] = "use"]
    BY <1>3 DEF Take, Goto
  <2>3. \A u \in Threads :
          pc'[u] = "use" => local'[u] # None /\ pinned'[local'[u]] > 0
    BY <1>3, <2>1, <2>2, NoneAssumption DEF Take, TypeOK
  <2>4. TypeOK'
    <3>1. /\ local' \in [Threads -> Threads \cup {None}]
          /\ pc' \in [Threads -> Steps]
      BY <2>1, <2>2 DEF TypeOK, Steps
    <3>2. \A u \in Threads :
            pc'[u] \in {"refresh", "take"} => table'[Process[u]] # None
      BY <1>3, <2>2 DEF Take, TypeOK
    <3>3. QED
      BY <1>1, <1>3, <2>3, <3>1, <3>2 DEF Take, Goto, TypeOK, disk
  <2>5. ObjectInv'
    BY <1>1, <1>3, <2>1, <2>2 DEF Take, Goto, TypeOK, ObjectInv
  <2>6. QED
    BY <2>4, <2>5
<1>4. CASE Publish(t)
  <2>1. pinned[t] > 0 /\ t # None
    BY <1>4, NoneAssumption DEF Publish, ObjectInv
  <2>2. TypeOK'
    <3>1. \A u \in Threads :
            /\ pc'[u] \in {"refresh", "take"} => table'[Process[u]] # None
            /\ pc'[u] = "use" => local'[u] # None /\ pinned'[local'[u]] > 0
      BY <1>0, <1>4, <2>1 DEF Publish, Goto, TypeOK
    <3>2. /\ local' \in [Threads -> Threads \cup {None}]
          /\ pc' \in [Threads -> Steps]
          /\ table' \in [Processes -> Threads \cup {None}]
      BY <1>4 DEF Publish, Goto, TypeOK, Steps
    <3>3. QED
      BY <1>1, <1>4, <3>1, <3>2 DEF Publish, Goto, TypeOK, disk
  <2>3. ObjectInv'
    BY <1>1, <1>4, <2>1, ProcessAssumption DEF Publish, Goto, TypeOK, ObjectInv
  <2>4. QED
    BY <2>2, <2>3
<1>5. CASE RefreshFails(t)
  <2>1. pc' = [pc EXCEPT ![t] = "take"] /\ pc[t] = "refresh"
        /\ UNCHANGED <<versions, table, pinned, local>>
    BY <1>5 DEF RefreshFails, disk
  <2>2. pc' \in [Threads -> Steps] /\ stale' \in [Threads -> BOOLEAN]
    BY <1>5, <2>1 DEF RefreshFails, TypeOK, Steps
  <2>3. TypeOK'
    BY <1>1, <1>5, <2>1, <2>2 DEF RefreshFails, TypeOK, disk
  <2>4. ObjectInv'
    BY <1>1, <2>1 DEF TypeOK, ObjectInv
  <2>5. QED
    BY <2>3, <2>4
<1>6. QED
  BY <1>2, <1>3, <1>4, <1>5

\* Opening the table, compared with the stamp or not, keeps the types.
LEMMA OpenTypes ==
    ASSUME TypeOK, ObjectInv, NEW t \in Threads, OpenTable(t) \/ OpenUnasserted(t),
           Exists
    PROVE  TypeOK' /\ ObjectInv'
<1>1. Latest \in Nat /\ Latest > 0 /\ Latest' = Latest /\ Exists'
  BY DEF TypeOK, OpenTable, OpenUnasserted, disk, Latest, Exists
<1>2. pinned' \in [Threads -> 0..Latest]
      /\ \A u \in Threads : pinned[u] > 0 => pinned'[u] > 0
  <2>1. pinned' \in { pinned, [pinned EXCEPT ![t] = Latest] }
    BY DEF OpenTable, OpenUnasserted
  <2>2. pinned \in [Threads -> 0..Latest] /\ Latest \in 0..Latest
    BY <1>1 DEF TypeOK
  <2>3. QED
    BY <1>1, <2>1, <2>2
<1>3. /\ UNCHANGED <<versions, stamp, model, connected, table>>
      /\ unasserted' \subseteq Models
  BY ProcessAssumption DEF OpenTable, OpenUnasserted, TypeOK, disk, ModelOf
<1>4. \A p \in Processes :
        table'[p] # None => Process[table'[p]] = p /\ pinned'[table'[p]] > 0
  BY <1>2, <1>3 DEF TypeOK, ObjectInv
<1>5. \/ Goto(t, "publish") /\ UNCHANGED local /\ pinned'[t] = Latest
      \/ Return(t, "done")
  BY DEF OpenTable, OpenUnasserted, TypeOK
<1>6. CASE Goto(t, "publish") /\ UNCHANGED local /\ pinned'[t] = Latest
  <2>1. TypeOK'
    BY <1>1, <1>2, <1>6, <1>3 DEF Goto, TypeOK, Steps
  <2>2. \A u \in Threads : pc'[u] = IF u = t THEN "publish" ELSE pc[u]
    BY <1>6 DEF Goto, TypeOK
  <2>3. \A u \in Threads : pc'[u] = "publish" => pinned'[u] > 0
    BY <1>1, <1>2, <1>6, <2>2 DEF ObjectInv
  <2>4. \A u \in Threads : pc'[u] = "use" => Process[local'[u]] = Process[u]
    BY <1>6, <2>2 DEF ObjectInv
  <2>5. QED
    BY <1>1, <1>4, <2>1, <2>3, <2>4 DEF ObjectInv
<1>7. CASE Return(t, "done")
  <2>1. "done" \in Outcomes
    BY DEF Outcomes
  <2>2. TypeOK'
    <3>1. UNCHANGED <<versions, stamp, model, connected, table>>
      BY <1>3
    <3>2. since' \in [Threads -> 0..Latest']
      BY <1>1, <1>7, <2>1, ReturnTypes
    <3>3. \A u \in Threads :
            /\ pc'[u] \in {"refresh", "take"} => table'[Process[u]] # None
            /\ pc'[u] = "use" => local'[u] # None /\ pinned'[local'[u]] > 0
      BY <1>2, <1>7, <2>1, <3>1, ReturnTypes, NoneAssumption DEF TypeOK
    <3>4. QED
      BY <1>1, <1>2, <1>7, <1>3, <2>1, <3>1, <3>2, <3>3, ReturnTypes DEF TypeOK
  <2>3. \A u \in Threads : pc'[u] = "publish" => pinned'[u] > 0
    BY <1>2, <1>7, <2>1, ReturnTypes DEF ObjectInv
  <2>4. \A u \in Threads : pc'[u] = "use" => Process[local'[u]] = Process[u]
    BY <1>7, <2>1, ReturnTypes DEF ObjectInv
  <2>5. QED
    BY <1>1, <1>4, <2>2, <2>3, <2>4 DEF ObjectInv
<1>8. QED
  BY <1>6, <1>7, <1>5

\* Creating the table keeps the types.
LEMMA CreateTypes ==
    ASSUME TypeOK, ObjectInv, NEW t \in Threads, CreateTable(t)
    PROVE  TypeOK' /\ ObjectInv'
<1>1. CASE Exists
  <2>1. "crashed" \in Outcomes
    BY DEF Outcomes
  <2>2. QED
    BY <1>1, <2>1, QuietReturn DEF CreateTable, disk
<1>2. CASE ~Exists
  <2>0. versions = <<>> /\ versions' = << {} >> /\ stamp' = ModelOf(t)
    BY <1>2 DEF CreateTable, Exists
  <2>1. Latest = 0 /\ versions' \in Seq(SUBSET Models) /\ Latest' = 1 /\ Exists'
    <3>1. {} \in SUBSET Models
      OBVIOUS
    <3>2. << {} >> \in Seq(SUBSET Models) /\ Len(<< {} >>) = 1
      BY <3>1
    <3>3. << {} >> # <<>>
      OBVIOUS
    <3>4. QED
      BY <2>0, <3>2, <3>3 DEF Exists, Latest
  <2>2. stamp' \in Models /\ stamp' # None
    BY <2>0, ProcessAssumption, NoneAssumption DEF TypeOK, ModelOf
  <2>3. pinned' \in [Threads -> 0..Latest'] /\ pinned'[t] = 1
        /\ \A u \in Threads : pinned[u] > 0 => pinned'[u] > 0
    BY <1>2, <2>1 DEF CreateTable, TypeOK
  <2>4. since' \in [Threads -> 0..Latest']
    BY <1>2, <2>1 DEF CreateTable, Goto, TypeOK
  <2>5. TypeOK'
    BY <1>2, <2>1, <2>2, <2>3, <2>4 DEF CreateTable, Goto, TypeOK, Steps
  <2>6. ObjectInv'
    BY <1>2, <2>1, <2>3 DEF CreateTable, Goto, TypeOK, ObjectInv
  <2>7. QED
    BY <2>5, <2>6
<1>3. QED
  BY <1>1, <1>2

\* A restart keeps the types: it forgets no object of another process.
LEMMA RestartTypes ==
    ASSUME TypeOK, ObjectInv, NEW p \in Processes, NEW m \in Models, Restart(p, m)
    PROVE  TypeOK' /\ ObjectInv'
<1>1. Latest \in Nat /\ Latest' = Latest /\ (Exists' <=> Exists)
  BY DEF TypeOK, Restart, disk, Latest, Exists
<1>2. \A u \in Threads :
        IF Process[u] = p
        THEN pc'[u] = "idle"
        ELSE pc'[u] = pc[u] /\ local'[u] = local[u] /\ pinned'[u] = pinned[u]
  BY DEF Restart, Forget
<1>3. /\ pinned' \in [Threads -> 0..Latest] /\ since' \in [Threads -> 0..Latest]
      /\ pc' \in [Threads -> Steps] /\ op' \in [Threads -> Operations \cup {None}]
      /\ local' \in [Threads -> Threads \cup {None}]
      /\ result' \in [Threads -> Outcomes] /\ racing' \in [Threads -> BOOLEAN]
      /\ stale' \in [Threads -> BOOLEAN]
  <2>1. ASSUME NEW S, NEW f \in [Threads -> S], NEW i \in S
        PROVE  Forget(p, f, i) \in [Threads -> S]
    BY DEF Forget
  <2>2. pinned' \in [Threads -> 0..Latest] /\ since' \in [Threads -> 0..Latest]
    <3>1. 0 \in 0..Latest
      BY <1>1
    <3>2. QED
      BY <2>1, <3>1, Zenon DEF Restart, TypeOK
  <2>3. pc' \in [Threads -> Steps] /\ result' \in [Threads -> Outcomes]
    <3>1. "idle" \in Steps /\ "done" \in Outcomes
      BY DEF Steps, Outcomes
    <3>2. QED
      BY <2>1, <3>1, Zenon DEF Restart, TypeOK
  <2>4. /\ op' \in [Threads -> Operations \cup {None}]
        /\ local' \in [Threads -> Threads \cup {None}]
        /\ racing' \in [Threads -> BOOLEAN] /\ stale' \in [Threads -> BOOLEAN]
    BY <2>1, Zenon DEF Restart, TypeOK
  <2>5. QED
    BY <2>2, <2>3, <2>4
<1>4. /\ model' \in [Processes -> Models] /\ connected' \in [Processes -> BOOLEAN]
      /\ table' \in [Processes -> Threads \cup {None}]
      /\ \A q \in Processes \ {p} : table'[q] = table[q]
      /\ table'[p] = None
  BY DEF Restart, TypeOK
<1>5. \A u \in Threads :
        /\ pc'[u] \in {"refresh", "take"} => table'[Process[u]] # None
        /\ pc'[u] = "use" => /\ local'[u] # None /\ pinned'[local'[u]] > 0
                             /\ Process[local'[u]] = Process[u]
  <2>1. SUFFICES ASSUME NEW u \in Threads
                 PROVE  /\ pc'[u] \in {"refresh", "take"} => table'[Process[u]] # None
                        /\ pc'[u] = "use" =>
                             /\ local'[u] # None /\ pinned'[local'[u]] > 0
                             /\ Process[local'[u]] = Process[u]
    OBVIOUS
  <2>2. CASE Process[u] = p
    BY <1>2, <2>2
  <2>3. CASE Process[u] # p
    <3>1. pc'[u] \in {"refresh", "take"} => table'[Process[u]] # None
      BY <1>2, <1>4, <2>3, ProcessAssumption DEF TypeOK
    <3>2. ASSUME pc'[u] = "use"
          PROVE  /\ local'[u] # None /\ pinned'[local'[u]] > 0
                 /\ Process[local'[u]] = Process[u]
      <4>1. pc[u] = "use" /\ local'[u] = local[u] /\ local[u] \in Threads
        BY <1>2, <2>3, <3>2 DEF TypeOK
      <4>2. Process[local[u]] = Process[u] /\ pinned[local[u]] > 0
        BY <4>1 DEF TypeOK, ObjectInv
      <4>3. QED
        BY <1>2, <2>3, <4>1, <4>2, NoneAssumption
    <3>3. QED
      BY <3>1, <3>2
  <2>4. QED
    BY <2>2, <2>3
<1>6. TypeOK'
  BY <1>1, <1>3, <1>4, <1>5 DEF TypeOK, Restart, disk
<1>7. ASSUME NEW q \in Processes, table'[q] # None
      PROVE  Process[table'[q]] = q /\ pinned'[table'[q]] > 0
  <2>1. q # p /\ table'[q] = table[q] /\ table[q] \in Threads
    BY <1>4, <1>7 DEF TypeOK
  <2>2. Process[table[q]] = q /\ pinned[table[q]] > 0
    BY <1>7, <2>1 DEF ObjectInv
  <2>3. QED
    BY <1>2, <2>1, <2>2
<1>8. \A u \in Threads : pc'[u] = "publish" => pinned'[u] > 0
  BY <1>2 DEF ObjectInv
<1>9. ObjectInv'
  BY <1>1, <1>2, <1>5, <1>7, <1>8 DEF ObjectInv
<1>10. QED
  BY <1>6, <1>9

\* No step breaks the types.
LEMMA TypeStep ==
    ASSUME TypeOK, ObjectInv, [Next]_vars
    PROVE  TypeOK' /\ ObjectInv'
<1>1. "done" \in Outcomes /\ "absent" \in Outcomes
  BY DEF Outcomes
<1>2. CASE UNCHANGED vars
  BY <1>2 DEF vars, disk, TypeOK, ObjectInv, Exists, Latest
<1>3. ASSUME NEW t \in Threads, Step(t)
      PROVE  TypeOK' /\ ObjectInv'
  <2>1. ASSUME NEW o \in Operations, Begin(t, o)
        PROVE  TypeOK' /\ ObjectInv'
    BY <2>1, BeginTypes
  <2>2. CASE Refresh(t) \/ RefreshFails(t) \/ Take(t) \/ Publish(t)
    BY <2>2, HandleTypes
  <2>3. CASE Connect(t)
    <3>1. connected' \in [Processes -> BOOLEAN]
      BY <2>3 DEF Connect, TypeOK
    <3>2. QED
      BY <2>3, <3>1, QuietGoto DEF Connect
  <2>4. CASE ConnectFails(t)
    BY <1>1, <2>4, QuietReturn DEF ConnectFails, Swallowed
  <2>5. CASE List(t)
    <3>1. connected' \in [Processes -> BOOLEAN]
      BY <2>5 DEF List, TypeOK
    <3>2. \/ Goto(t, "open") /\ UNCHANGED local /\ Exists
          \/ Goto(t, "create") /\ UNCHANGED local
          \/ Return(t, "absent")
      BY <2>5 DEF List
    <3>3. UNCHANGED <<disk, model, connected, table, pinned>>
      BY <2>5 DEF List
    <3>4. QED
      BY <1>1, <3>1, <3>2, <3>3, QuietGoto, QuietReturn
  <2>6. CASE OpenTable(t) \/ OpenUnasserted(t)
    <3>1. Exists
      BY <2>6 DEF OpenTable, OpenUnasserted, ObjectInv
    <3>2. QED
      BY <2>6, <3>1, OpenTypes
  <2>7. CASE CreateTable(t)
    BY <2>7, CreateTypes
  <2>8. CASE Search(t)
    BY <1>1, <2>8, QuietReturn DEF Search
  <2>9. CASE Fail(t)
    BY <1>1, <2>9, QuietReturn DEF Fail
  <2>10. CASE Upsert(t) \/ Delete(t)
    <3>1. pc[t] = "use"
      BY <2>10 DEF Upsert, Delete
    <3>2. versions[Latest] \in SUBSET Models /\ ModelOf(t) \in Models
      <4>1. local[t] \in Threads /\ pinned[local[t]] > 0
        BY <3>1 DEF TypeOK
      <4>2. Latest \in Nat /\ Latest > 0
        BY <4>1 DEF TypeOK, Latest
      <4>3. Latest \in 1..Len(versions)
        BY <4>2 DEF Latest
      <4>4. QED
        BY <4>3, ProcessAssumption DEF TypeOK, ModelOf
    <3>3. PICK contents \in SUBSET Models : Commit(t, contents)
      BY <2>10, <3>2 DEF Upsert, Delete
    <3>4. QED
      BY <3>1, <3>3, CommitTypes
  <2>11. QED
    BY <1>3, <2>1, <2>2, <2>3, <2>4, <2>5, <2>6, <2>7, <2>8, <2>9, <2>10 DEF Step
<1>4. ASSUME NEW p \in Processes, NEW m \in Models, Restart(p, m)
      PROVE  TypeOK' /\ ObjectInv'
  BY <1>4, RestartTypes
<1>5. QED
  BY <1>2, <1>3, <1>4 DEF Next

\* Every variable always has its type.
THEOREM TypeCorrect == Spec => [](TypeOK /\ ObjectInv)
<1>1. Init => TypeOK /\ ObjectInv
  <2>1. SUFFICES ASSUME Init PROVE TypeOK /\ ObjectInv
    OBVIOUS
  <2>2. versions = <<>> /\ \A t \in Threads : pc[t] = "idle"
    BY <2>1 DEF Init
  <2>3. \A p \in Processes : table[p] = None
    BY <2>1 DEF Init
  <2>4. Latest = 0 /\ ~Exists /\ versions \in Seq(SUBSET Models)
    BY <2>2 DEF Latest, Exists
  <2>5. TypeOK
    <3>1. stamp = None /\ model \in [Processes -> Models]
      BY <2>1 DEF Init
    <3>2. /\ table \in [Processes -> Threads \cup {None}]
          /\ local \in [Threads -> Threads \cup {None}]
          /\ op \in [Threads -> Operations \cup {None}]
      BY <2>1 DEF Init
    <3>3. /\ connected \in [Processes -> BOOLEAN] /\ racing \in [Threads -> BOOLEAN]
          /\ stale \in [Threads -> BOOLEAN] /\ unasserted \subseteq Models
          /\ pinned \in [Threads -> 0..0] /\ since \in [Threads -> 0..0]
      BY <2>1 DEF Init
    <3>4. pc \in [Threads -> Steps] /\ result \in [Threads -> Outcomes]
      BY <2>1 DEF Init, Steps, Outcomes
    <3>5. QED
      BY <2>2, <2>4, <3>1, <3>2, <3>3, <3>4 DEF TypeOK
  <2>6. ObjectInv
    BY <2>2, <2>3 DEF ObjectInv
  <2>7. QED
    BY <2>5, <2>6
<1>2. TypeOK /\ ObjectInv /\ [Next]_vars => TypeOK' /\ ObjectInv'
  BY TypeStep
<1>3. QED
  BY <1>1, <1>2, PTL DEF Spec

-----------------------------------------------------------------------------
(* The model of the vectors.                                               *)

\* Every version holds vectors of accepted models only, and a process that has
\* the table open is configured with one.  The stamp never changes once it is
\* there, which is why the cached handle need not be checked again.
StampInv ==
    /\ ~Exists => unasserted = {}
    /\ \A i \in 1..Latest : versions[i] \subseteq Accepted
    /\ \A p \in Processes : table[p] # None => model[p] \in Accepted
    /\ \A t \in Threads : pc[t] \in {"publish", "use"} => ModelOf(t) \in Accepted

\* What does not touch the directory leaves the accepted models alone.
LEMMA SameDisk ==
    ASSUME UNCHANGED disk
    PROVE  /\ Exists' <=> Exists
           /\ Latest' = Latest /\ Accepted' = Accepted /\ Contents' = Contents
BY DEF disk, Exists, Latest, Accepted, Contents

\* No step breaks StampInv.
LEMMA StampStep ==
    ASSUME TypeOK, ObjectInv, StampInv, [Next]_vars
    PROVE  StampInv'
<1>0. Latest \in Nat /\ \A t \in Threads : Process[t] \in Processes
  BY ProcessAssumption DEF TypeOK, Latest
<1>1. CASE UNCHANGED vars
  <2>1. UNCHANGED <<disk, model, table, pc>>
    BY <1>1 DEF vars, disk
  <2>2. QED
    BY <2>1, SameDisk DEF StampInv, ModelOf, disk
<1>2. ASSUME NEW t \in Threads, UNCHANGED <<disk, model, table>>,
             \A u \in Threads \ {t} : pc'[u] = pc[u],
             pc'[t] \in {"publish", "use"} => ModelOf(t) \in Accepted
      PROVE  StampInv'
  BY <1>2, SameDisk DEF StampInv, disk, ModelOf
<1>3. ASSUME NEW t \in Threads, Step(t)
      PROVE  StampInv'
  <2>1. CASE \E o \in Operations : Begin(t, o)
    BY <1>2, <2>1 DEF Begin, TypeOK
  <2>2. CASE \/ Refresh(t) \/ RefreshFails(t) \/ Connect(t) \/ ConnectFails(t)
             \/ List(t)
    BY <1>2, <2>2 DEF Refresh, RefreshFails, Connect, ConnectFails, List, Goto, Return,
                      TypeOK
  <2>3. CASE OpenTable(t)
    <3>1. Exists
      BY <2>3 DEF OpenTable, ObjectInv
    <3>2. stamp \in Accepted
      BY <3>1 DEF Accepted
    <3>3. QED
      BY <1>2, <2>3, <3>2 DEF OpenTable, Goto, Return, TypeOK
  <2>4. CASE Take(t)
    <3>1. ModelOf(t) \in Accepted
      BY <1>0, <2>4 DEF Take, TypeOK, StampInv, ModelOf
    <3>2. QED
      BY <1>2, <2>4, <3>1 DEF Take, Goto, TypeOK
  <2>5. CASE Search(t) \/ Fail(t)
    BY <1>2, <2>5 DEF Search, Fail, Return, TypeOK
  <2>6. CASE CreateTable(t)
    <3>1. CASE Exists
      BY <1>2, <2>6, <3>1 DEF CreateTable, Return, TypeOK, disk
    <3>2. CASE ~Exists
      <4>1. /\ versions' = << {} >> /\ stamp' = ModelOf(t)
            /\ UNCHANGED <<model, table>> /\ Goto(t, "publish")
        BY <2>6, <3>2 DEF CreateTable
      <4>2. Latest = 0
        BY <3>2 DEF Exists, Latest
      <4>3. \A p \in Processes : table[p] = None
        BY <4>2 DEF TypeOK, ObjectInv
      <4>4. \A u \in Threads : pc[u] \notin {"publish", "use"}
        BY <4>2 DEF TypeOK, ObjectInv
      <4>5. Exists' /\ ModelOf(t)' \in Accepted'
        BY <4>1 DEF Exists, Accepted, ModelOf
      <4>6. \A i \in 1..Latest' : versions'[i] \subseteq Accepted'
        BY <4>1 DEF Latest
      <4>7. \A u \in Threads : pc'[u] \in {"publish", "use"} => u = t
        BY <4>1, <4>4 DEF Goto, TypeOK
      <4>8. QED
        BY <4>1, <4>3, <4>5, <4>6, <4>7 DEF StampInv, ModelOf
    <3>3. QED
      BY <3>1, <3>2
  <2>7. CASE Publish(t)
    <3>1. ModelOf(t) \in Accepted /\ UNCHANGED <<disk, model>>
      BY <2>7 DEF Publish, StampInv
    <3>2. \A p \in Processes : table'[p] # None => model[p] \in Accepted
      BY <2>7, <3>1 DEF Publish, StampInv, ModelOf, TypeOK
    <3>3. \A u \in Threads : pc'[u] \in {"publish", "use"} => ModelOf(u) \in Accepted
      BY <2>7, <3>1 DEF Publish, Goto, StampInv, TypeOK
    <3>4. QED
      BY <3>1, <3>2, <3>3, SameDisk DEF StampInv, disk, ModelOf
  <2>8. CASE Upsert(t) \/ Delete(t)
    <3>1. ModelOf(t) \in Accepted /\ pc[t] = "use"
      BY <2>8 DEF Upsert, Delete, StampInv
    <3>2. Latest \in 1..Latest
      <4>1. local[t] \in Threads /\ pinned[local[t]] > 0
        BY <3>1 DEF TypeOK
      <4>2. QED
        BY <1>0, <4>1 DEF TypeOK
    <3>3. versions[Latest] \subseteq Accepted
      BY <3>2 DEF StampInv
    <3>4. PICK contents : contents \subseteq Accepted /\ Commit(t, contents)
      BY <2>8, <3>1, <3>3 DEF Upsert, Delete
    <3>5. /\ versions' = Append(versions, contents)
          /\ UNCHANGED <<stamp, unasserted, model, table>>
          /\ Return(t, "done")
      BY <3>4 DEF Commit
    <3>6. Exists /\ Exists' /\ Accepted' = Accepted
      <4>1. Exists
        BY <3>1 DEF Accepted
      <4>2. Exists'
        BY <1>0, <3>5 DEF Exists, TypeOK
      <4>3. QED
        BY <3>5, <4>1, <4>2 DEF Accepted
    <3>7. \A i \in 1..Latest' : versions'[i] \subseteq Accepted
      <4>1. contents \in SUBSET Models
        BY <3>4 DEF Accepted, TypeOK
      <4>2. versions \in Seq(SUBSET Models)
        BY DEF TypeOK
      <4>3. /\ Latest' = Latest + 1 /\ versions'[Latest + 1] = contents
            /\ \A i \in 1..Latest : versions'[i] = versions[i]
        BY <3>5, <4>1, <4>2 DEF Latest
      <4>4. QED
        BY <1>0, <3>4, <4>3 DEF StampInv
    <3>8. \A u \in Threads : pc'[u] \in {"publish", "use"} => pc[u] = pc'[u]
      BY <3>5 DEF Return, TypeOK
    <3>9. QED
      BY <3>5, <3>6, <3>7, <3>8 DEF StampInv, ModelOf
  <2>9. CASE OpenUnasserted(t)
    <3>1. Exists /\ Exists' /\ Latest' = Latest
      BY <2>9 DEF OpenUnasserted, ObjectInv, Exists, Latest
    <3>2. Accepted' = Accepted \cup {ModelOf(t)}
      BY <2>9, <3>1 DEF OpenUnasserted, Accepted
    <3>3. UNCHANGED <<versions, model, table>> /\ Goto(t, "publish")
      BY <2>9 DEF OpenUnasserted
    <3>4. \A u \in Threads \ {t} : pc'[u] = pc[u]
      BY <3>3 DEF Goto, TypeOK
    <3>5. QED
      BY <3>1, <3>2, <3>3, <3>4 DEF StampInv, ModelOf
  <2>10. QED
    BY <1>3, <2>1, <2>2, <2>3, <2>4, <2>5, <2>6, <2>7, <2>8, <2>9 DEF Step
<1>4. ASSUME NEW p \in Processes, NEW m \in Models, Restart(p, m)
      PROVE  StampInv'
  <2>1. UNCHANGED disk /\ table' = [table EXCEPT ![p] = None]
        /\ model' = [model EXCEPT ![p] = m]
    BY <1>4 DEF Restart
  <2>2. \A u \in Threads :
          IF Process[u] = p THEN pc'[u] = "idle" ELSE pc'[u] = pc[u]
    BY <1>4 DEF Restart, Forget
  <2>3. \A u \in Threads : Process[u] # p => ModelOf(u)' = ModelOf(u)
    BY <1>0, <2>1 DEF ModelOf, TypeOK
  <2>4. \A q \in Processes : table'[q] # None => table[q] # None /\ model'[q] = model[q]
    BY <2>1 DEF TypeOK
  <2>5. QED
    BY <2>1, <2>2, <2>3, <2>4, SameDisk DEF StampInv, disk
<1>5. QED
  BY <1>1, <1>3, <1>4 DEF Next

\* The stamp invariant holds in every reachable state.
LEMMA Stamped == Spec => []StampInv
<1>1. Init => StampInv
  <2>1. SUFFICES ASSUME Init PROVE StampInv
    OBVIOUS
  <2>2. Latest = 0 /\ unasserted = {} /\ (\A p \in Processes : table[p] = None)
        /\ \A t \in Threads : pc[t] = "idle"
    BY <2>1 DEF Init, Latest
  <2>3. QED
    BY <2>2 DEF StampInv
<1>2. TypeOK /\ ObjectInv /\ StampInv /\ [Next]_vars => StampInv'
  BY StampStep
<1>3. QED
  BY <1>1, <1>2, TypeCorrect, PTL DEF Spec

\* A thread never works on a version that holds vectors of a model that was
\* compared with the stamp and differs from it.
THEOREM VectorsAreComparable == Spec => []ComparableOnly
<1>1. TypeOK /\ StampInv => ComparableOnly
  <2>1. SUFFICES ASSUME TypeOK, StampInv, NEW t \in Threads, pc[t] = "use"
                 PROVE  Visible(t) \cup {ModelOf(t)} \subseteq Accepted
    BY DEF ComparableOnly
  <2>2. local[t] \in Threads /\ pinned[local[t]] \in 1..Latest
    BY <2>1 DEF TypeOK, Latest
  <2>3. QED
    BY <2>1, <2>2 DEF StampInv, Visible
<1>2. QED
  BY <1>1, TypeCorrect, Stamped, PTL

-----------------------------------------------------------------------------
(* The contract.                                                           *)

\* Only a write, a delete, the creation of the table and an opening nothing was
\* compared at change what the table holds or who may write to it.
LEMMA ContentsStep ==
    ASSUME TypeOK, ObjectInv, StampInv, Next
    PROVE  Contract!Next \/ UNCHANGED <<Contents, Accepted>>
<1>1. ASSUME UNCHANGED disk PROVE UNCHANGED <<Contents, Accepted>>
  BY <1>1, SameDisk
<1>2. ASSUME NEW t \in Threads, Step(t), ~UNCHANGED disk
      PROVE  Contract!Next \/ UNCHANGED <<Contents, Accepted>>
  <2>0. ModelOf(t) \in Models
    BY ProcessAssumption DEF ModelOf, TypeOK
  <2>1. CreateTable(t) \/ OpenUnasserted(t) \/ Upsert(t) \/ Delete(t)
    BY <1>2 DEF Step, Begin, Refresh, RefreshFails, Take, Connect, ConnectFails, List,
                OpenTable, Publish, Search, Fail
  <2>2. CASE CreateTable(t)
    <3>1. ~Exists /\ versions' = << {} >> /\ stamp' = ModelOf(t) /\ unasserted' = unasserted
      BY <1>2, <2>2 DEF CreateTable, disk
    <3>2. << {} >> # <<>> /\ Len(<< {} >>) = 1 /\ << {} >>[1] = {}
      OBVIOUS
    <3>3. Contents = {} /\ Contents' = {} /\ Accepted = {}
      BY <3>1, <3>2 DEF Contents, Accepted, Exists, Latest
    <3>4. Accepted' = {ModelOf(t)}
      BY <3>1, <3>2 DEF Accepted, Exists, StampInv
    <3>5. Contract!Accept(ModelOf(t))
      BY <3>3, <3>4 DEF Contract!Accept
    <3>6. QED
      BY <2>0, <3>5 DEF Contract!Next
  <2>3. CASE OpenUnasserted(t)
    <3>1. Exists /\ versions' = versions /\ stamp' = stamp
          /\ unasserted' = unasserted \cup ({ModelOf(t)} \ {stamp})
      BY <2>3 DEF OpenUnasserted, ObjectInv
    <3>2. Contents' = Contents /\ Accepted' = Accepted \cup {ModelOf(t)}
      BY <3>1 DEF Contents, Accepted, Exists, Latest
    <3>3. Contract!Accept(ModelOf(t))
      BY <3>2 DEF Contract!Accept
    <3>4. QED
      BY <2>0, <3>3 DEF Contract!Next
  <2>4. CASE Upsert(t) \/ Delete(t)
    <3>1. pc[t] = "use" /\ ModelOf(t) \in Accepted
      BY <2>4 DEF Upsert, Delete, StampInv
    <3>2. local[t] \in Threads /\ pinned[local[t]] > 0
      BY <3>1 DEF TypeOK
    <3>3. Latest \in 1..Latest /\ Latest \in Nat
      BY <3>2 DEF TypeOK, Latest
    <3>4. Exists /\ Contents = versions[Latest]
      BY <3>1 DEF Accepted, Contents
    <3>5. PICK new : /\ Commit(t, new)
                     /\ new = Contents \cup {ModelOf(t)} \/ new = {} \/ new = Contents
      BY <2>4, <3>4 DEF Upsert, Delete
    <3>6. versions' = Append(versions, new) /\ UNCHANGED <<stamp, unasserted>>
      BY <3>5 DEF Commit
    <3>7. Contents' = new /\ Accepted' = Accepted
      <4>1. Len(versions') = Len(versions) + 1 /\ versions'[Len(versions) + 1] = new
        BY <3>6 DEF TypeOK
      <4>2. Exists'
        BY <3>3, <4>1 DEF Exists, Latest
      <4>3. Contents' = new
        BY <4>1, <4>2 DEF Contents, Latest
      <4>4. QED
        BY <3>4, <3>6, <4>2, <4>3 DEF Accepted
    <3>8. CASE new = Contents \cup {ModelOf(t)}
      <4>1. Contract!Write(ModelOf(t))
        BY <3>1, <3>7, <3>8 DEF Contract!Write
      <4>2. QED
        BY <2>0, <4>1 DEF Contract!Next
    <3>9. CASE new = {}
      <4>1. Contract!Delete
        BY <3>7, <3>9 DEF Contract!Delete
      <4>2. QED
        BY <4>1 DEF Contract!Next
    <3>10. QED
      BY <3>5, <3>7, <3>8, <3>9
  <2>5. QED
    BY <2>1, <2>2, <2>3, <2>4
<1>3. ASSUME NEW p \in Processes, NEW m \in Models, Restart(p, m)
      PROVE  UNCHANGED disk
  BY <1>3 DEF Restart
<1>4. QED
  BY <1>1, <1>2, <1>3 DEF Next

\* The store keeps the promise of assert_model_matches as far as it is asked:
\* nobody writes vectors of a model that is neither the one the table was
\* created with nor one it was opened with unasserted.
THEOREM ImplementsContract == Spec => KeepsContract
<1>1. Init => Contract!Init
  <2>1. SUFFICES ASSUME Init PROVE Contents = {} /\ Accepted = {}
    BY DEF Contract!Init
  <2>2. QED
    BY <2>1 DEF Init, Contents, Accepted, Exists
<1>2. TypeOK /\ ObjectInv /\ StampInv /\ [Next]_vars
        => [Contract!Next]_<<Contents, Accepted>>
  <2>1. UNCHANGED vars => UNCHANGED disk
    BY DEF vars, disk
  <2>2. QED
    BY <2>1, ContentsStep, SameDisk
<1>3. QED
  BY <1>1, <1>2, TypeCorrect, Stamped, PTL DEF Spec, KeepsContract, Contract!Spec

-----------------------------------------------------------------------------
(* Freshness.                                                              *)

\* A search whose process nobody else has been opening the table in.
Alone(t) == op[t] = "search" /\ ~racing[t]

\* While no other thread of its process was opening the table, a search goes to
\* a version no older than the latest one when it began: the handle it
\* refreshed stays in the cache until it takes it.
Fresh(t) ==
    /\ Alone(t) => \A v \in Siblings(t) : ~Opening(v)
    /\ pc[t] = "take" /\ Alone(t) /\ ~stale[t]
            => pinned[table[Process[t]]] >= since[t]
    /\ pc[t] = "publish" => pinned[t] >= since[t]
    /\ pc[t] = "use" /\ Alone(t) /\ ~stale[t] => pinned[local[t]] >= since[t]

FreshInv == \A t \in Threads : Fresh(t)

\* A step of one thread keeps every other thread fresh when it leaves the
\* cached handle alone, moves no pin back and does not begin to open.
LEMMA OthersStayFresh ==
    ASSUME TypeOK, ObjectInv, FreshInv, NEW t \in Threads,
           table' = table, pinned' \in [Threads -> Nat],
           \A u \in Threads : pinned'[u] >= pinned[u],
           \A u \in Threads \ {t} :
                /\ pc'[u] = pc[u] /\ op'[u] = op[u] /\ local'[u] = local[u]
                /\ since'[u] = since[u] /\ racing'[u] = racing[u]
                /\ stale'[u] = stale[u],
           Opening(t)' => Opening(t)
    PROVE  \A u \in Threads \ {t} : Fresh(u)'
<1>1. SUFFICES ASSUME NEW u \in Threads \ {t} PROVE Fresh(u)'
  OBVIOUS
<1>2. /\ pc'[u] = pc[u] /\ local'[u] = local[u]
      /\ since'[u] = since[u] /\ stale'[u] = stale[u]
      /\ Alone(u)' <=> Alone(u)
  BY DEF Alone
<1>3. since[u] \in Nat /\ \A v \in Threads : pinned[v] \in Nat /\ pinned'[v] \in Nat
  BY DEF TypeOK, Latest
<1>4. Alone(u) => \A v \in Siblings(u) : ~Opening(v)'
  <2>1. \A v \in Threads : Opening(v)' => Opening(v)
    BY DEF Opening
  <2>2. QED
    BY <2>1 DEF Fresh, FreshInv, Siblings
<1>5. ASSUME pc[u] = "take", Alone(u), ~stale[u]
      PROVE  pinned'[table'[Process[u]]] >= since[u]
  <2>1. table[Process[u]] \in Threads
    BY <1>5, ProcessAssumption DEF TypeOK
  <2>2. QED
    BY <1>3, <1>5, <2>1 DEF Fresh, FreshInv
<1>6. pc[u] = "publish" => pinned'[u] >= since[u]
  BY <1>3 DEF Fresh, FreshInv
<1>7. ASSUME pc[u] = "use", Alone(u), ~stale[u]
      PROVE  pinned'[local[u]] >= since[u]
  <2>1. local[u] \in Threads
    BY <1>7 DEF TypeOK
  <2>2. QED
    BY <1>3, <1>7, <2>1 DEF Fresh, FreshInv
<1>8. QED
  BY <1>2, <1>4, <1>5, <1>6, <1>7 DEF Fresh, Siblings

\* No step breaks FreshInv.
LEMMA FreshStep ==
    ASSUME TypeOK, ObjectInv, TypeOK', ObjectInv', FreshInv, [Next]_vars
    PROVE  FreshInv'
<1>1. (\A t \in Threads : Fresh(t)') => FreshInv'
  BY DEF Fresh, FreshInv
<1>2. /\ Latest \in Nat /\ Latest' \in Nat
      /\ pinned \in [Threads -> Nat] /\ pinned' \in [Threads -> Nat]
      /\ \A t \in Threads : since[t] \in 0..Latest /\ pinned[t] \in 0..Latest
  BY DEF TypeOK, Latest
<1>3. CASE UNCHANGED vars
  BY <1>3 DEF vars, Fresh, FreshInv, Alone, Opening, Siblings
<1>4. ASSUME NEW t \in Threads, NEW o \in Operations, Begin(t, o)
      PROVE  FreshInv'
  <2>1. /\ pc' = [pc EXCEPT ![t] =
                    IF table[Process[t]] = None THEN "connect" ELSE "refresh"]
        /\ UNCHANGED <<table, pinned, local, stale>>
        /\ op'[t] = o
        /\ \A u \in Threads \ {t} : since'[u] = since[u] /\ op'[u] = op[u]
    BY <1>4 DEF Begin, TypeOK
  <2>2. racing'[t] <=> o = "search" /\ \E v \in Siblings(t) : Opening(v)
    BY <1>4 DEF Begin
  <2>3. \A u \in Threads \ {t} :
          racing'[u] <=>
            racing[u] \/ (table[Process[t]] = None /\ u \in Siblings(t) /\ op[u] = "search")
    BY <1>4 DEF Begin
  <2>4. Fresh(t)'
    BY <2>1, <2>2 DEF Fresh, Alone, Siblings, Opening, TypeOK
  <2>5. ASSUME NEW u \in Threads \ {t} PROVE Fresh(u)'
    <3>1. pc'[u] = pc[u] /\ (Alone(u)' => Alone(u))
      BY <2>1, <2>3 DEF Alone, TypeOK
    <3>2. Alone(u)' => \A v \in Siblings(u) : ~Opening(v)'
      <4>1. ASSUME Alone(u)', NEW v \in Siblings(u) PROVE ~Opening(v)'
        <5>1. CASE v = t
          BY <2>1, <2>3, <4>1, <5>1 DEF Alone, Siblings, Opening, TypeOK
        <5>2. CASE v # t
          BY <2>1, <3>1, <4>1, <5>2 DEF Fresh, FreshInv, Siblings, Opening, TypeOK
        <5>3. QED
          BY <5>1, <5>2
      <4>2. QED
        BY <4>1
    <3>3. QED
      BY <2>1, <3>1, <3>2 DEF Fresh, FreshInv, Siblings
  <2>6. QED
    BY <1>1, <2>4, <2>5
<1>5. ASSUME NEW t \in Threads, NEW o \in Outcomes, Return(t, o), table' = table,
             \A u \in Threads : pinned'[u] >= pinned[u]
      PROVE  FreshInv'
  <2>1. /\ pc'[t] = "idle"
        /\ \A u \in Threads \ {t} :
            /\ pc'[u] = pc[u] /\ op'[u] = op[u] /\ local'[u] = local[u]
            /\ since'[u] = since[u] /\ racing'[u] = racing[u] /\ stale'[u] = stale[u]
    BY <1>5 DEF Return, TypeOK
  <2>2. Fresh(t)' /\ ~Opening(t)'
    <3>1. op'[t] # "search"
      BY <1>5, NoneAssumption DEF Return, TypeOK, Operations
    <3>2. QED
      BY <2>1, <3>1 DEF Fresh, Alone, Opening
  <2>3. QED
    BY <1>1, <1>2, <1>5, <2>1, <2>2, OthersStayFresh
<1>6. ASSUME NEW t \in Threads, NEW step \in Steps, Goto(t, step), table' = table,
             \A u \in Threads : pinned'[u] >= pinned[u],
             \A u \in Threads \ {t} : local'[u] = local[u],
             step \in {"connect", "list", "open", "create", "publish"} => Opening(t),
             pc[t] # "idle",
             step = "take" /\ Alone(t) /\ ~stale[t]
                => pinned'[table[Process[t]]] >= since[t],
             step = "publish" => pinned'[t] >= since[t],
             step = "use" /\ Alone(t) /\ ~stale[t] => pinned'[local'[t]] >= since[t]
      PROVE  FreshInv'
  <2>1. /\ pc'[t] = step /\ since' = since /\ racing' = racing
        /\ op' = op /\ stale' = stale
        /\ \A u \in Threads \ {t} : pc'[u] = pc[u]
    BY <1>6 DEF Goto, TypeOK
  <2>2. Opening(t)' => Opening(t)
    BY <1>6, <2>1 DEF Opening
  <2>3. \A u \in Threads \ {t} : Fresh(u)'
    BY <1>2, <1>6, <2>1, <2>2, OthersStayFresh
  <2>4. Alone(t) => \A v \in Siblings(t) : ~Opening(v)'
    BY <1>6, <2>1 DEF Fresh, FreshInv, Siblings, Opening
  <2>5. Fresh(t)'
    BY <1>6, <2>1, <2>4 DEF Fresh, Alone, Siblings
  <2>6. QED
    BY <1>1, <2>3, <2>5
<1>7. ASSUME NEW t \in Threads, Step(t)
      PROVE  FreshInv'
  <2>1. /\ {"done", "absent", "crashed"} \subseteq Outcomes
        /\ {"take", "list", "open", "create", "publish", "use"} \subseteq Steps
        /\ Process[t] \in Processes
    BY ProcessAssumption DEF Outcomes, Steps
  <2>2. \A u \in Threads : pinned[u] >= pinned[u]
    BY <1>2
  <2>3. CASE Refresh(t)
    <3>1. table[Process[t]] \in Threads
      BY <2>1, <2>3 DEF Refresh, TypeOK
    <3>2. pinned' = [pinned EXCEPT ![table[Process[t]]] = Latest]
      BY <2>3 DEF Refresh
    <3>3. /\ \A u \in Threads : pinned'[u] >= pinned[u]
          /\ pinned'[table[Process[t]]] >= since[t]
      BY <1>2, <3>1, <3>2
    <3>4. QED
      BY <1>6, <2>1, <2>3, <3>3 DEF Refresh
  <2>4. CASE Take(t)
    <3>1. local'[t] = table[Process[t]] /\ \A u \in Threads \ {t} : local'[u] = local[u]
      BY <2>4 DEF Take, TypeOK
    <3>2. Alone(t) /\ ~stale[t] => pinned'[local'[t]] >= since[t]
      BY <2>4, <3>1 DEF Take, Fresh, FreshInv
    <3>3. QED
      BY <1>6, <2>1, <2>2, <2>4, <3>1, <3>2 DEF Take
  <2>5. CASE Connect(t)
    BY <1>6, <2>1, <2>2, <2>5 DEF Connect, Opening
  <2>6. CASE ConnectFails(t)
    BY <1>5, <2>1, <2>2, <2>6 DEF ConnectFails, Swallowed
  <2>7. CASE List(t)
    <3>1. pinned' = pinned /\ table' = table /\ pc[t] = "list"
      BY <2>7 DEF List
    <3>2. \/ Goto(t, "open") /\ local' = local
          \/ Goto(t, "create") /\ local' = local
          \/ Return(t, "absent")
      BY <2>7 DEF List
    <3>3. QED
      BY <1>5, <1>6, <2>1, <2>2, <3>1, <3>2 DEF Opening
  <2>8. CASE OpenTable(t) \/ OpenUnasserted(t)
    <3>1. table' = table /\ pc[t] = "open"
      BY <2>8 DEF OpenTable, OpenUnasserted
    <3>2. CASE /\ pinned' = [pinned EXCEPT ![t] = Latest]
               /\ Goto(t, "publish") /\ local' = local
      <4>1. (\A u \in Threads : pinned'[u] >= pinned[u]) /\ pinned'[t] >= since[t]
        BY <1>2, <3>2
      <4>2. QED
        BY <1>6, <2>1, <3>1, <3>2, <4>1 DEF Opening
    <3>3. CASE Return(t, "done") /\ pinned' = pinned
      BY <1>5, <2>1, <2>2, <3>1, <3>3
    <3>4. QED
      BY <2>8, <3>2, <3>3 DEF OpenTable, OpenUnasserted
  <2>9. CASE CreateTable(t)
    <3>1. table' = table /\ pc[t] = "create"
      BY <2>9 DEF CreateTable
    <3>2. CASE Exists
      BY <1>5, <2>1, <2>2, <2>9, <3>1, <3>2 DEF CreateTable
    <3>3. CASE ~Exists
      <4>1. /\ pinned' = [pinned EXCEPT ![t] = 1]
            /\ Goto(t, "publish") /\ local' = local
        BY <2>9, <3>3 DEF CreateTable
      <4>2. Latest = 0
        BY <3>3 DEF Exists, Latest
      <4>3. (\A u \in Threads : pinned'[u] >= pinned[u]) /\ pinned'[t] >= since[t]
        BY <1>2, <4>1, <4>2
      <4>4. QED
        BY <1>6, <2>1, <3>1, <4>1, <4>3 DEF Opening
    <3>4. QED
      BY <3>2, <3>3
  <2>10. CASE Search(t) \/ Fail(t)
    BY <1>5, <2>1, <2>2, <2>10 DEF Search, Fail
  <2>11. CASE Upsert(t) \/ Delete(t)
    <3>1. PICK contents : Commit(t, contents)
      BY <2>11 DEF Upsert, Delete
    <3>2. \A u \in Threads : pinned'[u] >= pinned[u]
      BY <1>2, <3>1 DEF Commit
    <3>3. QED
      BY <1>5, <2>1, <3>1, <3>2 DEF Commit
  <2>12. CASE Publish(t)
    <3>1. /\ pinned' = pinned /\ since' = since /\ racing' = racing
          /\ op' = op /\ stale' = stale
          /\ local' = [local EXCEPT ![t] = t]
          /\ table' = [table EXCEPT ![Process[t]] = t]
          /\ pc[t] = "publish" /\ pc' = [pc EXCEPT ![t] = "use"]
      BY <2>12 DEF Publish, Goto
    <3>2. Fresh(t)'
      <4>1. pinned'[local'[t]] >= since'[t]
        BY <3>1 DEF Fresh, FreshInv, TypeOK
      <4>2. Alone(t) => \A v \in Siblings(t) : ~Opening(v)'
        <5>1. \A v \in Siblings(t) : pc'[v] = pc[v]
          BY <3>1 DEF Siblings, TypeOK
        <5>2. QED
          BY <3>1, <5>1 DEF Fresh, FreshInv, Siblings, Opening, TypeOK
      <4>3. QED
        BY <3>1, <4>1, <4>2 DEF Fresh, Alone, Siblings, TypeOK
    <3>3. ASSUME NEW u \in Threads \ {t} PROVE Fresh(u)'
      <4>1. pc'[u] = pc[u] /\ local'[u] = local[u] /\ Opening(t)
            /\ (Alone(u)' <=> Alone(u))
        BY <3>1 DEF TypeOK, Opening, Alone
      <4>2. Alone(u) => u \notin Siblings(t)
        BY <4>1 DEF Fresh, FreshInv, Siblings
      <4>3. Alone(u) => \A v \in Siblings(u) : ~Opening(v)'
        BY <3>1 DEF Fresh, FreshInv, Siblings, Opening, TypeOK
      <4>4. Alone(u) => table'[Process[u]] = table[Process[u]]
        BY <3>1, <4>2, ProcessAssumption DEF Siblings, TypeOK
      <4>5. QED
        BY <3>1, <4>1, <4>3, <4>4 DEF Fresh, FreshInv, Siblings
    <3>4. QED
      BY <1>1, <3>2, <3>3
  <2>13. CASE RefreshFails(t)
    <3>1. /\ pc[t] = "refresh" /\ pc' = [pc EXCEPT ![t] = "take"]
          /\ stale' = [stale EXCEPT ![t] = op[t] = "search"]
          /\ UNCHANGED <<table, pinned, local, op, since, racing>>
      BY <2>13 DEF RefreshFails
    <3>2. Fresh(t)'
      <4>1. Alone(t)' => Alone(t) /\ stale'[t]
        BY <3>1 DEF Alone, TypeOK
      <4>2. Alone(t) => \A v \in Siblings(t) : ~Opening(v)'
        BY <3>1 DEF Fresh, FreshInv, Siblings, Opening, TypeOK
      <4>3. pc'[t] = "take"
        BY <3>1 DEF TypeOK
      <4>4. QED
        BY <4>1, <4>2, <4>3 DEF Fresh, Siblings
    <3>3. \A u \in Threads \ {t} : Fresh(u)'
      <4>1. ~Opening(t)'
        BY <3>1 DEF Opening, TypeOK
      <4>2. \A u \in Threads \ {t} : pc'[u] = pc[u] /\ stale'[u] = stale[u]
        BY <3>1 DEF TypeOK
      <4>3. QED
        BY <1>2, <2>2, <3>1, <4>1, <4>2, OthersStayFresh
    <3>4. QED
      BY <1>1, <3>2, <3>3
  <2>14. QED
    BY <1>4, <1>7, <2>3, <2>4, <2>5, <2>6, <2>7, <2>8, <2>9, <2>10, <2>11, <2>12,
       <2>13 DEF Step
<1>8. ASSUME NEW p \in Processes, NEW m \in Models, Restart(p, m)
      PROVE  FreshInv'
  <2>1. ASSUME NEW u \in Threads PROVE Fresh(u)'
    <3>1. CASE Process[u] = p
      <4>1. pc'[u] = "idle" /\ op'[u] # "search"
        BY <1>8, <3>1, NoneAssumption DEF Restart, Forget, Operations
      <4>2. QED
        BY <4>1 DEF Fresh, Alone
    <3>2. CASE Process[u] # p
      <4>1. /\ pc'[u] = pc[u] /\ local'[u] = local[u] /\ since'[u] = since[u]
            /\ racing'[u] = racing[u] /\ pinned'[u] = pinned[u]
            /\ stale'[u] = stale[u] /\ (Alone(u)' <=> Alone(u))
            /\ table'[Process[u]] = table[Process[u]]
        BY <1>8, <3>2, ProcessAssumption DEF Restart, Forget, Alone, TypeOK
      <4>2. \A v \in Siblings(u) : Opening(v)' <=> Opening(v)
        BY <1>8, <3>2 DEF Restart, Forget, Siblings, Opening
      <4>3. ASSUME pc[u] = "take"
            PROVE  pinned'[table[Process[u]]] = pinned[table[Process[u]]]
        <5>1. table[Process[u]] \in Threads /\ Process[table[Process[u]]] = Process[u]
          BY <4>3, ProcessAssumption DEF TypeOK, ObjectInv
        <5>2. QED
          BY <1>8, <3>2, <5>1 DEF Restart, Forget
      <4>4. ASSUME pc[u] = "use"
            PROVE  pinned'[local[u]] = pinned[local[u]]
        <5>1. local[u] \in Threads /\ Process[local[u]] = Process[u]
          BY <4>4 DEF TypeOK, ObjectInv
        <5>2. QED
          BY <1>8, <3>2, <5>1 DEF Restart, Forget
      <4>5. QED
        BY <4>1, <4>2, <4>3, <4>4 DEF Fresh, FreshInv, Siblings
    <3>3. QED
      BY <3>1, <3>2
  <2>2. QED
    BY <1>1, <2>1
<1>9. QED
  BY <1>3, <1>7, <1>8 DEF Next

\* A search sees every version committed before it began, unless its own
\* refresh failed, or another thread of its process opened the table meanwhile.
THEOREM ReadsSeeFinishedWrites == Spec => []ReadsAreFresh
<1>1. Init => FreshInv
  BY NoneAssumption DEF Init, Fresh, FreshInv, Alone, Operations
<1>2. TypeOK /\ ObjectInv /\ TypeOK' /\ ObjectInv' /\ FreshInv /\ [Next]_vars => FreshInv'
  BY FreshStep
<1>3. FreshInv => ReadsAreFresh
  BY DEF Fresh, FreshInv, Alone, ReadsAreFresh
<1>4. QED
  BY <1>1, <1>2, <1>3, TypeCorrect, PTL DEF Spec

-----------------------------------------------------------------------------
(* An existing table is found.                                             *)

\* Whoever is about to create the table began when there was none.
CreateInv == \A t \in Threads : pc[t] = "create" => since[t] = 0

\* An operation that began when the table existed finds it in the listing.
LEMMA ListFinds ==
    ASSUME TypeOK, NEW t \in Threads, since[t] > 0
    PROVE  Exists
<1>1. Latest \in Nat /\ since[t] \in 0..Latest
  BY DEF TypeOK, Latest
<1>2. Latest > 0
  BY <1>1
<1>3. QED
  BY <1>2 DEF Exists, Latest, TypeOK

\* No step breaks CreateInv: only List moves a thread to "create".
LEMMA CreateStep ==
    ASSUME TypeOK, CreateInv, [Next]_vars
    PROVE  CreateInv'
<1>1. CASE UNCHANGED vars
  BY <1>1 DEF vars, CreateInv
<1>2. ASSUME NEW t \in Threads, Step(t) PROVE CreateInv'
  <2>1. SUFFICES ASSUME NEW u \in Threads, pc'[u] = "create" PROVE since'[u] = 0
    BY DEF CreateInv
  <2>2. CASE u # t
    <3>1. pc[u] = "create" /\ since'[u] = since[u]
      BY <1>2, <2>1, <2>2 DEF Step, Begin, Refresh, RefreshFails, Take, Connect,
         ConnectFails, List, OpenTable, OpenUnasserted, CreateTable, Publish, Search, Upsert, Delete, Fail,
         Commit, Goto, Return, TypeOK
    <3>2. QED
      BY <3>1 DEF CreateInv
  <2>3. CASE u = t
    <3>1. List(t) /\ ~Exists /\ since' = since
      BY <1>2, <2>1, <2>3 DEF Step, Begin, Refresh, RefreshFails, Take, Connect,
         ConnectFails, List, OpenTable, OpenUnasserted, CreateTable, Publish, Search, Upsert, Delete, Fail,
         Commit, Goto, Return, TypeOK
    <3>2. ~(since[t] > 0)
      BY <3>1, ListFinds
    <3>3. since[t] \in Nat
      BY DEF TypeOK, Latest
    <3>4. QED
      BY <2>3, <3>1, <3>2, <3>3
  <2>4. QED
    BY <2>2, <2>3
<1>3. ASSUME NEW p \in Processes, NEW m \in Models, Restart(p, m) PROVE CreateInv'
  BY <1>3 DEF Restart, Forget, CreateInv
<1>4. QED
  BY <1>1, <1>2, <1>3 DEF Next

\* A step answers as without a table, or crashes, only where there was none at
\* the operation's begin, or no connection.
LEMMA FoundStep ==
    ASSUME TypeOK, CreateInv, Next, NEW t \in Threads, since[t] > 0
    PROVE  /\ result'[t] = "crashed" => result[t] = "crashed"
           /\ result'[t] = "absent" /\ result[t] # "absent" => ~connected[Process[t]]
<1>1. Exists
  BY ListFinds
<1>2. pc[t] # "create"
  BY DEF CreateInv
<1>3. ASSUME NEW u \in Threads, Step(u), u # t PROVE result'[t] = result[t]
  <2>1. CASE \E o \in Operations : Begin(u, o)
    BY <1>3, <2>1 DEF Begin, TypeOK
  <2>2. CASE \/ Refresh(u) \/ RefreshFails(u) \/ Take(u) \/ Connect(u) \/ Publish(u)
             \/ OpenUnasserted(u)
    BY <2>2 DEF Refresh, RefreshFails, Take, Connect, Publish, OpenUnasserted, Goto
  <2>3. CASE ConnectFails(u) \/ List(u) \/ OpenTable(u) \/ CreateTable(u)
    BY <1>3, <2>3 DEF ConnectFails, List, OpenTable, CreateTable, Goto, Return, TypeOK
  <2>4. CASE Search(u) \/ Fail(u) \/ Upsert(u) \/ Delete(u)
    BY <1>3, <2>4 DEF Search, Fail, Upsert, Delete, Commit, Return, TypeOK
  <2>5. QED
    BY <1>3, <2>1, <2>2, <2>3, <2>4 DEF Step
<1>4. ASSUME Step(t)
      PROVE  result'[t] \in {"done", result[t]} \/ ConnectFails(t)
  BY <1>1, <1>2, <1>4 DEF Step, Begin, Refresh, RefreshFails, Take, Connect,
     List, OpenTable, OpenUnasserted, CreateTable, Publish, Search, Upsert, Delete, Fail,
     Commit, Goto, Return, TypeOK
<1>5. ASSUME ConnectFails(t)
      PROVE  ~connected[Process[t]] /\ result'[t] # "crashed"
  BY <1>5 DEF ConnectFails, Return, Swallowed, TypeOK
<1>6. ASSUME NEW p \in Processes, NEW m \in Models, Restart(p, m)
      PROVE  result'[t] \in {"done", result[t]}
  BY <1>6 DEF Restart, Forget
<1>7. QED
  BY <1>3, <1>4, <1>5, <1>6 DEF Next

\* An operation that begins when the table exists is never answered as before
\* the first ingest while its process has a connection, and never crashes on
\* creating the table.
THEOREM ExistingTablesAreFound == Spec => ExistingTableIsFound
<1>1. Init => CreateInv
  BY DEF Init, CreateInv
<1>2. TypeOK /\ CreateInv /\ [Next]_vars => CreateInv'
  BY CreateStep
<1>3. TypeOK /\ CreateInv /\ [Next]_vars
        => [\A t \in Threads : since[t] > 0 =>
              /\ result'[t] = "crashed" => result[t] = "crashed"
              /\ result'[t] = "absent" /\ result[t] # "absent"
                    => ~connected[Process[t]]]_vars
  BY FoundStep
<1>4. QED
  BY <1>1, <1>2, <1>3, TypeCorrect, PTL DEF Spec, ExistingTableIsFound

-----------------------------------------------------------------------------
(* The Postgres store: its types.                                          *)

LEMMA PgTypeInit == PgInit => PgTypeOK
BY DEF PgInit, PgTypeOK, PgSteps

LEMMA PgTypeStep ==
    ASSUME PgTypeOK, [PgNext]_pgVars
    PROVE  PgTypeOK'
<1> USE ProcessAssumption
<1>1. ASSUME NEW t \in Threads, NEW o \in Operations, PgBegin(t, o) PROVE PgTypeOK'
  BY <1>1 DEF PgTypeOK, PgBegin, PgSteps
<1>2. ASSUME NEW t \in Threads, PgConnect(t) PROVE PgTypeOK'
  BY <1>2 DEF PgTypeOK, PgConnect, SetConn, PgGoto, PgSteps
<1>3. ASSUME NEW t \in Threads, Register(t) PROVE PgTypeOK'
  BY <1>3 DEF PgTypeOK, Register, SetConn, PgGoto, PgReturn, PgSteps
<1>4. ASSUME NEW t \in Threads, TestReady(t) PROVE PgTypeOK'
  BY <1>4 DEF PgTypeOK, TestReady, AfterReady, PgGoto, PgSteps
<1>5. ASSUME NEW t \in Threads, CreateSchema(t) PROVE PgTypeOK'
  BY <1>5 DEF PgTypeOK, CreateSchema, PgGoto, PgSteps
<1>6. ASSUME NEW t \in Threads, CheckModel(t) PROVE PgTypeOK'
  <2>1. accepted' \subseteq Models
    BY <1>6 DEF PgTypeOK, CheckModel, ModelOf
  <2>2. CASE SetReady(t) /\ PgGoto(t, "use")
    BY <1>6, <2>1, <2>2 DEF PgTypeOK, CheckModel, SetReady, PgGoto, PgSteps
  <2>3. CASE PgReturn(t) /\ UNCHANGED ready
    BY <1>6, <2>1, <2>3 DEF PgTypeOK, CheckModel, PgReturn, PgSteps
  <2>4. QED
    BY <1>6, <2>2, <2>3 DEF CheckModel
<1>7. ASSUME NEW t \in Threads, PgSearch(t) PROVE PgTypeOK'
  BY <1>7 DEF PgTypeOK, PgSearch, PgReturn, PgSteps
<1>8. ASSUME NEW t \in Threads, PgUpsert(t) PROVE PgTypeOK'
  <2>1. rows' \subseteq Models /\ (rows' # {} => extension)
    BY <1>8 DEF PgTypeOK, PgUpsert, ModelOf, Connection
  <2>2. QED
    BY <1>8, <2>1 DEF PgTypeOK, PgUpsert, PgReturn, PgSteps
<1>9. ASSUME NEW t \in Threads, PgDelete(t) PROVE PgTypeOK'
  <2>1. rows' \subseteq rows
    BY <1>9 DEF PgDelete
  <2>2. rows' \subseteq Models /\ (rows' # {} => extension)
    BY <2>1 DEF PgTypeOK
  <2>3. QED
    BY <1>9, <2>2 DEF PgTypeOK, PgDelete, PgReturn, PgSteps
<1>10. ASSUME NEW t \in Threads, PgFail(t) PROVE PgTypeOK'
  BY <1>10 DEF PgTypeOK, PgFail, PgReturn, PgSteps
<1>11. ASSUME NEW p \in Processes, Lose(p) PROVE PgTypeOK'
  BY <1>11 DEF PgTypeOK, Lose
<1>12. ASSUME NEW p \in Processes, NEW m \in Models, PgRestart(p, m) PROVE PgTypeOK'
  BY <1>12 DEF PgTypeOK, PgRestart, PgSteps
<1>13. CASE UNCHANGED pgVars
  BY <1>13 DEF PgTypeOK, pgVars
<1>14. QED
  BY <1>1, <1>2, <1>3, <1>4, <1>5, <1>6, <1>7, <1>8, <1>9, <1>10, <1>11, <1>12, <1>13
     DEF PgNext, PgStep

\* Every reachable state is well typed, and a thread uses the table only in a
\* process that passed the check (pgvector_store._connection).
THEOREM PgTypeCorrect == PgSpec => []PgTypeOK
BY PgTypeInit, PgTypeStep, PTL DEF PgSpec

-----------------------------------------------------------------------------
(* What one check of one row per process keeps apart.                      *)

\* The table names accepted models only, and every process that passed the check
\* is configured with one: over rows, because it found its own model there.
CheckedInv ==
    /\ rows \subseteq accepted
    /\ \A p \in Processes : ready[p] => model[p] \in accepted

ModelInv == PgTypeOK /\ CheckedInv

\* Every step keeps to what was accepted, and adds to it only over an empty table.
LEMMA CheckedStep ==
    ASSUME ModelInv, [PgNext]_pgVars
    PROVE  CheckedInv' /\ (PgContract!Next \/ UNCHANGED <<rows, accepted>>)
<1>1. Process \in [Threads -> Processes] /\ ready \in [Processes -> BOOLEAN]
      /\ \A t \in Threads : ModelOf(t) \in Models
  BY ProcessAssumption DEF ModelInv, PgTypeOK, ModelOf
<1>2. CASE UNCHANGED <<rows, accepted, model, ready>>
  BY <1>2 DEF ModelInv, CheckedInv
<1>3. ASSUME NEW t \in Threads, CheckModel(t)
      PROVE  CheckedInv' /\ (PgContract!Next \/ UNCHANGED <<rows, accepted>>)
  <2>1. rows' = rows /\ model' = model
    BY <1>3 DEF CheckModel
  <2>2. CASE rows = {} /\ accepted' = accepted \cup {ModelOf(t)} /\ SetReady(t)
    <3>1. \A p \in Processes : ready'[p] => ready[p] \/ p = Process[t]
      BY <1>1, <2>2 DEF SetReady
    <3>2. CheckedInv'
      BY <2>1, <2>2, <3>1 DEF ModelInv, CheckedInv, ModelOf
    <3>3. PgContract!Accept(ModelOf(t))
      BY <2>1, <2>2 DEF PgContract!Accept
    <3>4. QED
      BY <1>1, <3>2, <3>3 DEF PgContract!Next
  <2>3. CASE ModelOf(t) \in rows /\ SetReady(t) /\ accepted' = accepted
    <3>1. \A p \in Processes : ready'[p] => ready[p] \/ p = Process[t]
      BY <1>1, <2>3 DEF SetReady
    <3>2. ModelOf(t) \in accepted
      BY <2>3 DEF ModelInv, CheckedInv
    <3>3. QED
      BY <2>1, <2>3, <3>1, <3>2 DEF ModelInv, CheckedInv, ModelOf
  <2>4. CASE UNCHANGED <<ready, accepted>>
    BY <1>2, <2>1, <2>4
  <2>5. QED
    BY <1>3, <2>2, <2>3, <2>4 DEF CheckModel
<1>4. ASSUME NEW t \in Threads, PgUpsert(t)
      PROVE  CheckedInv' /\ (PgContract!Next \/ UNCHANGED <<rows, accepted>>)
  <2>1. ModelOf(t) \in accepted
    BY <1>1, <1>4 DEF ModelInv, PgTypeOK, CheckedInv, PgUpsert, ModelOf
  <2>2. UNCHANGED <<accepted, model, ready>>
    BY <1>4 DEF PgUpsert
  <2>3. rows' = rows \/ rows' = rows \cup {ModelOf(t)}
    BY <1>4 DEF PgUpsert
  <2>4. CASE rows' = rows
    BY <1>2, <2>2, <2>4
  <2>5. CASE rows' = rows \cup {ModelOf(t)}
    <3>1. PgContract!Write(ModelOf(t))
      BY <2>1, <2>2, <2>5 DEF PgContract!Write
    <3>2. QED
      BY <1>1, <2>1, <2>2, <2>5, <3>1 DEF ModelInv, CheckedInv, PgContract!Next
  <2>6. QED
    BY <2>3, <2>4, <2>5
<1>5. ASSUME NEW t \in Threads, PgDelete(t)
      PROVE  CheckedInv' /\ (PgContract!Next \/ UNCHANGED <<rows, accepted>>)
  <2>1. rows' \subseteq rows /\ UNCHANGED <<accepted, model, ready>>
    BY <1>5 DEF PgDelete
  <2>2. PgContract!Delete
    BY <2>1 DEF PgContract!Delete
  <2>3. QED
    BY <2>1, <2>2 DEF ModelInv, CheckedInv, PgContract!Next
<1>6. ASSUME NEW p \in Processes, NEW m \in Models, PgRestart(p, m)
      PROVE  CheckedInv' /\ (PgContract!Next \/ UNCHANGED <<rows, accepted>>)
  <2>1. UNCHANGED <<rows, accepted>>
    BY <1>6 DEF PgRestart
  <2>2. ASSUME NEW q \in Processes, ready'[q] PROVE ready[q] /\ model'[q] = model[q]
    BY <1>1, <1>6, <2>2 DEF PgRestart, ModelInv, PgTypeOK
  <2>3. QED
    BY <2>1, <2>2 DEF ModelInv, CheckedInv
<1>7. ASSUME NEW t \in Threads, PgStep(t)
      PROVE  CheckedInv' /\ (PgContract!Next \/ UNCHANGED <<rows, accepted>>)
  BY <1>2, <1>3, <1>4, <1>5, <1>7
     DEF PgStep, PgBegin, PgConnect, Register, TestReady, CreateSchema, PgSearch, PgFail
<1>8. QED
  BY <1>2, <1>6, <1>7 DEF PgNext, Lose, pgVars

\* From any database, the store implements the promise of assert_model_matches as
\* far as it is asked: a second model comes in only where the check found no row.
THEOREM PgImplementsContract == PgSpec => PgKeepsContract
<1>1. PgInit => ModelInv
  <2>1. PgInit => CheckedInv
    BY DEF PgInit, CheckedInv
  <2>2. QED
    BY <2>1, PgTypeInit DEF ModelInv
<1>2. ModelInv /\ [PgNext]_pgVars => ModelInv'
  BY PgTypeStep, CheckedStep DEF ModelInv
<1>3. PgInit => PgContract!Init
  BY DEF PgInit, PgContract!Init
<1>4. ModelInv /\ [PgNext]_pgVars => [PgContract!Next]_<<rows, accepted>>
  BY CheckedStep
<1>5. QED
  BY <1>1, <1>2, <1>3, <1>4, PTL DEF PgSpec, PgKeepsContract, PgContract!Spec
=============================================================================
