--------------------------- MODULE LLMChainProofs ---------------------------
(***************************************************************************)
(* Proofs about LLMChain, for every set of threads, every chain without a  *)
(* repeated model and all retry and failure limits.                        *)
(***************************************************************************)
EXTENDS LLMChain, WellFoundedInduction, TLAPS

\* First returns the least element of a set of chain positions.
LEMMA FirstIsLeast ==
    ASSUME NEW S \in SUBSET Positions, S # {}
    PROVE  /\ First(S) \in S
           /\ \A j \in S : First(S) <= j
<1>1. Positions \subseteq Nat
  BY ChainAssumption DEF Positions
<1>2. PICK i \in S : \A j \in S : <<j, i>> \notin OpToRel(<, Nat)
  BY <1>1, WFMin, NatLessThanWellFounded, Zenon
<1>3. \A j \in S : i <= j
  <2>1. ASSUME NEW j \in S PROVE ~(j < i)
    BY <1>1, <1>2, Zenon DEF OpToRel
  <2>2. QED
    BY <1>1, <2>1
<1>4. QED
  BY <1>3 DEF First

\* The entry a call is at belongs to a model of the chain.
LEMMA CurrentIsModel ==
    ASSUME TypeOK, NEW t \in Threads, Active(t)
    PROVE  /\ First(todo[t]) \in todo[t]
           /\ First(todo[t]) \in Positions
           /\ Current(t) \in Models
           /\ \A j \in todo[t] : First(todo[t]) <= j
<1>1. todo[t] \in SUBSET Positions /\ todo[t] # {}
  BY DEF TypeOK
<1>2. First(todo[t]) \in todo[t] /\ \A j \in todo[t] : First(todo[t]) <= j
  BY <1>1, FirstIsLeast
<1>3. First(todo[t]) \in Positions
  BY <1>1, <1>2
<1>4. QED
  BY <1>2, <1>3, ChainAssumption DEF Current, Positions

-----------------------------------------------------------------------------
(* Type correctness.                                                       *)

\* Return leaves the thread idle and every per-call variable reset.
LEMMA ReturnTypes ==
    ASSUME TypeOK, NEW t \in Threads, NEW o \in Outcomes, Return(t, o)
    PROVE  /\ pc' \in [Threads -> {"idle", "pace", "ask", "recordFailure", "recordSuccess"}]
           /\ snapshot' \in [Threads -> SUBSET Positions]
           /\ todo' \in [Threads -> SUBSET Positions]
           /\ \A u \in Threads : todo'[u] \subseteq snapshot'[u]
           /\ \A u \in Threads : Active(u)' => todo'[u] # {}
           /\ attempt' \in [Threads -> 1..(MaxRetries + 1)]
           /\ error' \in [Threads -> Failures \cup {None}]
           /\ \A u \in Threads : pc'[u] = "recordFailure" => error'[u] \in Failures
           /\ outcome' \in [Threads -> Outcomes]
           /\ tried' \in [Threads -> SUBSET Models]
<1>1. 1 \in 1..(MaxRetries + 1)
  BY LimitsAssumption
<1>2. QED
  BY <1>1 DEF Return, TypeOK, Active

\* Recording a failure keeps the breakers well typed.
LEMMA RecordTypes ==
    ASSUME TypeOK, NEW m \in Models, RecordTransient(m) \/ RecordFatal(m)
    PROVE  isOpen' \in [Models -> BOOLEAN] /\ consecutive' \in [Models -> Nat]
<1>1. isOpen \in [Models -> BOOLEAN] /\ consecutive \in [Models -> Nat]
  BY DEF TypeOK
<1>2. CASE RecordFatal(m)
  BY <1>1, <1>2 DEF RecordFatal
<1>3. CASE RecordTransient(m)
  <2>1. isOpen' \in [Models -> BOOLEAN]
    BY <1>1, <1>3, Zenon DEF RecordTransient
  <2>2. consecutive' \in [Models -> Nat]
    BY <1>1, <1>3 DEF RecordTransient
  <2>3. QED
    BY <2>1, <2>2
<1>4. QED
  BY <1>2, <1>3

\* Every reachable state is well typed; in particular no provider is asked
\* more than MaxRetries + 1 times by one call.
THEOREM TypeCorrect == Spec => []TypeOK
<1>1. Init => TypeOK
  BY LimitsAssumption
     DEF Init, TypeOK, Active, NoOutcome, Outcomes
<1>2. TypeOK /\ [Next]_vars => TypeOK'
  <2> SUFFICES ASSUME TypeOK, [Next]_vars PROVE TypeOK'
    OBVIOUS
  <2>1. ASSUME NEW t \in Threads, Begin(t) PROVE TypeOK'
    <3>1. Available \in SUBSET Positions /\ 1 \in 1..(MaxRetries + 1)
      BY LimitsAssumption DEF Available
    <3>2. Failed \in Outcomes /\ NoOutcome \in Outcomes
      BY DEF Failed, NoOutcome, Outcomes
    <3>3. CASE Available = {}
      BY <2>1, <3>2, <3>3 DEF Begin, chainVars, TypeOK, Active
    <3>4. CASE Available # {}
      BY <2>1, <3>1, <3>2, <3>4 DEF Begin, chainVars, TypeOK, Active
    <3>5. QED
      BY <3>3, <3>4
  <2>2. ASSUME NEW t \in Threads, AttemptAnswers(t) \/ Pace(t) PROVE TypeOK'
    BY <2>2 DEF AttemptAnswers, Pace, chainVars, TypeOK, Active
  <2>3. ASSUME NEW t \in Threads, NEW f \in Failures, AttemptFails(t, f)
        PROVE  TypeOK'
    <3>1. CASE Transient(f) /\ attempt[t] <= MaxRetries
      <4>1. attempt' \in [Threads -> 1..(MaxRetries + 1)]
        BY <2>3, <3>1, LimitsAssumption DEF AttemptFails, TypeOK
      <4>2. QED
        BY <2>3, <3>1, <4>1 DEF AttemptFails, chainVars, TypeOK, Active
    <3>2. CASE ~(Transient(f) /\ attempt[t] <= MaxRetries)
      BY <2>3, <3>2 DEF AttemptFails, chainVars, TypeOK, Active
    <3>3. QED
      BY <3>1, <3>2
  <2>4. ASSUME NEW t \in Threads, AttemptMalformed(t) PROVE TypeOK'
    <3>1. Escaped \in Outcomes
      BY DEF Escaped, NoOutcome, Outcomes
    <3>2. QED
      BY <2>4, <3>1, ReturnTypes DEF AttemptMalformed, chainVars, TypeOK
  <2>5. ASSUME NEW t \in Threads, GiveUp(t) PROVE TypeOK'
    <3> DEFINE rest == todo[t] \ {First(todo[t])}
    <3>1. Current(t) \in Models
      BY <2>5, CurrentIsModel DEF GiveUp, Active
    <3>2. isOpen' \in [Models -> BOOLEAN] /\ consecutive' \in [Models -> Nat]
      BY <2>5, <3>1, RecordTypes DEF GiveUp
    <3>3. CASE rest = {}
      <4>1. Failed \in Outcomes
        BY DEF Failed, NoOutcome, Outcomes
      <4>2. QED
        BY <2>5, <3>2, <3>3, <4>1, ReturnTypes DEF GiveUp, TypeOK
    <3>4. CASE rest # {}
      <4>1. late' \in [Models -> SUBSET Threads]
        <5> DEFINE m == Chain[First(rest)]
                   value == IF isOpen[m] THEN late[m] \cup {t} ELSE late[m]
        <5>1. late' = [late EXCEPT ![m] = value]
          BY <2>5, <3>4 DEF GiveUp
        <5>2. late \in [Models -> SUBSET Threads]
          BY DEF TypeOK
        <5>3. m \in Models => value \in SUBSET Threads
          BY <5>2, Zenon
        <5> HIDE DEF m, value
        <5>4. QED
          BY <5>1, <5>2, <5>3
      <4>2. 1 \in 1..(MaxRetries + 1)
        BY LimitsAssumption
      <4>3. rest \in SUBSET Positions
        BY DEF TypeOK
      <4>4. /\ pc' = [pc EXCEPT ![t] = "pace"]
            /\ todo' = [todo EXCEPT ![t] = rest]
            /\ attempt' = [attempt EXCEPT ![t] = 1]
            /\ error' = [error EXCEPT ![t] = None]
            /\ tried' = [tried EXCEPT ![t] = @ \cup {Current(t)}]
            /\ UNCHANGED <<snapshot, outcome>>
        BY <2>5, <3>4 DEF GiveUp
      <4>5. /\ todo' \in [Threads -> SUBSET Positions]
            /\ \A u \in Threads : todo'[u] \subseteq snapshot'[u]
            /\ tried' \in [Threads -> SUBSET Models]
        BY <3>1, <4>3, <4>4 DEF TypeOK
      <4>6. /\ pc' \in [Threads -> {"idle", "pace", "ask", "recordFailure", "recordSuccess"}]
            /\ \A u \in Threads : Active(u)' => todo'[u] # {}
            /\ \A u \in Threads : pc'[u] = "recordFailure" => error'[u] \in Failures
        BY <3>4, <4>4 DEF TypeOK, Active
      <4>7. /\ attempt' \in [Threads -> 1..(MaxRetries + 1)]
            /\ error' \in [Threads -> Failures \cup {None}]
        BY <4>2, <4>4 DEF TypeOK
      <4>8. QED
        BY <3>2, <4>1, <4>4, <4>5, <4>6, <4>7 DEF TypeOK
    <3>5. QED
      BY <3>3, <3>4
  <2>6. ASSUME NEW t \in Threads, Succeed(t) PROVE TypeOK'
    <3>1. Current(t) \in Models
      BY <2>6, CurrentIsModel DEF Succeed, Active
    <3>2. Answer(t) \in Outcomes
      BY <3>1 DEF Answer, Outcomes
    <3>3. isOpen' \in [Models -> BOOLEAN] /\ consecutive' \in [Models -> Nat]
      BY <2>6, <3>1 DEF Succeed, RecordSuccess, TypeOK
    <3>4. QED
      BY <2>6, <3>2, <3>3, ReturnTypes DEF Succeed, TypeOK
  <2>7. CASE UNCHANGED vars
    BY <2>7 DEF vars, TypeOK, Active
  <2>8. QED
    BY <2>1, <2>2, <2>3, <2>4, <2>5, <2>6, <2>7 DEF Next, Step
<1>3. QED
  BY <1>1, <1>2, PTL DEF Spec

-----------------------------------------------------------------------------
(* Circuits.                                                               *)

\* No step closes an open circuit.
LEMMA OpenStep ==
    ASSUME TypeOK, [Next]_vars, NEW m \in Models, isOpen[m]
    PROVE  isOpen'[m]
<1>1. ASSUME NEW n \in Models, RecordFatal(n) PROVE isOpen'[m]
  BY <1>1 DEF RecordFatal, TypeOK
<1>2. ASSUME NEW n \in Models, RecordTransient(n) PROVE isOpen'[m]
  <2>1. isOpen' = [isOpen EXCEPT
                      ![n] = @ \/ consecutive[n] + 1 >= Threshold]
    BY <1>2 DEF RecordTransient
  <2>2. QED
    BY <2>1, Zenon DEF TypeOK
<1>3. ASSUME isOpen' = isOpen PROVE isOpen'[m]
  BY <1>3
<1>4. ASSUME NEW t \in Threads, GiveUp(t) PROVE isOpen'[m]
  <2>1. Current(t) \in Models
    BY <1>4, CurrentIsModel DEF GiveUp, Active
  <2>2. QED
    BY <1>1, <1>2, <1>4, <2>1 DEF GiveUp
<1>5. ASSUME NEW t \in Threads,
             \/ Begin(t) \/ Pace(t)
             \/ AttemptAnswers(t)
             \/ \E f \in Failures : AttemptFails(t, f)
             \/ AttemptMalformed(t)
             \/ Succeed(t)
      PROVE  isOpen'[m]
  BY <1>3, <1>5 DEF Begin, Pace, AttemptAnswers, AttemptFails, AttemptMalformed,
                    Succeed, RecordSuccess, chainVars
<1>6. QED
  BY <1>3, <1>4, <1>5 DEF Next, Step, vars

\* An open circuit stays open for the life of the process.
THEOREM CircuitsStayOpen == Spec => CircuitStaysOpen
<1>1. TypeOK /\ [Next]_vars =>
        [\A m \in Models : isOpen[m] => isOpen'[m]]_vars
  BY OpenStep
<1>2. QED
  BY <1>1, TypeCorrect, PTL DEF Spec, CircuitStaysOpen

-----------------------------------------------------------------------------
(* What a call does with an open circuit.                                  *)

\* A thread that once moved on to an open provider is at that provider's entry
\* or has left it behind, and no later snapshot brings it back.
LateInv ==
    \A m \in Models : \A t \in late[m] :
        /\ isOpen[m]
        /\ \A i \in todo[t] : Chain[i] = m => \A j \in todo[t] : i <= j

\* Moving on leaves a least entry of todo behind, open or not.
LEMMA GiveUpKeepsLate ==
    ASSUME TypeOK, LateInv, NEW t \in Threads, GiveUp(t),
           todo[t] \ {First(todo[t])} # {},
           NEW m \in Models, NEW u \in late'[m]
    PROVE  /\ isOpen[m]
           /\ \A i \in todo'[u] : Chain[i] = m => \A j \in todo'[u] : i <= j
<1> DEFINE rest == todo[t] \ {First(todo[t])}
           least == First(rest)
<1>1. /\ rest \in SUBSET Positions /\ rest # {}
      /\ Positions \subseteq Nat
  BY ChainAssumption DEF TypeOK, Positions
<1>2. least \in rest /\ \A j \in rest : least <= j
  BY <1>1, FirstIsLeast
<1>3. todo' = [todo EXCEPT ![t] = rest] /\ todo \in [Threads -> SUBSET Positions]
  BY DEF GiveUp, TypeOK
<1>4. late' = [late EXCEPT ![Chain[least]] =
                  IF isOpen[Chain[least]] THEN @ \cup {t} ELSE @]
  BY DEF GiveUp
<1>5. late \in [Models -> SUBSET Threads]
  BY DEF TypeOK
<1> HIDE DEF rest, least
<1>6. u \in late[m] \/ (u = t /\ m = Chain[least] /\ isOpen[m])
  BY <1>4, <1>5, Zenon
<1>7. CASE u \in late[m] /\ u # t
  BY <1>3, <1>7 DEF LateInv
<1>8. CASE u \in late[m] /\ u = t
  <2>1. isOpen[m]
    BY <1>8 DEF LateInv
  <2>2. ASSUME NEW i \in todo'[u], Chain[i] = m PROVE FALSE
    <3>1. i \in todo[t] /\ i # First(todo[t])
      BY <1>3, <1>5, <1>8, <2>2 DEF rest
    <3>2. First(todo[t]) \in todo[t] /\ \A j \in todo[t] : First(todo[t]) <= j
      BY CurrentIsModel DEF GiveUp, Active
    <3>3. i <= First(todo[t]) /\ First(todo[t]) <= i
      BY <1>8, <2>2, <3>1, <3>2 DEF LateInv
    <3>4. i \in Nat /\ First(todo[t]) \in Nat
      BY <1>1, <1>3, <3>1, <3>2
    <3>5. QED
      BY <3>1, <3>3, <3>4
  <2>3. QED
    BY <2>1, <2>2
<1>9. CASE u = t /\ m = Chain[least] /\ isOpen[m]
  <2>1. ASSUME NEW i \in todo'[u], Chain[i] = m PROVE i = least
    <3>1. i \in rest
      BY <1>3, <1>9, <2>1
    <3>2. i \in DOMAIN Chain /\ least \in DOMAIN Chain
      BY <1>1, <1>2, <3>1 DEF Positions
    <3>3. QED
      BY <1>9, <2>1, <3>2, ChainAssumption
  <2>2. todo'[u] = rest
    BY <1>3, <1>9
  <2>3. QED
    BY <1>2, <1>9, <2>1, <2>2
<1>10. QED
  BY <1>6, <1>7, <1>8, <1>9

\* A step keeps late threads behind the open providers they asked.
LEMMA LateStep ==
    ASSUME TypeOK, LateInv, [Next]_vars
    PROVE  LateInv'
<1>1. \A m \in Models : isOpen[m] => isOpen'[m]
  BY OpenStep
<1>2. late \in [Models -> SUBSET Threads] /\ todo \in [Threads -> SUBSET Positions]
  BY DEF TypeOK
<1>3. ASSUME late' = late, todo' = todo PROVE LateInv'
  BY <1>1, <1>3 DEF LateInv
<1>4. ASSUME NEW t \in Threads, late' = late, todo' = [todo EXCEPT ![t] = {}]
      PROVE  LateInv'
  BY <1>1, <1>2, <1>4 DEF LateInv
<1>5. ASSUME NEW t \in Threads, Begin(t) PROVE LateInv'
  <2>1. CASE Available = {}
    BY <1>3, <1>5, <2>1 DEF Begin
  <2>2. CASE Available # {}
    <3>1. late' = late /\ isOpen' = isOpen /\ todo' = [todo EXCEPT ![t] = Available]
      BY <1>5, <2>2 DEF Begin, chainVars
    <3>2. \A i \in Available : ~isOpen[Chain[i]]
      BY DEF Available
    <3>3. QED
      BY <1>2, <3>1, <3>2 DEF LateInv
  <2>3. QED
    BY <2>1, <2>2
<1>6. ASSUME NEW t \in Threads,
             \/ Pace(t) \/ AttemptAnswers(t)
             \/ \E f \in Failures : AttemptFails(t, f)
      PROVE  LateInv'
  BY <1>3, <1>6 DEF Pace, AttemptAnswers, AttemptFails
<1>7. ASSUME NEW t \in Threads, AttemptMalformed(t) \/ Succeed(t) PROVE LateInv'
  BY <1>4, <1>7 DEF AttemptMalformed, Succeed, Return
<1>8. ASSUME NEW t \in Threads, GiveUp(t) PROVE LateInv'
  <2>1. CASE todo[t] \ {First(todo[t])} = {}
    BY <1>4, <1>8, <2>1 DEF GiveUp, Return
  <2>2. CASE todo[t] \ {First(todo[t])} # {}
    BY <1>1, <1>8, <2>2, GiveUpKeepsLate DEF LateInv
  <2>3. QED
    BY <2>1, <2>2
<1>9. CASE UNCHANGED vars
  BY <1>3, <1>9 DEF vars
<1>10. QED
  BY <1>5, <1>6, <1>7, <1>8, <1>9 DEF Next, Step

\* A thread begins to ask an open provider at most once.
THEOREM DeadProvidersAskedOnce == Spec => AsksDeadOnce
<1>1. Init => LateInv
  BY DEF Init, LateInv
<1>2. TypeOK /\ LateInv /\ [Next]_vars => LateInv'
  BY LateStep
<1>3. TypeOK /\ LateInv /\ [Next]_vars =>
        [\A t \in Threads, i \in Positions :
            /\ pc[t] = "recordFailure"
            /\ pc'[t] = "pace"
            /\ i \in todo'[t] /\ \A j \in todo'[t] : i <= j
            /\ isOpen[Chain[i]]
            => t \notin late[Chain[i]]]_vars
  <2> SUFFICES ASSUME TypeOK, LateInv, [Next]_vars,
                      NEW t \in Threads, NEW i \in Positions,
                      pc[t] = "recordFailure", pc'[t] = "pace", i \in todo'[t],
                      t \in late[Chain[i]]
               PROVE  FALSE
    OBVIOUS
  <2>1. GiveUp(t)
    <3>1. ASSUME NEW u \in Threads, u # t, Begin(u) \/ Pace(u) \/ Step(u)
          PROVE  pc'[t] = pc[t]
      BY <3>1 DEF Begin, Pace, Step, AttemptAnswers, AttemptFails, AttemptMalformed,
                  GiveUp, Succeed, Return, TypeOK
    <3>2. Begin(t) \/ Pace(t) \/ Step(t)
      BY <3>1 DEF Next, vars
    <3>3. QED
      BY <3>2 DEF Begin, Pace, Step, AttemptAnswers, AttemptFails, AttemptMalformed,
                  Succeed, Active
  <2>2. todo[t] \ {First(todo[t])} # {}
    BY <2>1 DEF GiveUp, Return, TypeOK
  <2>3. i \in todo[t] /\ i # First(todo[t])
    BY <2>1, <2>2 DEF GiveUp, TypeOK
  <2>4. First(todo[t]) \in todo[t] /\ \A j \in todo[t] : First(todo[t]) <= j
    BY CurrentIsModel DEF Active
  <2>5. Chain[i] \in Models /\ Positions \subseteq Nat
    BY ChainAssumption DEF Positions
  <2>6. i <= First(todo[t]) /\ First(todo[t]) <= i
    BY <2>3, <2>4, <2>5 DEF LateInv
  <2>7. i \in Nat /\ First(todo[t]) \in Nat
    BY <2>4, <2>5 DEF TypeOK
  <2>8. QED
    BY <2>3, <2>6, <2>7
<1>4. QED
  BY <1>1, <1>2, <1>3, TypeCorrect, PTL DEF Spec, AsksDeadOnce

-----------------------------------------------------------------------------
(* What a call's outcome says of the providers.                            *)

\* The entries a call has left behind come before those it has left to ask,
\* and all of them failed it.
CallInv ==
    \A t \in Threads : Active(t) =>
        /\ outcome[t] = NoOutcome
        /\ \A i \in snapshot[t] \ todo[t] :
              /\ Chain[i] \in tried[t]
              /\ \A j \in todo[t] : i <= j

\* A call starts with nothing left behind, and leaves only its least entry.
LEMMA CallStep ==
    ASSUME TypeOK, CallInv, [Next]_vars
    PROVE  CallInv'
<1>1. /\ snapshot \in [Threads -> SUBSET Positions]
      /\ todo \in [Threads -> SUBSET Positions]
      /\ tried \in [Threads -> SUBSET Models]
      /\ DOMAIN pc = Threads /\ DOMAIN outcome = Threads
  BY DEF TypeOK
<1>2. ASSUME NEW t \in Threads, Begin(t) PROVE CallInv'
  <2>1. CASE Available = {}
    BY <1>1, <1>2, <2>1 DEF Begin, CallInv, Active
  <2>2. CASE Available # {}
    BY <1>1, <1>2, <2>2 DEF Begin, CallInv, Active
  <2>3. QED
    BY <2>1, <2>2
<1>3. ASSUME NEW t \in Threads,
             \/ Pace(t) \/ AttemptAnswers(t)
             \/ \E f \in Failures : AttemptFails(t, f)
      PROVE  CallInv'
  BY <1>1, <1>3 DEF Pace, AttemptAnswers, AttemptFails, CallInv, Active
<1>4. ASSUME NEW t \in Threads, NEW o, Return(t, o) PROVE CallInv'
  BY <1>1, <1>4 DEF Return, CallInv, Active
<1>5. ASSUME NEW t \in Threads, AttemptMalformed(t) \/ Succeed(t) PROVE CallInv'
  BY <1>4, <1>5 DEF AttemptMalformed, Succeed
<1>6. ASSUME NEW t \in Threads, GiveUp(t) PROVE CallInv'
  <2>1. CASE todo[t] \ {First(todo[t])} = {}
    BY <1>4, <1>6, <2>1 DEF GiveUp
  <2>2. CASE todo[t] \ {First(todo[t])} # {}
    <3>1. First(todo[t]) \in todo[t] /\ \A j \in todo[t] : First(todo[t]) <= j
      BY <1>6, CurrentIsModel DEF GiveUp, Active
    <3>2. /\ pc' = [pc EXCEPT ![t] = "pace"]
          /\ todo' = [todo EXCEPT ![t] = todo[t] \ {First(todo[t])}]
          /\ tried' = [tried EXCEPT ![t] = tried[t] \cup {Current(t)}]
          /\ snapshot' = snapshot /\ outcome' = outcome
          /\ Active(t)
      BY <1>6, <2>2 DEF GiveUp, Active
    <3>3. ASSUME NEW u \in Threads, u # t, Active(u)'
          PROVE  /\ outcome'[u] = NoOutcome
                 /\ \A i \in snapshot'[u] \ todo'[u] :
                       /\ Chain[i] \in tried'[u]
                       /\ \A j \in todo'[u] : i <= j
      BY <1>1, <3>2, <3>3 DEF CallInv, Active
    <3>4. ASSUME NEW i \in snapshot[t] \ todo'[t]
          PROVE  /\ Chain[i] \in tried'[t]
                 /\ \A j \in todo'[t] : i <= j
      <4>1. CASE i \in todo[t]
        <5>1. i = First(todo[t])
          BY <1>1, <3>2, <3>4, <4>1
        <5>2. QED
          BY <1>1, <3>1, <3>2, <5>1 DEF Current
      <4>2. CASE i \notin todo[t]
        BY <1>1, <3>2, <3>4, <4>2 DEF CallInv
      <4>3. QED
        BY <4>1, <4>2
    <3>5. QED
      BY <1>1, <3>2, <3>3, <3>4 DEF CallInv
  <2>3. QED
    BY <2>1, <2>2
<1>7. CASE UNCHANGED vars
  BY <1>7 DEF vars, CallInv, Active
<1>8. QED
  BY <1>2, <1>3, <1>5, <1>6, <1>7 DEF Next, Step

\* An error is reported after every provider of the snapshot failed the call.
LEMMA ErrorIsEarned ==
    ASSUME TypeOK, CallInv, NEW t \in Threads, GiveUp(t),
           todo[t] \ {First(todo[t])} = {}
    PROVE  \A i \in snapshot[t] : Chain[i] \in tried[t] \cup {Current(t)}
BY DEF CallInv, GiveUp, Active, Current

\* An answer comes from the first provider of the snapshot that did not fail.
LEMMA AnswerIsEarned ==
    ASSUME TypeOK, CallInv, NEW t \in Threads, Succeed(t), NEW i \in snapshot[t]
    PROVE  Chain[i] = Current(t) \/ Chain[i] \in tried[t]
             \/ \E j \in snapshot[t] : j < i /\ Chain[j] = Current(t)
<1>1. /\ First(todo[t]) \in todo[t]
      /\ \A j \in todo[t] : First(todo[t]) <= j
      /\ todo[t] \subseteq snapshot[t]
      /\ snapshot[t] \in SUBSET Positions
      /\ Positions \subseteq Nat
  BY CurrentIsModel, ChainAssumption DEF Succeed, Active, TypeOK, Positions
<1>2. CASE i \in todo[t]
  <2>1. i \in Nat /\ First(todo[t]) \in Nat /\ First(todo[t]) <= i
    BY <1>1, <1>2
  <2>2. First(todo[t]) = i \/ First(todo[t]) < i
    BY <2>1
  <2>3. QED
    BY <1>1, <2>2 DEF Current
<1>3. CASE i \notin todo[t]
  BY <1>3 DEF CallInv, Succeed, Active
<1>4. QED
  BY <1>2, <1>3

\* Errors and answers are earned: no call gives up on, or answers past, an
\* available provider that it has not asked.
THEOREM OutcomesAreEarned == Spec => OutcomeIsEarned
<1> DEFINE Earned(t) ==
        /\ Active(t) /\ outcome'[t].kind = "error"
            => \A i \in snapshot[t] : Chain[i] \in tried[t] \cup {Current(t)}
        /\ Active(t) /\ outcome'[t].kind = "answer"
            => \A i \in snapshot[t] :
                  Chain[i] = outcome'[t].model \/ Chain[i] \in tried[t]
                    \/ \E j \in snapshot[t] : j < i /\ Chain[j] = outcome'[t].model
<1>1. Init => CallInv
  BY DEF Init, CallInv, Active
<1>2. TypeOK /\ CallInv /\ [Next]_vars => CallInv'
  BY CallStep
<1>3. TypeOK /\ CallInv /\ [Next]_vars => [\A t \in Threads : Earned(t)]_vars
  <2> SUFFICES ASSUME TypeOK, CallInv, [Next]_vars, NEW t \in Threads, Active(t)
               PROVE  Earned(t)
    BY DEF Active
  <2>1. ASSUME outcome'[t] = outcome[t] PROVE Earned(t)
    BY <2>1 DEF CallInv, NoOutcome
  <2>2. ASSUME AttemptMalformed(t) PROVE Earned(t)
    <3>1. outcome'[t].kind = "escaped"
      BY <2>2 DEF AttemptMalformed, Return, TypeOK, Escaped, NoOutcome
    <3>2. QED
      BY <3>1
  <2>3. ASSUME GiveUp(t) PROVE Earned(t)
    <3>1. CASE todo[t] \ {First(todo[t])} = {}
      <4>1. outcome'[t].kind = "error"
        BY <2>3, <3>1 DEF GiveUp, Return, TypeOK, Failed, NoOutcome
      <4>2. QED
        BY <2>3, <3>1, <4>1, ErrorIsEarned
    <3>2. CASE todo[t] \ {First(todo[t])} # {}
      BY <2>1, <2>3, <3>2 DEF GiveUp
    <3>3. QED
      BY <3>1, <3>2
  <2>4. ASSUME Succeed(t) PROVE Earned(t)
    <3>1. outcome'[t] = Answer(t)
      BY <2>4 DEF Succeed, Return, TypeOK
    <3>2. Answer(t).kind = "answer" /\ Answer(t).model = Current(t)
      BY DEF Answer
    <3>3. QED
      BY <2>4, <3>1, <3>2, AnswerIsEarned
  <2>5. ASSUME Pace(t) \/ AttemptAnswers(t) \/ \E f \in Failures : AttemptFails(t, f)
        PROVE  Earned(t)
    BY <2>1, <2>5 DEF Pace, AttemptAnswers, AttemptFails
  <2>6. ASSUME NEW u \in Threads, u # t, Begin(u) \/ Pace(u) \/ Step(u)
        PROVE  Earned(t)
    <3>1. outcome'[t] = outcome[t]
      BY <2>6 DEF Begin, Pace, Step, AttemptAnswers, AttemptFails, AttemptMalformed,
                  GiveUp, Succeed, Return, TypeOK
    <3>2. QED
      BY <2>1, <3>1
  <2>7. CASE UNCHANGED vars
    BY <2>1, <2>7 DEF vars
  <2>8. QED
    BY <2>2, <2>3, <2>4, <2>5, <2>6, <2>7 DEF Next, Begin, Step
<1>4. QED
  BY <1>1, <1>2, <1>3, TypeCorrect, PTL DEF Spec, OutcomeIsEarned
=============================================================================
