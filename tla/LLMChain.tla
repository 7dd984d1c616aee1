------------------------------ MODULE LLMChain ------------------------------
(***************************************************************************)
(* The provider chain with its circuit breakers (src/src/providers.py) and *)
(* the calls that drive it: complete_with_chain over complete              *)
(* (src/src/llm_client.py).                                                *)
(*                                                                         *)
(* The chain is shared by all request threads and locks each of its        *)
(* methods; a call holds no lock between them.  A call takes the available *)
(* entries once and works through that snapshot, so a circuit may open     *)
(* behind its back.  The chain names every model once, so that the state   *)
(* of an entry is kept by its model.                                       *)
(*                                                                         *)
(* The only caller of complete_with_chain builds a prompt with a fresh     *)
(* nonce, so the disk cache never answers here.  Every attempt first waits *)
(* in _throttle, of which TokenPacer is the model: here it is one step     *)
(* that may take as long as other calls keep coming.  The back-off after a *)
(* failure only delays.  LLMResponse.degraded_from is left out: nothing    *)
(* here depends on it.                                                     *)
(***************************************************************************)
EXTENDS Integers, Sequences, FiniteSets

CONSTANTS
    Threads,       \* request threads
    Models,
    Chain,         \* LLM_PROVIDER_CHAIN, in order of preference
    Credentialed,  \* models has_credential holds of
    Failures,      \* exceptions an attempt may raise
    MaxRetries,    \* llm_max_retries
    Threshold,     \* provider_failure_threshold
    None

\* What _is_transient can see of an exception: an integer status_code and
\* whether it is a transient one, a marker in the type's name, and a status
\* or a marker in the message.
FailureType ==
    [status : {"none", "transient", "permanent"},
     named  : BOOLEAN,
     text   : BOOLEAN]

ASSUME ChainAssumption ==
    /\ Chain \in Seq(Models) /\ Chain # <<>>
    /\ \A i, j \in DOMAIN Chain : Chain[i] = Chain[j] => i = j
    /\ Credentialed \subseteq Models

ASSUME LimitsAssumption ==
    /\ Failures \subseteq FailureType
    /\ MaxRetries \in Nat
    /\ Threshold \in Nat \ {0}
    /\ None \notin Models

VARIABLES
    isOpen,       \* [Models -> BOOLEAN], the circuit breakers
    consecutive,  \* [Models -> Nat], consecutive_failures
    pc,           \* what each thread does next
    snapshot,     \* chain positions available() returned to the call
    todo,         \* those the call has not given up on
    attempt,      \* the attempt complete() is at
    error,        \* the exception complete() gave up on
    outcome,      \* how the thread's last call ended
    tried,        \* history: models recorded as failed in this call
    late          \* history: threads that began to ask an open provider

vars == <<isOpen, consecutive, pc, snapshot, todo, attempt, error, outcome,
          tried, late>>

chainVars == <<isOpen, consecutive>>

-----------------------------------------------------------------------------
Positions == DOMAIN Chain

First(S) == CHOOSE i \in S : \A j \in S : i <= j

Transient(f) ==
    IF f.status # "none" THEN f.status = "transient" ELSE f.named \/ f.text

\* complete() raises an LLMError that quotes the exception's message: the
\* status code and the type's name stay behind.
Wrapped(f) == [status |-> "none", named |-> FALSE, text |-> f.text]

\* Fault: open circuits are not filtered.
Available_Open == { i \in Positions : Chain[i] \in Credentialed }

Available ==
    { i \in Positions : ~isOpen[Chain[i]] /\ Chain[i] \in Credentialed }

Current(t) == Chain[First(todo[t])]

Active(t) == pc[t] # "idle"

-----------------------------------------------------------------------------
NoOutcome == [kind |-> "none", model |-> None]

Failed == [NoOutcome EXCEPT !.kind = "error"]

\* An exception other than LLMError passes through complete_with_chain.
Escaped == [NoOutcome EXCEPT !.kind = "escaped"]

Begin(t) ==
    /\ ~Active(t)
    /\ IF Available = {}
       THEN /\ outcome' = [outcome EXCEPT ![t] = Failed]
            /\ UNCHANGED <<pc, snapshot, todo, attempt>>
       ELSE /\ pc' = [pc EXCEPT ![t] = "pace"]
            /\ snapshot' = [snapshot EXCEPT ![t] = Available]
            /\ todo' = [todo EXCEPT ![t] = Available]
            /\ attempt' = [attempt EXCEPT ![t] = 1]
            /\ outcome' = [outcome EXCEPT ![t] = NoOutcome]
    /\ UNCHANGED <<chainVars, error, tried, late>>

\* _throttle let the attempt through.
Pace(t) ==
    /\ pc[t] = "pace"
    /\ pc' = [pc EXCEPT ![t] = "ask"]
    /\ UNCHANGED <<chainVars, snapshot, todo, attempt, error, outcome, tried, late>>

\* litellm.completion returned text.
AttemptAnswers(t) ==
    /\ pc[t] = "ask"
    /\ pc' = [pc EXCEPT ![t] = "recordSuccess"]
    /\ UNCHANGED <<chainVars, snapshot, todo, attempt, error, outcome, tried, late>>

\* Fault: the attempts are counted anew after the last retry.
AttemptFails_Restarts(t, f) ==
    /\ pc[t] = "ask"
    /\ IF Transient(f)
       THEN /\ attempt' = [attempt EXCEPT ![t] = IF @ <= MaxRetries THEN @ + 1 ELSE 1]
            /\ pc' = [pc EXCEPT ![t] = "pace"]
            /\ UNCHANGED error
       ELSE /\ pc' = [pc EXCEPT ![t] = "recordFailure"]
            /\ error' = [error EXCEPT ![t] = f]
            /\ UNCHANGED attempt
    /\ UNCHANGED <<chainVars, snapshot, todo, outcome, tried, late>>

\* litellm.completion raised: retry a transient failure until the retries are
\* used up, give up on the model otherwise.
AttemptFails(t, f) ==
    /\ pc[t] = "ask"
    /\ IF Transient(f) /\ attempt[t] <= MaxRetries
       THEN /\ attempt' = [attempt EXCEPT ![t] = @ + 1]
            /\ pc' = [pc EXCEPT ![t] = "pace"]
            /\ UNCHANGED error
       ELSE /\ pc' = [pc EXCEPT ![t] = "recordFailure"]
            /\ error' = [error EXCEPT ![t] = f]
            /\ UNCHANGED attempt
    /\ UNCHANGED <<chainVars, snapshot, todo, outcome, tried, late>>

Return(t, o) ==
    /\ pc' = [pc EXCEPT ![t] = "idle"]
    /\ outcome' = [outcome EXCEPT ![t] = o]
    /\ snapshot' = [snapshot EXCEPT ![t] = {}]
    /\ todo' = [todo EXCEPT ![t] = {}]
    /\ attempt' = [attempt EXCEPT ![t] = 1]
    /\ error' = [error EXCEPT ![t] = None]
    /\ tried' = [tried EXCEPT ![t] = {}]

\* A response without choices raises IndexError outside the retry loop's try.
AttemptMalformed(t) ==
    /\ pc[t] = "ask"
    /\ Return(t, Escaped)
    /\ UNCHANGED <<chainVars, late>>

RecordFatal(m) ==
    /\ isOpen' = [isOpen EXCEPT ![m] = TRUE]
    /\ UNCHANGED consecutive

RecordTransient(m) ==
    /\ consecutive' = [consecutive EXCEPT ![m] = @ + 1]
    /\ isOpen' = [isOpen EXCEPT ![m] = @ \/ consecutive[m] + 1 >= Threshold]

\* Fault: a success closes the circuit, as a half-open breaker would.
RecordSuccess_Closes(m) ==
    /\ consecutive' = [consecutive EXCEPT ![m] = 0]
    /\ isOpen' = [isOpen EXCEPT ![m] = FALSE]

RecordSuccess(m) ==
    /\ consecutive' = [consecutive EXCEPT ![m] = 0]
    /\ UNCHANGED isOpen

\* Fault: a fatal failure ends the whole call.
GiveUp_FatalEnds(t) ==
    LET rest == IF Transient(Wrapped(error[t]))
                THEN todo[t] \ {First(todo[t])} ELSE {} IN
    /\ pc[t] = "recordFailure"
    /\ IF Transient(Wrapped(error[t]))
       THEN RecordTransient(Current(t))
       ELSE RecordFatal(Current(t))
    /\ IF rest = {}
       THEN Return(t, Failed) /\ UNCHANGED late
       ELSE /\ pc' = [pc EXCEPT ![t] = "pace"]
            /\ todo' = [todo EXCEPT ![t] = rest]
            /\ attempt' = [attempt EXCEPT ![t] = 1]
            /\ error' = [error EXCEPT ![t] = None]
            /\ tried' = [tried EXCEPT ![t] = @ \cup {Current(t)}]
            /\ late' = [late EXCEPT ![Chain[First(rest)]] =
                            IF isOpen[Chain[First(rest)]] THEN @ \cup {t} ELSE @]
            /\ UNCHANGED <<snapshot, outcome>>

\* The except branch of the chain loop: classify the wrapped error, record it,
\* move on to the next entry of the snapshot.
GiveUp(t) ==
    LET rest == todo[t] \ {First(todo[t])} IN
    /\ pc[t] = "recordFailure"
    /\ IF Transient(Wrapped(error[t]))
       THEN RecordTransient(Current(t))
       ELSE RecordFatal(Current(t))
    /\ IF rest = {}
       THEN Return(t, Failed) /\ UNCHANGED late
       ELSE /\ pc' = [pc EXCEPT ![t] = "pace"]
            /\ todo' = [todo EXCEPT ![t] = rest]
            /\ attempt' = [attempt EXCEPT ![t] = 1]
            /\ error' = [error EXCEPT ![t] = None]
            /\ tried' = [tried EXCEPT ![t] = @ \cup {Current(t)}]
            /\ late' = [late EXCEPT ![Chain[First(rest)]] =
                            IF isOpen[Chain[First(rest)]] THEN @ \cup {t} ELSE @]
            /\ UNCHANGED <<snapshot, outcome>>

Answer(t) == [kind |-> "answer", model |-> Current(t)]

Succeed(t) ==
    /\ pc[t] = "recordSuccess"
    /\ RecordSuccess(Current(t))
    /\ Return(t, Answer(t))
    /\ UNCHANGED late

-----------------------------------------------------------------------------
Init ==
    /\ isOpen = [m \in Models |-> FALSE]
    /\ consecutive = [m \in Models |-> 0]
    /\ pc = [t \in Threads |-> "idle"]
    /\ snapshot = [t \in Threads |-> {}]
    /\ todo = [t \in Threads |-> {}]
    /\ attempt = [t \in Threads |-> 1]
    /\ error = [t \in Threads |-> None]
    /\ outcome = [t \in Threads |-> NoOutcome]
    /\ tried = [t \in Threads |-> {}]
    /\ late = [m \in Models |-> {}]

\* The steps of a call once it has begun, except its waits.
Step(t) ==
    \/ AttemptAnswers(t)
    \/ \E f \in Failures : AttemptFails(t, f)
    \/ AttemptMalformed(t)
    \/ GiveUp(t)
    \/ Succeed(t)

Next == \E t \in Threads : Begin(t) \/ Pace(t) \/ Step(t)

Spec == Init /\ [][Next]_vars

\* From some time on, no call begins.
CallsCease == <>[][\A t \in Threads : ~Begin(t)]_vars

\* A thread that is in a call keeps running: every attempt ends by the
\* provider's timeout and no lock is held across one.  A wait ends for certain
\* only when no more calls begin, for later ones may take its room for ever;
\* those that have begun make finitely many requests, which age out of the
\* window.
FairSpec ==
    /\ Spec
    /\ \A t \in Threads : WF_vars(Step(t))
    /\ CallsCease => \A t \in Threads : WF_vars(Pace(t))

-----------------------------------------------------------------------------
(* Properties.                                                             *)

Outcomes ==
    [kind : {"none", "error", "escaped", "answer"}, model : Models \cup {None}]

\* Every variable has its type: a call in progress has an entry left to ask,
\* and no attempt goes beyond the retries allowed.
TypeOK ==
    /\ isOpen \in [Models -> BOOLEAN]
    /\ consecutive \in [Models -> Nat]
    /\ pc \in [Threads -> {"idle", "pace", "ask", "recordFailure", "recordSuccess"}]
    /\ snapshot \in [Threads -> SUBSET Positions]
    /\ todo \in [Threads -> SUBSET Positions]
    /\ \A t \in Threads : todo[t] \subseteq snapshot[t]
    /\ \A t \in Threads : Active(t) => todo[t] # {}
    /\ attempt \in [Threads -> 1..(MaxRetries + 1)]
    /\ error \in [Threads -> Failures \cup {None}]
    /\ \A t \in Threads : pc[t] = "recordFailure" => error[t] \in Failures
    /\ outcome \in [Threads -> Outcomes]
    /\ tried \in [Threads -> SUBSET Models]
    /\ late \in [Models -> SUBSET Threads]

\* An open circuit is never closed again, in particular not by the success of
\* a call that was already talking to the provider when another opened it.
CircuitStaysOpen == [][\A m \in Models : isOpen[m] => isOpen'[m]]_vars

\* A thread begins to ask a provider whose circuit is open at most once in the
\* life of the process: only the calls in flight when it opened can, and a dead
\* key is never asked once per query.
AsksDeadOnce ==
    [][\A t \in Threads, i \in Positions :
        /\ pc[t] = "recordFailure"
        /\ pc'[t] = "pace"
        /\ i \in todo'[t] /\ \A j \in todo'[t] : i <= j
        /\ isOpen[Chain[i]]
        => t \notin late[Chain[i]]]_vars

\* A call reports an error only after every provider that was available when it
\* began failed it, and answers from a provider only after every one before
\* it in the chain did, whatever circuits other calls open meanwhile.
OutcomeIsEarned ==
    [][\A t \in Threads :
        /\ Active(t) /\ outcome'[t].kind = "error"
            => \A i \in snapshot[t] : Chain[i] \in tried[t] \cup {Current(t)}
        /\ Active(t) /\ outcome'[t].kind = "answer"
            => \A i \in snapshot[t] :
                  Chain[i] = outcome'[t].model \/ Chain[i] \in tried[t]
                    \/ \E j \in snapshot[t] : j < i /\ Chain[j] = outcome'[t].model
      ]_vars

\* Once no more calls begin, every call ends: retries are counted per provider
\* and providers per call, whatever fails.
CallsReturn == CallsCease => \A t \in Threads : Active(t) ~> ~Active(t)
=============================================================================
