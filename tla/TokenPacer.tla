------------------------------ MODULE TokenPacer ------------------------------
(***************************************************************************)
(* Token pacing: LLMClient._throttle of src/src/llm_client.py under the    *)
(* attempts of complete, which several threads make at once.               *)
(*                                                                         *)
(* A thread reserves an attempt's estimated tokens in its model's window   *)
(* of the last minute, or sleeps until the oldest reservation leaves it    *)
(* and tries again.  Time is counted in ticks, and a reservation by its    *)
(* age.  The request follows its reservation at once: no tick passes       *)
(* between the two, while a sleeper may wake any time after it is due.     *)
(***************************************************************************)
EXTENDS Integers, Sequences, FiniteSets, SequencesExt

CONSTANTS
    Threads,
    Models,
    Ceiling,     \* tokens per minute of each model, 0 for none
    Estimates,   \* sizes _estimate_tokens returns
    Minute,      \* ticks in 60 seconds
    MaxRetries,  \* llm_max_retries
    MaxCalls,    \* bound: calls a thread makes
    None

ASSUME PacingAssumption ==
    /\ IsFiniteSet(Threads)
    /\ Ceiling \in [Models -> Nat]
    /\ Estimates \subseteq Nat \ {0}
    /\ Minute \in Nat \ {0} /\ MaxRetries \in Nat /\ MaxCalls \in Nat
    /\ None \notin Models

VARIABLES
    window,   \* reservations of each model, oldest first
    pc,       \* what each thread does next
    model,    \* the model its call asks
    tokens,   \* the size of its request
    attempt,
    left,     \* ticks a sleeper has left
    calls,    \* calls the thread has begun
    sent      \* history: requests of the last minute, by model

vars == <<window, pc, model, tokens, attempt, left, calls, sent>>

call == <<model, tokens, attempt, calls>>

\* TOKEN_BUDGET_SAFETY_FACTOR leaves a quarter of the ceiling.
Budget(m) == LET b == (Ceiling[m] * 3) \div 4 IN IF b < 1 THEN 1 ELSE b

Total(entries) == SumFunction([i \in DOMAIN entries |-> entries[i].tokens])

\* Fault: nothing is popped, and a reservation holds its tokens for ever.
Live_Kept(entries) == entries

\* What is left when the oldest are popped until one is less than a minute old.
Live(entries) ==
    LET live == { i \in DOMAIN entries : entries[i].age < Minute } IN
    IF live = {} THEN <<>> ELSE SubSeq(entries, Min(live), Len(entries))

\* A request larger than the whole budget is clamped to it.
Reserved(m, n) == IF n > Budget(m) THEN Budget(m) ELSE n

Fits(m, n) ==
    LET live == Live(window[m]) IN
    live = <<>> \/ Total(live) + Reserved(m, n) <= Budget(m)

-----------------------------------------------------------------------------
Goto(t, step) == pc' = [pc EXCEPT ![t] = step]

Begin(t, m, n) ==
    /\ pc[t] = "idle"
    /\ calls[t] < MaxCalls
    /\ calls' = [calls EXCEPT ![t] = @ + 1]
    /\ model' = [model EXCEPT ![t] = m]
    /\ tokens' = [tokens EXCEPT ![t] = n]
    /\ attempt' = [attempt EXCEPT ![t] = 1]
    /\ Goto(t, "pace")
    /\ UNCHANGED <<window, left, sent>>

\* A model without a ceiling is not paced.
Unpaced(t) ==
    /\ pc[t] = "pace"
    /\ Ceiling[model[t]] = 0
    /\ Goto(t, "send")
    /\ UNCHANGED <<window, call, left, sent>>

Reserve(t) ==
    LET m == model[t] IN
    /\ pc[t] = "pace"
    /\ Ceiling[m] > 0
    /\ Fits(m, tokens[t])
    /\ window' = [window EXCEPT ![m] =
            Append(Live(@), [age |-> 0, tokens |-> Reserved(m, tokens[t])])]
    /\ Goto(t, "send")
    /\ UNCHANGED <<call, left, sent>>

\* Fault: the thread waits for its own place, the newest reservation's.
Sleep_Newest(t) ==
    LET m == model[t] IN
    /\ pc[t] = "pace"
    /\ Ceiling[m] > 0
    /\ ~Fits(m, tokens[t])
    /\ window' = [window EXCEPT ![m] = Live(@)]
    /\ left' = [left EXCEPT ![t] = Minute - Last(Live(window[m])).age]
    /\ Goto(t, "asleep")
    /\ UNCHANGED <<call, sent>>

\* The lock is released and the thread sleeps until the oldest one leaves.
Sleep(t) ==
    LET m == model[t] IN
    /\ pc[t] = "pace"
    /\ Ceiling[m] > 0
    /\ ~Fits(m, tokens[t])
    /\ window' = [window EXCEPT ![m] = Live(@)]
    /\ left' = [left EXCEPT ![t] = Minute - Head(Live(window[m])).age]
    /\ Goto(t, "asleep")
    /\ UNCHANGED <<call, sent>>

Wake(t) ==
    /\ pc[t] = "asleep"
    /\ left[t] = 0
    /\ Goto(t, "pace")
    /\ UNCHANGED <<window, call, left, sent>>

\* The request is sent; it answers, or fails and is tried again.
Send(t) ==
    LET m == model[t] IN
    /\ pc[t] = "send"
    /\ sent' = [sent EXCEPT ![m] =
            Append(@, [age |-> 0, tokens |-> Reserved(m, tokens[t])])]
    /\ Goto(t, "reply")
    /\ UNCHANGED <<window, call, left>>

End(t) ==
    /\ pc[t] = "reply"
    /\ Goto(t, "idle")
    /\ model' = [model EXCEPT ![t] = None]
    /\ tokens' = [tokens EXCEPT ![t] = 0]
    /\ attempt' = [attempt EXCEPT ![t] = 0]
    /\ UNCHANGED <<window, left, calls, sent>>

\* Fault: only the first attempt of a call is paced.
Retry_Unpaced(t) ==
    /\ pc[t] = "reply"
    /\ attempt[t] <= MaxRetries
    /\ attempt' = [attempt EXCEPT ![t] = @ + 1]
    /\ Goto(t, "send")
    /\ UNCHANGED <<window, model, tokens, left, calls, sent>>

\* A transient failure: the back-off is any number of ticks.
Retry(t) ==
    /\ pc[t] = "reply"
    /\ attempt[t] <= MaxRetries
    /\ attempt' = [attempt EXCEPT ![t] = @ + 1]
    /\ Goto(t, "pace")
    /\ UNCHANGED <<window, model, tokens, left, calls, sent>>

Older(entries) ==
    [i \in DOMAIN entries |->
        [entries[i] EXCEPT !.age = IF @ < Minute THEN @ + 1 ELSE @]]

Tick ==
    /\ \A t \in Threads : pc[t] # "send"
    /\ window' = [m \in Models |-> Older(window[m])]
    /\ sent' = [m \in Models |-> Live(Older(sent[m]))]
    /\ left' = [t \in Threads |-> IF left[t] > 0 THEN left[t] - 1 ELSE 0]
    /\ UNCHANGED <<pc, call>>

-----------------------------------------------------------------------------
Init ==
    /\ window = [m \in Models |-> <<>>]
    /\ pc = [t \in Threads |-> "idle"]
    /\ model = [t \in Threads |-> None]
    /\ tokens = [t \in Threads |-> 0]
    /\ attempt = [t \in Threads |-> 0]
    /\ left = [t \in Threads |-> 0]
    /\ calls = [t \in Threads |-> 0]
    /\ sent = [m \in Models |-> <<>>]

Step(t) ==
    \/ Unpaced(t) \/ Reserve(t) \/ Sleep(t) \/ Wake(t)
    \/ Send(t) \/ End(t) \/ Retry(t)

Next ==
    \/ \E t \in Threads :
        Step(t) \/ \E m \in Models, n \in Estimates : Begin(t, m, n)
    \/ Tick

Spec == Init /\ [][Next]_vars

\* Time passes, and a thread inside a call keeps running.
FairSpec == Spec /\ WF_vars(Tick) /\ \A t \in Threads : WF_vars(Step(t))

-----------------------------------------------------------------------------
(* Properties.                                                             *)

Entries == [age : 0..Minute, tokens : Nat]

\* Every variable has its type, and a thread has a model and a size in a call.
TypeOK ==
    /\ window \in [Models -> Seq(Entries)]
    /\ sent \in [Models -> Seq(Entries)]
    /\ pc \in [Threads -> {"idle", "pace", "asleep", "send", "reply"}]
    /\ model \in [Threads -> Models \cup {None}]
    /\ tokens \in [Threads -> Nat]
    /\ attempt \in [Threads -> Nat]
    /\ left \in [Threads -> 0..Minute]
    /\ calls \in [Threads -> 0..MaxCalls]
    /\ \A t \in Threads : pc[t] # "idle" <=> model[t] \in Models

\* In every stretch of a minute the requests sent to a model, retries
\* included, stay within the budget, each counted up to the budget itself: a
\* larger one has its minute for itself.
SentWithinBudget ==
    \A m \in Models : Ceiling[m] > 0 => Total(sent[m]) <= Budget(m)

\* Pacing holds nobody back in vain: while a sleeper's time is not over, its
\* request would not fit, whoever else comes or goes.
SleepsForAReason ==
    \A t \in Threads :
        pc[t] = "asleep" /\ left[t] > 0 => ~Fits(model[t], tokens[t])

\* Every attempt is sent at last when the other threads make finitely many;
\* an attempt larger than the budget, too.
AttemptsAreSent ==
    \A t \in Threads : pc[t] \in {"pace", "asleep"} ~> pc[t] = "send"
=============================================================================
