---------------------------- MODULE ResponseCache ----------------------------
(***************************************************************************)
(* DiskCache of src/src/llm_client.py and its use by LLMClient.complete:   *)
(* one file per prompt, shared by every process on the machine.  A file is *)
(* truncated and then written, so a reader or a crash can fall between.    *)
(* What a provider replies is chosen freely; attempts are left out.        *)
(***************************************************************************)
EXTENDS Integers, FiniteSets

CONSTANTS
    Processes,
    Prompts       \* the cache keys of the prompts that recur

ASSUME ProcessesAssumption == IsFiniteSet(Processes)

Replies == {"good", "malformed"}

\* A file that is not there, one that is cut short, and one that is cut inside
\* a character.
Damaged == {"cut", "torn"}
Entries == {"absent"} \cup Damaged \cup Replies

VARIABLES
    entry,    \* the cache directory, by prompt
    asking,   \* the prompt a process waits for a provider's reply to
    putting,  \* the prompt and the reply a process is writing
    replied,  \* history: replies received, by prompt
    lost      \* history: replies that could not be found by who asked next

cacheVars == <<entry, asking, putting, replied, lost>>

-----------------------------------------------------------------------------
NotAsking == "nothing"
NotPutting == << "nothing", "nothing" >>

ASSUME KeysAssumption == NotAsking \notin Prompts

CacheIdle(p) == asking[p] = NotAsking /\ putting[p] = NotPutting

\* Others ask for the prompt or write its entry.
InFlight(p, k) ==
    \E q \in Processes \ {p} : asking[q] = k \/ putting[q][1] = k

Lose(k, n) == lost' = [lost EXCEPT ![k] = @ + n]

\* DiskCache.get: the reply on file.
Hit(p, k) ==
    /\ CacheIdle(p)
    /\ entry[k] \in Replies
    /\ UNCHANGED cacheVars

\* Fault: the provider is asked whatever is on file.
Miss_Uncached(p, k) ==
    /\ CacheIdle(p)
    /\ asking' = [asking EXCEPT ![p] = k]
    /\ Lose(k, IF InFlight(p, k) THEN 1 ELSE 0)
    /\ UNCHANGED <<entry, putting, replied>>

\* No entry, or one that does not parse: the provider is asked.
Miss(p, k) ==
    /\ CacheIdle(p)
    /\ entry[k] \in {"absent", "cut"}
    /\ asking' = [asking EXCEPT ![p] = k]
    /\ Lose(k, IF InFlight(p, k) THEN 1 ELSE 0)
    /\ UNCHANGED <<entry, putting, replied>>

\* An entry that does not decode raises out of get, which catches parse and
\* system errors only.
Undecodable(p, k) ==
    /\ CacheIdle(p)
    /\ entry[k] = "torn"
    /\ UNCHANGED cacheVars

\* Every attempt failed: LLMError, and nothing is cached.
AskFails(p) ==
    /\ asking[p] # NotAsking
    /\ asking' = [asking EXCEPT ![p] = NotAsking]
    /\ UNCHANGED <<entry, putting, replied, lost>>

\* The reply arrives and DiskCache.put opens, and so truncates, its file.
Receive(p, r) ==
    /\ asking[p] # NotAsking
    /\ replied' = [replied EXCEPT ![asking[p]] = @ + 1]
    /\ asking' = [asking EXCEPT ![p] = NotAsking]
    /\ putting' = [putting EXCEPT ![p] = <<asking[p], r>>]
    /\ entry' = [entry EXCEPT ![asking[p]] = "cut"]
    /\ UNCHANGED lost

\* The file cannot be opened: the reply is used and not cached.
ReceiveUncached(p) ==
    /\ asking[p] # NotAsking
    /\ replied' = [replied EXCEPT ![asking[p]] = @ + 1]
    /\ asking' = [asking EXCEPT ![p] = NotAsking]
    /\ Lose(asking[p], 1)
    /\ UNCHANGED <<entry, putting>>

\* The file is written, or two writers of it leave a mixture.
Put(p) ==
    LET k == putting[p][1]
        shared == \E q \in Processes \ {p} : putting[q][1] = k
    IN /\ putting[p] # NotPutting
       /\ \/ /\ entry' = [entry EXCEPT ![k] = putting[p][2]]
             /\ UNCHANGED lost
          \/ /\ shared \/ entry[k] # "cut"
             /\ entry' = [entry EXCEPT ![k] = "cut"]
             /\ Lose(k, 1)
       /\ putting' = [putting EXCEPT ![p] = NotPutting]
       /\ UNCHANGED <<asking, replied>>

\* The process is killed; the disk being full ends a write the same way, but
\* put swallows the error and the process goes on.
CutShort(p) ==
    LET k == putting[p][1] IN
    /\ putting[p] # NotPutting
    /\ \E d \in Damaged : entry' = [entry EXCEPT ![k] = d]
    /\ Lose(k, 1)
    /\ putting' = [putting EXCEPT ![p] = NotPutting]
    /\ UNCHANGED <<asking, replied>>

\* What a crash leaves of a call.
CrashOfCall(p) ==
    \/ CutShort(p)
    \/ /\ putting[p] = NotPutting
       /\ asking' = [asking EXCEPT ![p] = NotAsking]
       /\ UNCHANGED <<entry, putting, replied, lost>>

CacheInit ==
    /\ entry = [k \in Prompts |-> "absent"]
    /\ asking = [p \in Processes |-> NotAsking]
    /\ putting = [p \in Processes |-> NotPutting]
    /\ replied = [k \in Prompts |-> 0]
    /\ lost = [k \in Prompts |-> 0]

\* No prompt is paid for twice: each reply after the first was asked for while
\* the first was still on its way, or after a crash, a full disk or two writers
\* at once had lost it.
PaidOnce ==
    \A k \in Prompts : replied[k] <= 1 + lost[k]
=============================================================================
