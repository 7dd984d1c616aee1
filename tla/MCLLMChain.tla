----------------------------- MODULE MCLLMChain -----------------------------
(***************************************************************************)
(* Instances of LLMChain for TLC: a chain of three entries, of which the   *)
(* configuration says which have a credential, and one failure of every    *)
(* kind the two classifications tell apart.                                *)
(***************************************************************************)
EXTENDS LLMChain, TLC

CONSTANTS groq, gemini, ollama, t1, t2

MCChain == <<groq, gemini, ollama>>

\* A failure is transient or not before it is wrapped, and after: an overload
\* by its message, a timeout by its type's name only, a bad key, and a bad
\* request whose message contains a transient marker.
MCFailures ==
    { [status |-> "none",      named |-> FALSE, text |-> TRUE],
      [status |-> "none",      named |-> TRUE,  text |-> FALSE],
      [status |-> "permanent", named |-> FALSE, text |-> FALSE],
      [status |-> "permanent", named |-> FALSE, text |-> TRUE] }
=============================================================================
