----------------------------- MODULE MCEvalRun -----------------------------
(***************************************************************************)
(* Instances of EvalRun for TLC: two answerable questions around one out   *)
(* of the corpus, and a chain of two judges before the caller's own model, *)
(* the first without a credential.                                         *)
(***************************************************************************)
EXTENDS EvalRun, TLC

CONSTANTS groq, gemini, mistral

MCExpectsFallback == <<FALSE, TRUE, FALSE>>

MCChain == <<groq, gemini>>
=============================================================================
