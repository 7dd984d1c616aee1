---------------------------- MODULE MCTokenPacer ----------------------------
(* A model with a ceiling and one without, and requests of a third of the  *)
(* budget and of more than all of it.                                      *)
EXTENDS TokenPacer, TLC

CONSTANTS groq, ollama

MCCeiling == (groq :> 4) @@ (ollama :> 0)
=============================================================================
