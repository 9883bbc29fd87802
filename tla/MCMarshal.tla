----------------------------- MODULE MCMarshal -----------------------------
(* Structured output and input, alone.                                     *)
EXTENDS Marshal, MCValues
=============================================================================
