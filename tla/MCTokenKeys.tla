------------------------------ MODULE MCTokenKeys ------------------------------
(* A small instance of TokenKeys for TLC: a behaviour rotates the keys of *)
(* the tokens or those of the signatures, with and without fallbacks.     *)
(* Whatever is signed is good for one unit of time.                       *)
EXTENDS TokenKeys

MCLife == [f \in AllFamilies |-> 1]

\* A behaviour has the families of the tokens, or those of the signatures.
TokensOrSignatures ==
  {{"installation"} \cup own : own \in SUBSET {"product", "subject"}}
    \cup {{"writer"} \cup own : own \in SUBSET {"service"}}
=============================================================================
