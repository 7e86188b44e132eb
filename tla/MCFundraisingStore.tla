-------------------------- MODULE MCFundraisingStore --------------------------
(* Small instances of FundraisingStore for TLC.                            *)
EXTENDS FundraisingStore

\* Every body carries the one batch id.
MCBatchOf == [b \in Bodies |-> 1]
=============================================================================
