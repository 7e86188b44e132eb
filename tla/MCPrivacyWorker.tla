--------------------------- MODULE MCPrivacyWorker ----------------------------
(* Small instances of PrivacyWorker.  Request 1 is a deletion, request 2 a      *)
(* younger one whose scope overlaps it, request 3 an opt-out.                   *)
EXTENDS PrivacyWorkerInv, PrivacyWorkerErasure

MCRequestedAt == [r \in Requests |-> r]
MCScopeOf ==
  [r \in Requests |->
     Items \cap (CASE r = 1 -> {"x"} [] r = 2 -> {"x", "y"} [] OTHER -> {"y"})]
MCTablesOf == [r \in Requests |-> <<"stream", "ledger">>]
=============================================================================
