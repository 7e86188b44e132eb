------------------------------ MODULE MCStoreV2 ------------------------------
(* A small instance of StoreV2.  "first" and "reuse" carry the same batch id, *)
(* "first" and "overlap" share a record id, "reuse" and "overlap" share a     *)
(* subject.  "erase" is a deletion of the scope of "first" and, through the   *)
(* person, of "overlap"; "erase2" reuses its request id; "mute" is an opt-out *)
(* of the second subject.                                                     *)
EXTENDS StoreV2Promise, StoreV2Erasure, StoreV2Inv

CONSTANTS h1, h2, writer, importer

MCBodies == {"first", "reuse", "overlap"}
MCBatches == {"n1", "n2"}
MCBatchOf == [b \in Bodies |-> IF b = "overlap" THEN "n2" ELSE "n1"]
MCRecordsOf ==
  [b \in Bodies |-> CASE b = "first" -> {1, 2} [] b = "reuse" -> {3} [] OTHER -> {2, 4}]
MCScopeOf ==
  [b \in Bodies |->
     CASE b = "first" -> [subject |-> "s1", person |-> NoKey, org |-> NoKey]
       [] b = "reuse" -> [subject |-> "s2", person |-> NoKey, org |-> NoKey]
       [] OTHER -> [subject |-> "s2", person |-> "u", org |-> NoKey]]

MCPrivacyBodies == {"erase", "erase2", "mute"}
MCRequestOf == [p \in PrivacyBodies |-> IF p = "mute" THEN "q2" ELSE "q1"]
MCPrivacyScopeOf ==
  [p \in PrivacyBodies |->
     CASE p = "erase" -> [subject |-> "s1", person |-> "u", org |-> NoKey]
       [] OTHER -> [subject |-> "s2", person |-> NoKey, org |-> NoKey]]
MCActionOf == [p \in PrivacyBodies |-> IF p = "mute" THEN "opt_out" ELSE "delete"]

OneProc == [h \in Handlers |-> writer]
TwoProcs == [h \in Handlers |-> IF h = h1 THEN writer ELSE importer]
=============================================================================
