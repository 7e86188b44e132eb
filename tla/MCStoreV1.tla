------------------------------ MODULE MCStoreV1 ------------------------------
(* Small instances of StoreV1 for TLC.                                     *)
EXTENDS StoreV1

CONSTANTS b1, b2, p1, p2

\* b1 carries events and summaries; b2, of another installation, summaries only.
MCPartsOf == [b \in Bodies |-> IF b = b1 THEN Tables ELSE {"session_summaries"}]

\* p1 is the legacy request of b1's installation; p2 is the other privacy body,
\* sent under the same request id.
MCInstallationOf == [x \in Bodies \cup LegacyBodies |-> IF x = b2 THEN 2 ELSE 1]
MCRequestOf == [p \in PrivacyBodies |-> 1]
=============================================================================
