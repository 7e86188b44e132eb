------------------------------- MODULE MCGateway -------------------------------
(* Small instances of Gateway for TLC.                                     *)
EXTENDS Gateway, TLC

CONSTANTS first, reuse, clash, alien, donation, outcome, ask, ask1, event

\* first, reuse and alien carry one batch id, alien under a foreign scope; first
\* and clash one record id.
Meeting == {{first, reuse, ask}, {first, clash, alien}, {event, ask1, outcome}}
Repeating == {{first, donation, alien}}

MCKindOf == [r \in Requests |->
  CASE r = donation -> "donation" [] r = outcome -> "outcome" [] r = ask -> "privacy"
    [] r = ask1 -> "legacy" [] r = event -> "events" [] OTHER -> "batch"]
MCIdOf == [r \in Requests |-> IF r \in {first, reuse, alien} THEN first ELSE
                              IF r \in {ask, ask1} THEN ask ELSE r]
MCStampOf == [r \in Requests |-> 0]
MCExpiryOf == [r \in Requests |-> IF KindOf[r] \in {"events", "outcome"} THEN 0 ELSE 9]
MCFaultsOf == [r \in Requests |-> IF r = alien THEN {"scope"} ELSE {}]
MCMutesOf == [r \in Requests |->
  IF r = ask THEN {first, outcome} \cap Requests ELSE
  IF r = ask1 THEN {event} \cap Requests ELSE {}]
MCClashesOf == [r \in Requests |-> IF r \in {first, clash} THEN ({first, clash} \cap Requests) \ {r} ELSE {}]
MCOffset == [n \in {"collector", "writer"} |-> IF n = "writer" THEN 1 ELSE 0]
MCPast == [k \in Kinds |-> 1]

SlotSymmetry == Permutations(Slots)
=============================================================================
