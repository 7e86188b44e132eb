----------------------------- MODULE GatewayBodies -----------------------------
(***************************************************************************)
(* The two services with the walk over a body's tokens that comes before   *)
(* its typed decode at the endpoints of V2, privacy, donations and product *)
(* tokens.  V1 events and the tokens of installations have none.  What a   *)
(* body is depends on no variable, so it is stated where services start.   *)
(***************************************************************************)
EXTENDS Gateway, StrictJson

\* What those endpoints decode is one object that repeats no key
\* and is no deeper than allowed, and the walk refuses nothing else
\* (internal/jsonstrict/decode.go:14-24, 37-108).
WalkIsExact == Init => PassesTheUnambiguous
=============================================================================
