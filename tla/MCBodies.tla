------------------------------- MODULE MCBodies -------------------------------
(* The instance of Gateway for the run in which clients repeat, with the     *)
(* bodies of their requests.                                                 *)
EXTENDS MCGateway, GatewayBodies
=============================================================================
