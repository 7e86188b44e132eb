------------------------------ MODULE MCJwksCache ------------------------------
(* A small instance of JwksCache for TLC: two verifiers, which may both find *)
(* the cache out of date, over one rotation of the issuer's keys.            *)
EXTENDS JwksCache
=============================================================================
