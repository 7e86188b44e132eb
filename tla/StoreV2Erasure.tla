---------------------------- MODULE StoreV2Erasure ----------------------------
(***************************************************************************)
(* StoreV2, with the erasures it is modelled with, implements the same     *)
(* ErasurePromise as the privacy worker: what each of the two assumes of   *)
(* the other, the other keeps.                                             *)
(***************************************************************************)
EXTENDS StoreV2, Sequences

TableOrder == <<"stream", "registry", "ledger">>

Claimed == {ledger[n].body : n \in {m \in Batches : Present(ledger[m])}}

HeldMap == [stream |-> stored, registry |-> registered, ledger |-> Claimed]
ReportedMap == {p \in PrivacyBodies : erased[p] = 3}

Erasure ==
  INSTANCE ErasurePromise
    WITH Requests <- PrivacyBodies,
         OptOuts  <- {p \in PrivacyBodies : ActionOf[p] = "opt_out"},
         Items    <- Bodies,
         ScopeOf  <- [p \in PrivacyBodies |-> Covered(p)],
         Tables   <- {"stream", "registry", "ledger"},
         TablesOf <- [p \in PrivacyBodies |-> TableOrder],
         held     <- HeldMap,
         recorded <- suppressions,
         reported <- ReportedMap

\* No interleaving of handlers adds a row to a scope once its request is recorded, and
\* no step takes a row away that is not the next table of a deletion
\* (store_v2.go:35-75, store_privacy.go:55, 175-190).
KeepsErasurePromise == Erasure!Spec
=============================================================================
