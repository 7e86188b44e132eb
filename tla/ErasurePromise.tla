---------------------------- MODULE ErasurePromise ----------------------------
(***************************************************************************)
(* What store and privacy worker promise each other about a deletion.      *)
(* From the moment a request is recorded, its scope gains nothing in any   *)
(* table; its tables are cleared one by one, the batch ledger last, none   *)
(* before those in front of it are clear; it is reported when all are.     *)
(***************************************************************************)
EXTENDS Naturals, Sequences

CONSTANTS
  Requests,
  OptOuts,   \* the requests that delete nothing
  Items,
  ScopeOf,   \* [Requests -> SUBSET Items]
  Tables,
  TablesOf   \* [Requests -> Seq(Tables)]

VARIABLES
  held,      \* [Tables -> SUBSET Items]
  recorded,  \* requests recorded
  reported   \* deletions reported finished

vars == <<held, recorded, reported>>

ClearUpTo(r, k) == \A i \in DOMAIN TablesOf[r] : i <= k => held[TablesOf[r][i]] \cap ScopeOf[r] = {}

Init == held = [t \in Tables |-> {}] /\ recorded = {} /\ reported = {}

Add(t, i) ==
  /\ \A r \in recorded : i \notin ScopeOf[r]
  /\ held' = [held EXCEPT ![t] = @ \cup {i}]
  /\ UNCHANGED <<recorded, reported>>

Record(r) == recorded' = recorded \cup {r} /\ UNCHANGED <<held, reported>>

Clear(r) ==
  /\ r \in recorded \ OptOuts
  /\ \E k \in DOMAIN TablesOf[r] :
       ClearUpTo(r, k - 1) /\ held' = [held EXCEPT ![TablesOf[r][k]] = @ \ ScopeOf[r]]
  /\ UNCHANGED recorded
  /\ reported' \in {reported, reported \cup {r}} /\ (r \in reported' => ClearUpTo(r, Len(TablesOf[r]))')

Report(r) ==
  /\ r \in recorded \ OptOuts /\ ClearUpTo(r, Len(TablesOf[r]))
  /\ reported' = reported \cup {r}
  /\ UNCHANGED <<held, recorded>>

Next ==
  \/ \E t \in Tables, i \in Items : Add(t, i)
  \/ \E r \in Requests : Record(r) \/ Clear(r) \/ Report(r)

Spec == Init /\ [][Next]_vars
=============================================================================
