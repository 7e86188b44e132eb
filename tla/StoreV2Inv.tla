----------------------------- MODULE StoreV2Inv ------------------------------
(***************************************************************************)
(* The inductive invariant of StoreV2 for a single writer process: what a  *)
(* handler may rely on between two statements because it holds the only    *)
(* v2Mu, and how the tables stand to each other.                           *)
(***************************************************************************)
EXTENDS StoreV2

SingleProcess == Procs = {Writer}

\* A handler between two statements holds the mutex.
HoldsMutex ==
  \A h \in Handlers : pc[h] \in Steps => v2Mu[Writer] = h

ServesBody ==
  \A h \in Handlers :
    /\ pc[h] \in IngestSteps => arg[h] \in Bodies
    /\ pc[h] \in PrivacySteps => arg[h] \in PrivacyBodies
    /\ pc[h] = "lock" => arg[h] \in Bodies \cup PrivacyBodies

\* The batch of handler h is reserved for its body by the row h works with.
HasReservation(h) ==
  /\ Present(seen[h])
  /\ seen[h] = Row("reserved", arg[h], seen[h].at)
  /\ ledger[BatchOf[arg[h]]] = seen[h]

\* What a handler knows at each statement of InsertV2.
KnowsAt(h) ==
  LET b == arg[h]
  IN  /\ pc[h] = "suppression" =>
           \/ ~Present(seen[h]) /\ ~Present(ledger[BatchOf[b]])
           \/ HasReservation(h)
           \/ Suppressed(b)
      /\ pc[h] \in {"reserve", "lookup", "register", "insert", "complete"} =>
           ~Suppressed(b)
      /\ pc[h] = "reserve" => ~Present(ledger[BatchOf[b]])
      /\ pc[h] \in {"lookup", "register", "insert", "complete"} => HasReservation(h)
      /\ pc[h] = "register" => ~RegistryClash(b)
      /\ pc[h] \in {"insert", "complete"} => b \in registered
      /\ pc[h] = "complete" => b \in stored

HandlersKnow == \A h \in Handlers : KnowsAt(h)

\* Events are registered, registered bodies own their batch, and no record id is
\* registered twice.
StoredIsRegistered == stored \subseteq registered

RegisteredOwnsBatch ==
  \A b \in registered : /\ Present(ledger[BatchOf[b]])
                        /\ ledger[BatchOf[b]].body = b

RowsAtHome == \A n \in Batches : Present(ledger[n]) => BatchOf[ledger[n].body] = n

RegistryDisjoint ==
  \A a, b \in registered : RecordsOf[a] \cap RecordsOf[b] # {} => a = b

\* How far each deletion has come.
ErasedSoFar ==
  \A p \in PrivacyBodies :
    /\ erased[p] > 0 => p \in suppressions /\ Covered(p) \cap stored = {}
    /\ erased[p] > 1 => Covered(p) \cap registered = {}
    /\ erased[p] > 2 => \A n \in Batches : Present(ledger[n]) => ledger[n].body \notin Covered(p)

IInv ==
  /\ TypeOK
  /\ HoldsMutex /\ ServesBody /\ HandlersKnow
  /\ StoredIsRegistered /\ RegisteredOwnsBatch /\ RowsAtHome /\ RegistryDisjoint
  /\ ErasedSoFar /\ CompletedIsStored /\ AckedIsStored
=============================================================================
