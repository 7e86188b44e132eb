---------------------------- MODULE StoreV2_proofs ---------------------------
(***************************************************************************)
(* Proofs about StoreV2 for one writer process: any number of handlers,    *)
(* bodies, records, scopes and privacy requests, any interleaving, failed  *)
(* statements and crashes.  IInv (StoreV2Inv) is inductive; the safety     *)
(* properties of StoreV2 follow from it, and so does that the store        *)
(* implements IngestPromise and ErasurePromise: every step maps to a step  *)
(* of the promise or to a stutter.                                         *)
(***************************************************************************)
EXTENDS StoreV2Inv, StoreV2Promise, StoreV2Erasure, TLAPS

-----------------------------------------------------------------------------
(* Steps, tables and handlers in general                                   *)

\* A statement of InsertV2 or CreatePrivacyRequest is executed by the one
\* handler that holds the mutex; every other handler is idle or waiting.
LEMMA OthersWait ==
  ASSUME SingleProcess, TypeOK, HoldsMutex,
         NEW h \in Handlers, pc[h] \in Steps,
         NEW k \in Handlers, k # h
  PROVE  pc[k] \in Waiting
BY DEF TypeOK, HoldsMutex

\* What the tables say to each other survives every step that leaves them alone.
TablesAgree ==
  /\ StoredIsRegistered /\ RegisteredOwnsBatch /\ RowsAtHome /\ RegistryDisjoint
  /\ ErasedSoFar /\ CompletedIsStored

LEMMA TablesUntouched ==
  ASSUME TablesAgree, UNCHANGED <<tables, erased>>
  PROVE  TablesAgree'
BY DEF TablesAgree, tables, StoredIsRegistered, RegisteredOwnsBatch, RowsAtHome,
       RegistryDisjoint, ErasedSoFar, CompletedIsStored, DeleteRequested

LEMMA AckedUntouched ==
  ASSUME AckedIsStored, UNCHANGED <<tables, acked>>
  PROVE  AckedIsStored'
BY DEF AckedIsStored, tables, DeleteRequested

HandlersAgree == HoldsMutex /\ ServesBody /\ HandlersKnow

\* IInv split by what a step can disturb, before and after a step.
LEMMA IInvParts ==
  /\ IInv <=> TypeOK /\ HandlersAgree /\ TablesAgree /\ AckedIsStored
  /\ IInv' <=> TypeOK' /\ HandlersAgree' /\ TablesAgree' /\ AckedIsStored'
BY DEF IInv, HandlersAgree, TablesAgree

\* A waiting handler knows nothing that a step could invalidate, so after a step
\* of h only the claims about h remain to be shown.
LEMMA OnlyTheHolderKnows ==
  ASSUME SingleProcess, TypeOK, HandlersAgree,
         NEW h \in Handlers, pc[h] \in Steps,
         \A k \in Handlers \ {h} : pc'[k] = pc[k] /\ arg'[k] = arg[k],
         pc'[h] \in Steps => v2Mu'[Writer] = h,
         pc'[h] \in IngestSteps => arg'[h] \in Bodies,
         pc'[h] \in PrivacySteps => arg'[h] \in PrivacyBodies,
         pc'[h] = "lock" => arg'[h] \in Bodies \cup PrivacyBodies,
         KnowsAt(h)'
  PROVE  HandlersAgree'
<1>1. \A k \in Handlers \ {h} : pc'[k] \in Waiting
  BY OthersWait DEF HandlersAgree
<1>2. HoldsMutex'
  BY <1>1 DEF HoldsMutex, Steps, IngestSteps, PrivacySteps, Waiting
<1>3. ServesBody'
  BY <1>1 DEF ServesBody, HandlersAgree, IngestSteps, PrivacySteps, Waiting
<1>4. ASSUME NEW k \in Handlers \ {h} PROVE KnowsAt(k)'
  BY <1>1, <1>4 DEF KnowsAt, Waiting
<1>5. HandlersKnow'
  BY <1>4 DEF HandlersKnow
<1>. QED BY <1>2, <1>3, <1>5 DEF HandlersAgree

\* A handler that returns gives the mutex back and knows nothing any more.
LEMMA ReturnKeepsHandlers ==
  ASSUME SingleProcess, TypeOK, HandlersAgree,
         NEW h \in Handlers, pc[h] \in Steps, Answer(h)
  PROVE  HandlersAgree'
<1>1. pc'[h] = "idle"
  BY DEF Answer, Idle, TypeOK
<1>2. \A k \in Handlers \ {h} : pc'[k] = pc[k] /\ arg'[k] = arg[k]
  BY DEF Answer, Idle, TypeOK
<1>3. KnowsAt(h)'
  BY <1>1 DEF KnowsAt
<1>. QED
  BY <1>1, <1>2, <1>3, OnlyTheHolderKnows DEF Steps, IngestSteps, PrivacySteps

\* The same for the types of the handler's variables.
LocalsOK ==
  /\ v2Mu \in [Procs -> Handlers \cup {Nobody}]
  /\ pc \in [Handlers -> Waiting \cup Steps]
  /\ arg \in [Handlers -> Bodies \cup PrivacyBodies \cup {NoBody}]
  /\ seen \in [Handlers -> LedgerRow \cup {NoRow}]

TablesOK ==
  /\ ledger \in [Batches -> LedgerRow \cup {NoRow}]
  /\ registered \subseteq Bodies
  /\ stored \subseteq Bodies
  /\ suppressions \subseteq PrivacyBodies
  /\ erased \in [PrivacyBodies -> 0..3]
  /\ outage \in BOOLEAN
  /\ acked \subseteq Bodies

LEMMA TypeParts ==
  /\ TypeOK <=> LocalsOK /\ TablesOK
  /\ TypeOK' <=> LocalsOK' /\ TablesOK'
BY DEF TypeOK, LocalsOK, TablesOK

LEMMA ReturnKeepsTypes ==
  ASSUME LocalsOK, NEW h \in Handlers, Answer(h)
  PROVE  LocalsOK'
BY ConstantsAssumption DEF LocalsOK, Answer, Idle, Waiting

\* A handler that goes on keeps the mutex and its body.
LEMMA GotoKeepsTypes ==
  ASSUME LocalsOK, NEW h \in Handlers, NEW step \in Steps, Goto(h, step),
         seen' \in [Handlers -> LedgerRow \cup {NoRow}]
  PROVE  LocalsOK'
BY DEF LocalsOK, Goto

LEMMA GotoKeepsHandlers ==
  ASSUME SingleProcess, TypeOK, HandlersAgree,
         NEW h \in Handlers, NEW step \in IngestSteps, pc[h] \in IngestSteps,
         Goto(h, step), KnowsAt(h)'
  PROVE  HandlersAgree'
<1>1. pc[h] \in Steps /\ v2Mu[Writer] = h /\ arg[h] \in Bodies
  BY DEF HandlersAgree, HoldsMutex, ServesBody, Steps
<1>2. /\ pc'[h] = step /\ arg' = arg /\ v2Mu' = v2Mu
      /\ \A k \in Handlers \ {h} : pc'[k] = pc[k]
  BY DEF Goto, TypeOK
<1>. QED
  BY <1>1, <1>2, OnlyTheHolderKnows DEF IngestSteps, PrivacySteps

-----------------------------------------------------------------------------
(* Taking a request, waiting for the mutex, failing                        *)

LEMMA BeginKeepsIInv ==
  ASSUME SingleProcess, IInv, NEW h \in Handlers,
         NEW x \in Bodies \cup PrivacyBodies, Begin(h, x)
  PROVE  IInv'
<1>. USE DEF Begin, At
<1>1. TypeOK'
  BY IInvParts DEF TypeOK, tables, around, Waiting
<1>2. HoldsMutex' /\ ServesBody'
  BY IInvParts DEF HandlersAgree, HoldsMutex, ServesBody, TypeOK, Steps, IngestSteps,
                   PrivacySteps
<1>3. ASSUME NEW k \in Handlers PROVE KnowsAt(k)'
  BY IInvParts, <1>3 DEF HandlersAgree, HandlersKnow, KnowsAt, HasReservation, Suppressed,
                         RegistryClash, TypeOK, tables
<1>4. TablesAgree' /\ AckedIsStored'
  BY IInvParts, TablesUntouched, AckedUntouched DEF tables, around
<1>. QED BY <1>1, <1>2, <1>3, <1>4, IInvParts DEF HandlersAgree, HandlersKnow

LEMMA LockKeepsIInv ==
  ASSUME SingleProcess, IInv, NEW h \in Handlers, Lock(h)
  PROVE  IInv'
<1>1. ProcOf[h] = Writer /\ v2Mu[Writer] = Nobody
  BY ConstantsAssumption DEF Lock, SingleProcess
<1>2. \A k \in Handlers : pc[k] \in Waiting
  BY <1>1, IInvParts, ConstantsAssumption DEF HandlersAgree, HoldsMutex, TypeOK
<1>3. v2Mu' = [v2Mu EXCEPT ![Writer] = h] /\ v2Mu'[Writer] = h
  BY <1>1, IInvParts, ConstantsAssumption DEF Lock, TypeOK
<1>4. /\ pc' = [pc EXCEPT ![h] = IF arg[h] \in Bodies THEN "ledger" ELSE "request"]
      /\ UNCHANGED <<tables, around, arg, seen, acked>>
      /\ arg[h] \in Bodies \cup PrivacyBodies
  BY IInvParts DEF Lock, At, HandlersAgree, ServesBody
<1>5. \A k \in Handlers : pc'[k] = IF k = h THEN IF arg[h] \in Bodies THEN "ledger" ELSE "request"
                                           ELSE pc[k]
  BY <1>4, IInvParts DEF TypeOK
<1>6. TypeOK'
  BY <1>3, <1>4, <1>5, IInvParts
     DEF TypeOK, tables, around, Steps, IngestSteps, PrivacySteps
<1>7. HoldsMutex' /\ ServesBody'
  BY <1>2, <1>3, <1>4, <1>5, IInvParts
     DEF HoldsMutex, HandlersAgree, ServesBody, Steps, IngestSteps, PrivacySteps, Waiting
<1>8. HandlersKnow'
  BY <1>2, <1>5 DEF HandlersKnow, KnowsAt, Waiting
<1>9. TablesAgree' /\ AckedIsStored'
  BY <1>4, IInvParts, TablesUntouched, AckedUntouched DEF tables, around
<1>. QED BY <1>6, <1>7, <1>8, <1>9, IInvParts DEF HandlersAgree

\* Every way of returning without a write: errors, conflicts, suppressed scopes,
\* record clashes, repeated privacy requests.
LEMMA ReturnKeepsIInv ==
  ASSUME SingleProcess, IInv, NEW h \in Handlers, pc[h] \in Steps, Answer(h),
         UNCHANGED <<tables, around, acked>>
  PROVE  IInv'
<1>1. TypeOK'
  BY IInvParts, TypeParts, ReturnKeepsTypes DEF TablesOK, tables, around
<1>2. HandlersAgree'
  BY IInvParts, ReturnKeepsHandlers
<1>3. TablesAgree' /\ AckedIsStored'
  BY IInvParts, TablesUntouched, AckedUntouched DEF tables, around
<1>. QED BY <1>1, <1>2, <1>3, IInvParts

-----------------------------------------------------------------------------
(* The statements of InsertV2                                              *)

LEMMA ReadLedgerKeepsIInv ==
  ASSUME SingleProcess, IInv, NEW h \in Handlers, ReadLedger(h)
  PROVE  IInv'
<1>. DEFINE b == arg[h]
            n == BatchOf[b]
            other == Present(ledger[n]) /\ ledger[n].body # b
            done == ~other /\ ledger[n].status = "completed"
<1>1. pc[h] \in IngestSteps /\ pc[h] \in Steps /\ b \in Bodies /\ n \in Batches
  BY IInvParts, ConstantsAssumption
     DEF ReadLedger, At, IngestSteps, Steps, HandlersAgree, ServesBody
<1>2. CASE ~(other \/ done)
  <2>1. /\ Goto(h, "suppression") /\ seen' = [seen EXCEPT ![h] = ledger[n]]
        /\ UNCHANGED <<tables, around, acked>>
    BY <1>2 DEF ReadLedger
  <2>2. seen'[h] = ledger[n] /\ seen' \in [Handlers -> LedgerRow \cup {NoRow}]
    BY <1>1, <2>1, IInvParts DEF TypeOK
  <2>3. TypeOK'
    BY <2>1, <2>2, IInvParts, TypeParts, GotoKeepsTypes
       DEF TablesOK, tables, around, Steps, IngestSteps
  <2>4. ~Present(ledger[n]) \/ ledger[n] = Row("reserved", b, ledger[n].at)
    BY <1>1, <1>2, IInvParts DEF TypeOK, LedgerRow, NoRow, Present, Row
  <2>5. KnowsAt(h)'
    <3>1. pc'[h] = "suppression" /\ arg' = arg /\ ledger' = ledger
      BY <2>1, IInvParts DEF Goto, TypeOK, tables
    <3>. QED BY <2>2, <2>4, <3>1 DEF KnowsAt, HasReservation, Present
  <2>6. HandlersAgree'
    BY <1>1, <2>1, <2>5, IInvParts, GotoKeepsHandlers DEF IngestSteps
  <2>7. TablesAgree' /\ AckedIsStored'
    BY <2>1, IInvParts, TablesUntouched, AckedUntouched DEF tables, around
  <2>. QED BY <2>3, <2>6, <2>7, IInvParts
<1>3. CASE other /\ ~done
  BY <1>1, <1>3, ReturnKeepsIInv DEF ReadLedger
<1>4. CASE done
  <2>1. Answer(h) /\ acked' = acked \cup {b} /\ UNCHANGED <<tables, around>>
    BY <1>4 DEF ReadLedger
  <2>2. TypeOK'
    BY <1>1, <2>1, IInvParts, TypeParts, ReturnKeepsTypes DEF TablesOK, tables, around
  <2>3. HandlersAgree'
    BY <1>1, <2>1, IInvParts, ReturnKeepsHandlers
  <2>4. TablesAgree'
    BY <2>1, IInvParts, TablesUntouched DEF tables, around
  <2>5. AckedIsStored'
    <3>1. ledger[n].status = "completed" /\ ledger[n].body = b
      BY <1>4 DEF Present
    <3>2. DeleteRequested(b) \/ b \in stored \cap registered
      BY <1>1, <3>1, IInvParts DEF TablesAgree, CompletedIsStored
    <3>. QED
      BY <2>1, <3>1, <3>2, IInvParts DEF AckedIsStored, tables, DeleteRequested
  <2>. QED BY <2>2, <2>3, <2>4, <2>5, IInvParts
<1>. QED BY <1>2, <1>3, <1>4

LEMMA CheckSuppressionKeepsIInv ==
  ASSUME SingleProcess, IInv, NEW h \in Handlers, CheckSuppression(h)
  PROVE  IInv'
<1>1. pc[h] = "suppression" /\ pc[h] \in IngestSteps /\ pc[h] \in Steps /\ KnowsAt(h)
  BY IInvParts DEF CheckSuppression, At, IngestSteps, Steps, HandlersAgree, HandlersKnow
<1>2. CASE Suppressed(arg[h])
  BY <1>1, <1>2, ReturnKeepsIInv DEF CheckSuppression
<1>3. CASE ~Suppressed(arg[h])
  <2>. DEFINE step == IF Present(seen[h]) THEN "lookup" ELSE "reserve"
  <2>1. Goto(h, step) /\ UNCHANGED <<tables, around, seen, acked>>
    BY <1>3 DEF CheckSuppression
  <2>2. TypeOK'
    BY <2>1, IInvParts, TypeParts, GotoKeepsTypes
       DEF TablesOK, LocalsOK, tables, around, Steps, IngestSteps
  <2>3. KnowsAt(h)'
    <3>1. pc'[h] = step /\ arg' = arg /\ UNCHANGED <<tables, seen>>
      BY <2>1, IInvParts DEF Goto, TypeOK
    <3>2. IF Present(seen[h]) THEN HasReservation(h) ELSE ~Present(ledger[BatchOf[arg[h]]])
      BY <1>1, <1>3 DEF KnowsAt, HasReservation
    <3>. QED BY <1>3, <3>1, <3>2 DEF KnowsAt, HasReservation, Suppressed, tables
  <2>4. HandlersAgree'
    BY <1>1, <2>1, <2>3, IInvParts, GotoKeepsHandlers DEF IngestSteps
  <2>5. TablesAgree' /\ AckedIsStored'
    BY <2>1, IInvParts, TablesUntouched, AckedUntouched DEF tables, around
  <2>. QED BY <2>2, <2>4, <2>5, IInvParts
<1>. QED BY <1>2, <1>3

\* At its write statements a handler holds the only mutex, its body is in no
\* suppressed scope, and its batch is reserved for it (or still free).
LEMMA WriterKnows ==
  ASSUME SingleProcess, IInv, NEW h \in Handlers,
         pc[h] \in {"reserve", "lookup", "register", "insert", "complete"}
  PROVE  /\ pc[h] \in IngestSteps /\ pc[h] \in Steps
         /\ arg[h] \in Bodies /\ BatchOf[arg[h]] \in Batches
         /\ KnowsAt(h) /\ ~Suppressed(arg[h])
         /\ pc[h] # "reserve" => HasReservation(h)
BY IInvParts, ConstantsAssumption
   DEF IngestSteps, Steps, HandlersAgree, HandlersKnow, KnowsAt, ServesBody

LEMMA ReserveKeepsIInv ==
  ASSUME SingleProcess, IInv, NEW h \in Handlers, Reserve(h)
  PROVE  IInv'
<1>. DEFINE b == arg[h]
            n == BatchOf[b]
<1>0. pc[h] = "reserve" /\ ~Present(ledger[n])
  BY IInvParts DEF Reserve, At, HandlersAgree, HandlersKnow, KnowsAt
<1>1. /\ pc[h] \in IngestSteps /\ pc[h] \in Steps /\ b \in Bodies /\ n \in Batches
      /\ ~Suppressed(b)
  BY <1>0, WriterKnows
<1>. PICK now \in Times :
       LET row == Row("reserved", b, now)
       IN  /\ ledger' = [ledger EXCEPT ![n] = Replace(@, row)]
           /\ \/ Goto(h, "lookup") /\ seen' = [seen EXCEPT ![h] = row]
              \/ Answer(h)
  BY DEF Reserve
<1>. DEFINE row == Row("reserved", b, now)
<1>2. /\ row \in LedgerRow /\ row.status = "reserved" /\ row.body = b /\ row.at = now
      /\ Present(row)
  BY <1>1, ConstantsAssumption DEF Row, LedgerRow, Present
<1>3. ledger' = [ledger EXCEPT ![n] = row]
  BY <1>0, <1>1, IInvParts DEF Replace, TypeOK
<1>4. UNCHANGED <<registered, stored, suppressions, around, acked>>
  BY DEF Reserve
<1>5. \A m \in Batches : ledger'[m] = IF m = n THEN row ELSE ledger[m]
  BY <1>1, <1>3, IInvParts DEF TypeOK
<1>6. TablesOK'
  BY <1>2, <1>3, <1>4, IInvParts, TypeParts DEF TablesOK, around
<1>7. TablesAgree'
  <2>1. StoredIsRegistered' /\ RegistryDisjoint'
    BY <1>4, IInvParts DEF TablesAgree, StoredIsRegistered, RegistryDisjoint
  <2>2. RegisteredOwnsBatch'
    BY <1>0, <1>4, <1>5, IInvParts, TypeParts, ConstantsAssumption
       DEF TablesAgree, RegisteredOwnsBatch, TablesOK
  <2>3. RowsAtHome'
    BY <1>2, <1>5, IInvParts DEF TablesAgree, RowsAtHome
  <2>4. ErasedSoFar'
    BY <1>1, <1>2, <1>4, <1>5, IInvParts
       DEF TablesAgree, ErasedSoFar, Suppressed, around, TypeOK
  <2>5. CompletedIsStored'
    BY <1>2, <1>4, <1>5, IInvParts DEF TablesAgree, CompletedIsStored, DeleteRequested
  <2>. QED BY <2>1, <2>2, <2>3, <2>4, <2>5 DEF TablesAgree
<1>8. AckedIsStored'
  BY <1>0, <1>4, <1>5, IInvParts, TypeParts, ConstantsAssumption
     DEF AckedIsStored, DeleteRequested, TablesOK, Present
<1>9. CASE Answer(h)
  <2>1. LocalsOK' /\ HandlersAgree'
    BY <1>1, <1>9, IInvParts, TypeParts, ReturnKeepsTypes, ReturnKeepsHandlers
  <2>. QED BY <1>6, <1>7, <1>8, <2>1, IInvParts, TypeParts
<1>10. CASE Goto(h, "lookup") /\ seen' = [seen EXCEPT ![h] = row]
  <2>1. /\ pc'[h] = "lookup" /\ arg' = arg /\ seen'[h] = row
        /\ seen' \in [Handlers -> LedgerRow \cup {NoRow}]
    BY <1>2, <1>10, IInvParts DEF Goto, TypeOK
  <2>2. LocalsOK'
    BY <1>10, <2>1, IInvParts, TypeParts, GotoKeepsTypes DEF Steps, IngestSteps
  <2>3. KnowsAt(h)'
    BY <1>1, <1>2, <1>4, <1>5, <2>1 DEF KnowsAt, HasReservation, Suppressed
  <2>4. HandlersAgree'
    BY <1>1, <1>10, <2>3, IInvParts, GotoKeepsHandlers DEF IngestSteps
  <2>. QED BY <1>6, <1>7, <1>8, <2>2, <2>4, IInvParts, TypeParts
<1>. QED BY <1>9, <1>10

LEMMA LookupRecordsKeepsIInv ==
  ASSUME SingleProcess, IInv, NEW h \in Handlers, LookupRecords(h)
  PROVE  IInv'
<1>1. /\ pc[h] = "lookup" /\ pc[h] \in IngestSteps /\ pc[h] \in Steps
      /\ HasReservation(h) /\ ~Suppressed(arg[h])
  BY WriterKnows DEF LookupRecords, At
<1>2. CASE RegistryClash(arg[h])
  BY <1>1, <1>2, ReturnKeepsIInv DEF LookupRecords
<1>3. CASE ~RegistryClash(arg[h])
  <2>1. Goto(h, "register") /\ UNCHANGED <<tables, around, seen, acked>>
    BY <1>3 DEF LookupRecords
  <2>2. TypeOK'
    BY <2>1, IInvParts, TypeParts, GotoKeepsTypes
       DEF TablesOK, LocalsOK, tables, around, Steps, IngestSteps
  <2>3. pc'[h] = "register" /\ arg' = arg
    BY <2>1, IInvParts DEF Goto, TypeOK
  <2>4. KnowsAt(h)'
    BY <1>1, <1>3, <2>1, <2>3 DEF KnowsAt, HasReservation, Suppressed, RegistryClash, tables
  <2>5. HandlersAgree'
    BY <1>1, <2>1, <2>4, IInvParts, GotoKeepsHandlers DEF IngestSteps
  <2>6. TablesAgree' /\ AckedIsStored'
    BY <2>1, IInvParts, TablesUntouched, AckedUntouched DEF tables, around
  <2>. QED BY <2>2, <2>5, <2>6, IInvParts
<1>. QED BY <1>2, <1>3

\* The two INSERTs after the reservation: the handler goes on, or returns with
\* the rows in place.
LEMMA ThenKeepsHandlers ==
  ASSUME SingleProcess, TypeOK, HandlersAgree,
         NEW h \in Handlers, NEW step \in IngestSteps, pc[h] \in IngestSteps, Then(h, step),
         Goto(h, step) /\ UNCHANGED seen => KnowsAt(h)'
  PROVE  LocalsOK' /\ HandlersAgree'
<1>1. pc[h] \in Steps /\ step \in Steps
  BY DEF Steps
<1>2. CASE Answer(h)
  BY <1>1, <1>2, TypeParts, ReturnKeepsTypes, ReturnKeepsHandlers
<1>3. CASE Goto(h, step) /\ UNCHANGED seen
  <2>1. LocalsOK'
    BY <1>1, <1>3, TypeParts, GotoKeepsTypes DEF LocalsOK
  <2>2. HandlersAgree'
    BY <1>3, GotoKeepsHandlers
  <2>. QED BY <2>1, <2>2
<1>. QED BY <1>2, <1>3 DEF Then

LEMMA RegisterRecordsKeepsIInv ==
  ASSUME SingleProcess, IInv, NEW h \in Handlers, RegisterRecords(h)
  PROVE  IInv'
<1>. DEFINE b == arg[h]
<1>1. /\ pc[h] = "register" /\ pc[h] \in IngestSteps /\ b \in Bodies
      /\ HasReservation(h) /\ ~Suppressed(b) /\ ~RegistryClash(b)
  BY WriterKnows DEF RegisterRecords, At, KnowsAt
<1>2. /\ registered' = registered \cup {b} /\ Then(h, "insert")
      /\ UNCHANGED <<ledger, stored, suppressions, around, acked>>
  BY DEF RegisterRecords
<1>3. TablesOK'
  BY <1>1, <1>2, IInvParts, TypeParts DEF TablesOK, around
<1>4. TablesAgree'
  <2>1. StoredIsRegistered' /\ RowsAtHome'
    BY <1>2, IInvParts DEF TablesAgree, StoredIsRegistered, RowsAtHome
  <2>2. RegisteredOwnsBatch'
    BY <1>1, <1>2, IInvParts DEF TablesAgree, RegisteredOwnsBatch, HasReservation, Row
  <2>3. RegistryDisjoint'
    BY <1>1, <1>2, IInvParts DEF TablesAgree, RegistryDisjoint, RegistryClash
  <2>4. ErasedSoFar'
    BY <1>1, <1>2, IInvParts DEF TablesAgree, ErasedSoFar, Suppressed, around, TypeOK
  <2>5. CompletedIsStored'
    BY <1>2, IInvParts DEF TablesAgree, CompletedIsStored, DeleteRequested
  <2>. QED BY <2>1, <2>2, <2>3, <2>4, <2>5 DEF TablesAgree
<1>5. AckedIsStored'
  BY <1>2, IInvParts DEF AckedIsStored, DeleteRequested
<1>6. Goto(h, "insert") /\ UNCHANGED seen => KnowsAt(h)'
  BY <1>1, <1>2, IInvParts DEF KnowsAt, HasReservation, Suppressed, Goto, TypeOK
<1>7. LocalsOK' /\ HandlersAgree'
  BY <1>1, <1>2, <1>6, IInvParts, ThenKeepsHandlers DEF IngestSteps
<1>. QED BY <1>3, <1>4, <1>5, <1>7, IInvParts, TypeParts

LEMMA InsertRowsKeepsIInv ==
  ASSUME SingleProcess, IInv, NEW h \in Handlers, InsertRows(h)
  PROVE  IInv'
<1>. DEFINE b == arg[h]
<1>1. /\ pc[h] = "insert" /\ pc[h] \in IngestSteps /\ b \in Bodies
      /\ HasReservation(h) /\ ~Suppressed(b) /\ b \in registered
  BY WriterKnows DEF InsertRows, At, KnowsAt
<1>2. /\ stored' = stored \cup {b} /\ Then(h, "complete")
      /\ UNCHANGED <<ledger, registered, suppressions, around, acked>>
  BY DEF InsertRows
<1>3. TablesOK'
  BY <1>1, <1>2, IInvParts, TypeParts DEF TablesOK, around
<1>4. TablesAgree'
  <2>1. StoredIsRegistered' /\ RowsAtHome' /\ RegisteredOwnsBatch' /\ RegistryDisjoint'
    BY <1>1, <1>2, IInvParts
       DEF TablesAgree, StoredIsRegistered, RowsAtHome, RegisteredOwnsBatch, RegistryDisjoint
  <2>2. ErasedSoFar'
    BY <1>1, <1>2, IInvParts DEF TablesAgree, ErasedSoFar, Suppressed, around, TypeOK
  <2>3. CompletedIsStored'
    BY <1>2, IInvParts DEF TablesAgree, CompletedIsStored, DeleteRequested
  <2>. QED BY <2>1, <2>2, <2>3 DEF TablesAgree
<1>5. AckedIsStored'
  BY <1>2, IInvParts DEF AckedIsStored, DeleteRequested
<1>6. Goto(h, "complete") /\ UNCHANGED seen => KnowsAt(h)'
  BY <1>1, <1>2, IInvParts DEF KnowsAt, HasReservation, Suppressed, Goto, TypeOK
<1>7. LocalsOK' /\ HandlersAgree'
  BY <1>1, <1>2, <1>6, IInvParts, ThenKeepsHandlers DEF IngestSteps
<1>. QED BY <1>3, <1>4, <1>5, <1>7, IInvParts, TypeParts

LEMMA CompleteKeepsIInv ==
  ASSUME SingleProcess, IInv, NEW h \in Handlers, Complete(h)
  PROVE  IInv'
<1>. DEFINE b == arg[h]
            n == BatchOf[b]
<1>1. /\ pc[h] = "complete" /\ pc[h] \in Steps /\ b \in Bodies /\ n \in Batches
      /\ HasReservation(h) /\ ~Suppressed(b) /\ b \in registered /\ b \in stored
  BY WriterKnows DEF Complete, At, KnowsAt
<1>. PICK now \in Times :
       ledger' = [ledger EXCEPT ![n] =
                    Replace(@, Row("completed", b, CompletedAt(now, seen[h].at)))]
  BY DEF Complete
<1>. DEFINE row == Row("completed", b, CompletedAt(now, seen[h].at))
<1>2. ledger[n].at \in Nat /\ seen[h].at = ledger[n].at /\ Present(ledger[n])
      /\ ledger[n].body = b
  BY <1>1, IInvParts DEF HasReservation, TypeOK, LedgerRow, NoRow, Present, Row
<1>3. row.at \in Nat /\ row.at > ledger[n].at
  BY <1>2, ConstantsAssumption DEF Row, CompletedAt
<1>4. row \in LedgerRow /\ row.status = "completed" /\ row.body = b /\ Present(row)
  BY <1>1, <1>3 DEF Row, LedgerRow, Present
<1>5. Replace(ledger[n], row) = row
  BY <1>2, <1>3 DEF Replace
<1>6. ledger' = [ledger EXCEPT ![n] = row]
  BY <1>1, <1>5, IInvParts DEF TypeOK
<1>7. \A m \in Batches : ledger'[m] = IF m = n THEN row ELSE ledger[m]
  BY <1>1, <1>6, IInvParts DEF TypeOK
<1>8. /\ Answer(h) /\ acked' \subseteq acked \cup {b}
      /\ UNCHANGED <<registered, stored, suppressions, around>>
  BY DEF Complete
<1>9. TablesOK'
  BY <1>1, <1>4, <1>6, <1>8, IInvParts, TypeParts DEF TablesOK, around
<1>10. TablesAgree'
  <2>1. StoredIsRegistered' /\ RegistryDisjoint'
    BY <1>8, IInvParts DEF TablesAgree, StoredIsRegistered, RegistryDisjoint
  <2>2. RegisteredOwnsBatch'
    BY <1>2, <1>4, <1>7, <1>8, IInvParts, TypeParts, ConstantsAssumption
       DEF TablesAgree, RegisteredOwnsBatch, TablesOK
  <2>3. RowsAtHome'
    BY <1>4, <1>7, IInvParts DEF TablesAgree, RowsAtHome
  <2>4. ErasedSoFar'
    BY <1>1, <1>4, <1>7, <1>8, IInvParts
       DEF TablesAgree, ErasedSoFar, Suppressed, around, TypeOK
  <2>5. CompletedIsStored'
    BY <1>1, <1>4, <1>7, <1>8, IInvParts DEF TablesAgree, CompletedIsStored, DeleteRequested
  <2>. QED BY <2>1, <2>2, <2>3, <2>4, <2>5 DEF TablesAgree
<1>11. AckedIsStored'
  BY <1>1, <1>2, <1>4, <1>7, <1>8, IInvParts, TypeParts, ConstantsAssumption
     DEF AckedIsStored, DeleteRequested, TablesOK
<1>12. LocalsOK' /\ HandlersAgree'
  BY <1>1, <1>8, IInvParts, TypeParts, ReturnKeepsTypes, ReturnKeepsHandlers
<1>. QED BY <1>9, <1>10, <1>11, <1>12, IInvParts, TypeParts

-----------------------------------------------------------------------------
(* The statements of CreatePrivacyRequest, and the world around            *)

LEMMA ReadRequestKeepsIInv ==
  ASSUME SingleProcess, IInv, NEW h \in Handlers, ReadRequest(h)
  PROVE  IInv'
<1>1. /\ pc[h] = "request" /\ pc[h] \in Steps /\ arg[h] \in PrivacyBodies /\ v2Mu[Writer] = h
      /\ UNCHANGED <<tables, around, acked>>
  BY IInvParts
     DEF ReadRequest, At, Steps, PrivacySteps, HandlersAgree, HoldsMutex, ServesBody
<1>2. CASE Answer(h)
  BY <1>1, <1>2, ReturnKeepsIInv
<1>3. CASE Goto(h, "record") /\ UNCHANGED seen
  <2>1. TypeOK'
    BY <1>1, <1>3, IInvParts, TypeParts, GotoKeepsTypes
       DEF TablesOK, LocalsOK, tables, around, Steps, PrivacySteps
  <2>2. /\ pc'[h] = "record" /\ arg' = arg /\ v2Mu' = v2Mu
        /\ \A k \in Handlers \ {h} : pc'[k] = pc[k]
    BY <1>3, IInvParts DEF Goto, TypeOK
  <2>3. KnowsAt(h)'
    BY <2>2 DEF KnowsAt
  <2>4. HandlersAgree'
    BY <1>1, <2>2, <2>3, IInvParts, OnlyTheHolderKnows DEF IngestSteps, PrivacySteps
  <2>5. TablesAgree' /\ AckedIsStored'
    BY <1>1, IInvParts, TablesUntouched, AckedUntouched DEF tables, around
  <2>. QED BY <2>1, <2>4, <2>5, IInvParts
<1>. QED BY <1>2, <1>3 DEF ReadRequest

LEMMA RecordRequestKeepsIInv ==
  ASSUME SingleProcess, IInv, NEW h \in Handlers, RecordRequest(h)
  PROVE  IInv'
<1>1. pc[h] \in Steps /\ arg[h] \in PrivacyBodies
  BY IInvParts DEF RecordRequest, At, Steps, PrivacySteps, HandlersAgree, ServesBody
<1>2. /\ suppressions' = suppressions \cup {arg[h]} /\ Answer(h)
      /\ UNCHANGED <<ledger, registered, stored, around, acked>>
  BY DEF RecordRequest
<1>3. TypeOK'
  BY <1>1, <1>2, IInvParts, TypeParts, ReturnKeepsTypes DEF TablesOK, around
<1>4. HandlersAgree'
  BY <1>1, <1>2, IInvParts, ReturnKeepsHandlers
<1>5. TablesAgree'
  BY <1>2, IInvParts
     DEF TablesAgree, StoredIsRegistered, RegisteredOwnsBatch, RowsAtHome, RegistryDisjoint,
         ErasedSoFar, CompletedIsStored, DeleteRequested, around
<1>6. AckedIsStored'
  BY <1>2, IInvParts DEF AckedIsStored, DeleteRequested
<1>. QED BY <1>3, <1>4, <1>5, <1>6, IInvParts

LEMMA CrashKeepsIInv ==
  ASSUME SingleProcess, IInv, NEW p \in Procs, Crash(p)
  PROVE  IInv'
<1>1. \A h \in Handlers : ProcOf[h] = p
  BY ConstantsAssumption DEF SingleProcess
<1>2. /\ pc' = [h \in Handlers |-> "idle"] /\ arg' = [h \in Handlers |-> NoBody]
      /\ seen' = [h \in Handlers |-> NoRow] /\ v2Mu' = [v2Mu EXCEPT ![p] = Nobody]
      /\ UNCHANGED <<tables, around, acked>>
  BY <1>1 DEF Crash
<1>3. TypeOK'
  BY <1>2, IInvParts DEF TypeOK, tables, around, Waiting
<1>4. HandlersAgree'
  BY <1>2 DEF HandlersAgree, HoldsMutex, ServesBody, HandlersKnow, KnowsAt, Steps,
              IngestSteps, PrivacySteps
<1>5. TablesAgree' /\ AckedIsStored'
  BY <1>2, IInvParts, TablesUntouched, AckedUntouched DEF tables, around
<1>. QED BY <1>3, <1>4, <1>5, IInvParts

\* A mutation only removes rows of a suppressed scope, and no handler is past its
\* suppression check with such a body.
LEMMA EraseTableKeepsIInv ==
  ASSUME SingleProcess, IInv, NEW p \in PrivacyBodies, EraseTable(p)
  PROVE  IInv'
<1>. DEFINE mine == Covered(p)
            finished == erased[p]
<1>1. /\ p \in suppressions /\ ActionOf[p] = "delete" /\ finished \in {0, 1, 2}
      /\ UNCHANGED <<suppressions, locals, outage, acked>>
      /\ erased' = erased \/ erased' = [erased EXCEPT ![p] = finished + 1]
  BY IInvParts DEF EraseTable, TypeOK
<1>2. /\ stored' = IF finished = 0 THEN stored \ mine ELSE stored
      /\ registered' = IF finished = 1 THEN registered \ mine ELSE registered
  BY DEF EraseTable
<1>3. \A n \in Batches :
        ledger'[n] = IF finished = 2 /\ Present(ledger[n]) /\ ledger[n].body \in mine
                     THEN NoRow ELSE ledger[n]
  BY DEF EraseTable
<1>4. \A b \in mine : b \in Bodies /\ Suppressed(b) /\ DeleteRequested(b)
  BY <1>1 DEF Covered, Suppressed, DeleteRequested
<1>5. ledger' \in [Batches -> LedgerRow \cup {NoRow}]
  BY <1>3, IInvParts DEF EraseTable, TypeOK
<1>6. TypeOK'
  BY <1>1, <1>2, <1>5, IInvParts DEF TypeOK, locals
<1>7. HandlersAgree'
  <2>1. HoldsMutex' /\ ServesBody'
    BY <1>1, IInvParts DEF HandlersAgree, HoldsMutex, ServesBody, locals
  <2>2. ASSUME NEW h \in Handlers PROVE KnowsAt(h)'
    <3>. DEFINE b == arg[h]
    <3>1. KnowsAt(h)
      BY <2>2, IInvParts DEF HandlersAgree, HandlersKnow
    <3>2. CASE pc[h] \in {"suppression", "reserve", "lookup", "register", "insert", "complete"}
      <4>1. b \in Bodies /\ BatchOf[b] \in Batches
        BY <2>2, <3>2, IInvParts, ConstantsAssumption DEF HandlersAgree, ServesBody, IngestSteps
      <4>2. ~Suppressed(b) => b \notin mine
        BY <1>4
      <4>3. ~Present(ledger[BatchOf[b]]) => ~Present(ledger'[BatchOf[b]])
        BY <1>3, <4>1
      <4>4. HasReservation(h) /\ ~Suppressed(b) => HasReservation(h)'
        BY <1>1, <1>3, <4>1, <4>2 DEF HasReservation, locals, Row
      <4>5. Suppressed(b)' <=> Suppressed(b)
        BY <1>1 DEF Suppressed, locals
      <4>6. ~RegistryClash(b) => ~RegistryClash(b)'
        BY <1>1, <1>2 DEF RegistryClash, locals
      <4>7. ~Suppressed(b) => (b \in registered => b \in registered')
                              /\ (b \in stored => b \in stored')
        BY <1>2, <4>2
      <4>8. pc' = pc /\ arg' = arg /\ seen' = seen
        BY <1>1 DEF locals
      <4>. QED
        BY <3>1, <4>3, <4>4, <4>5, <4>6, <4>7, <4>8 DEF KnowsAt
    <3>3. CASE pc[h] \notin {"suppression", "reserve", "lookup", "register", "insert", "complete"}
      BY <1>1, <3>3 DEF KnowsAt, locals
    <3>. QED BY <3>2, <3>3
  <2>. QED BY <2>1, <2>2 DEF HandlersAgree, HandlersKnow
<1>8. TablesAgree'
  <2>1. StoredIsRegistered'
    BY <1>1, <1>2, IInvParts DEF TablesAgree, StoredIsRegistered, ErasedSoFar
  <2>2. RegisteredOwnsBatch'
    <3>1. finished = 2 => registered \cap mine = {}
      BY IInvParts DEF TablesAgree, ErasedSoFar
    <3>. QED
      BY <1>2, <1>3, <3>1, IInvParts, TypeParts, ConstantsAssumption
         DEF TablesAgree, RegisteredOwnsBatch, TablesOK
  <2>3. RowsAtHome'
    BY <1>3, IInvParts DEF TablesAgree, RowsAtHome, Present, NoRow
  <2>4. RegistryDisjoint'
    BY <1>2, IInvParts DEF TablesAgree, RegistryDisjoint
  <2>5. ASSUME NEW q \in PrivacyBodies
        PROVE  /\ erased'[q] > 0 => q \in suppressions' /\ Covered(q) \cap stored' = {}
               /\ erased'[q] > 1 => Covered(q) \cap registered' = {}
               /\ erased'[q] > 2 => \A n \in Batches :
                                      Present(ledger'[n]) => ledger'[n].body \notin Covered(q)
    <3>1. /\ erased[q] > 0 => q \in suppressions /\ Covered(q) \cap stored = {}
          /\ erased[q] > 1 => Covered(q) \cap registered = {}
          /\ erased[q] > 2 => \A n \in Batches :
                                Present(ledger[n]) => ledger[n].body \notin Covered(q)
      BY <2>5, IInvParts DEF TablesAgree, ErasedSoFar
    <3>2. /\ stored' \subseteq stored /\ registered' \subseteq registered
          /\ \A n \in Batches : Present(ledger'[n]) => ledger'[n] = ledger[n]
      BY <1>2, <1>3 DEF Present, NoRow
    <3>3. CASE erased'[q] = erased[q]
      BY <1>1, <3>1, <3>2, <3>3
    <3>4. CASE erased'[q] # erased[q]
      <4>1. q = p /\ erased'[p] = finished + 1
        BY <1>1, <2>5, <3>4, IInvParts DEF TypeOK
      <4>2. CASE finished = 0
        BY <1>1, <1>2, <4>1, <4>2
      <4>3. CASE finished = 1
        BY <1>1, <1>2, <3>1, <3>2, <4>1, <4>3
      <4>4. CASE finished = 2
        BY <1>1, <1>3, <3>1, <3>2, <4>1, <4>4 DEF Present, NoRow
      <4>. QED BY <1>1, <4>2, <4>3, <4>4
    <3>. QED BY <3>3, <3>4
  <2>6. ErasedSoFar'
    BY <2>5 DEF ErasedSoFar
  <2>7. CompletedIsStored'
    <3>. SUFFICES ASSUME NEW n \in Batches, ledger'[n].status = "completed"
                  PROVE  \/ DeleteRequested(ledger[n].body)'
                         \/ ledger'[n].body \in stored' \cap registered'
      BY <1>3 DEF CompletedIsStored, NoRow
    <3>1. ledger'[n] = ledger[n]
      BY <1>3 DEF NoRow
    <3>2. DeleteRequested(ledger[n].body) \/ ledger[n].body \in stored \cap registered
      BY <3>1, IInvParts DEF TablesAgree, CompletedIsStored
    <3>. QED BY <1>1, <1>2, <1>4, <3>1, <3>2 DEF DeleteRequested
  <2>. QED BY <2>1, <2>2, <2>3, <2>4, <2>6, <2>7 DEF TablesAgree
<1>9. AckedIsStored'
  <2>. SUFFICES ASSUME NEW b \in acked, ~DeleteRequested(b)
                PROVE  /\ b \in stored' /\ b \in registered'
                       /\ ledger'[BatchOf[b]].status = "completed"
                       /\ ledger'[BatchOf[b]].body = b
    BY <1>1 DEF AckedIsStored, DeleteRequested
  <2>1. b \notin mine /\ BatchOf[b] \in Batches
    BY <1>4, IInvParts, TypeParts, ConstantsAssumption DEF TablesOK
  <2>2. /\ b \in stored /\ b \in registered /\ ledger[BatchOf[b]].status = "completed"
        /\ ledger[BatchOf[b]].body = b
    BY IInvParts DEF AckedIsStored
  <2>. QED BY <1>2, <1>3, <2>1, <2>2
<1>. QED BY <1>6, <1>7, <1>8, <1>9, IInvParts

-----------------------------------------------------------------------------
(* The inductive invariant                                                 *)

LEMMA InitIInv ==
  ASSUME SingleProcess, Init
  PROVE  IInv
<1>1. TypeOK
  BY ConstantsAssumption DEF Init, TypeOK, LedgerRow, NoRow, Waiting, Steps
<1>2. HoldsMutex /\ ServesBody /\ HandlersKnow
  BY DEF Init, HoldsMutex, ServesBody, HandlersKnow, KnowsAt, Steps, IngestSteps,
         PrivacySteps
<1>3. /\ StoredIsRegistered /\ RegisteredOwnsBatch /\ RowsAtHome /\ RegistryDisjoint
      /\ ErasedSoFar /\ CompletedIsStored /\ AckedIsStored
  BY DEF Init, StoredIsRegistered, RegisteredOwnsBatch, RowsAtHome, RegistryDisjoint,
         ErasedSoFar, CompletedIsStored, AckedIsStored, Present, NoRow
<1> QED BY <1>1, <1>2, <1>3 DEF IInv

LEMMA FailKeepsIInv ==
  ASSUME SingleProcess, IInv, NEW h \in Handlers, Fail(h)
  PROVE  IInv'
<1>1. /\ pc[h] \in Steps /\ Answer(h)
      /\ UNCHANGED <<tables, around, acked>>
  BY DEF Fail
<1> QED BY <1>1, ReturnKeepsIInv DEF around

LEMMA StutterKeepsIInv ==
  ASSUME IInv, UNCHANGED vars
  PROVE  IInv'
BY DEF vars, IInv, TypeOK, HoldsMutex, ServesBody, HandlersKnow, KnowsAt, HasReservation,
       StoredIsRegistered, RegisteredOwnsBatch, RowsAtHome, RegistryDisjoint, ErasedSoFar,
       CompletedIsStored, AckedIsStored, Suppressed, DeleteRequested, RegistryClash

LEMMA NextKeepsIInv ==
  ASSUME SingleProcess, IInv, [Next]_vars
  PROVE  IInv'
<1>1. CASE UNCHANGED vars
  BY <1>1, StutterKeepsIInv
<1>2. ASSUME NEW h \in Handlers, NEW x \in Bodies \cup PrivacyBodies, Begin(h, x)
      PROVE  IInv'
  BY <1>2, BeginKeepsIInv
<1>3. ASSUME NEW h \in Handlers, InsertV2(h)
      PROVE  IInv'
  BY <1>3, ReadLedgerKeepsIInv, CheckSuppressionKeepsIInv, ReserveKeepsIInv,
     LookupRecordsKeepsIInv, RegisterRecordsKeepsIInv, InsertRowsKeepsIInv,
     CompleteKeepsIInv DEF InsertV2
<1>4. ASSUME NEW h \in Handlers, CreatePrivacyRequest(h)
      PROVE  IInv'
  BY <1>4, ReadRequestKeepsIInv, RecordRequestKeepsIInv DEF CreatePrivacyRequest
<1>5. ASSUME NEW h \in Handlers, Lock(h) \/ Fail(h)
      PROVE  IInv'
  BY <1>5, LockKeepsIInv, FailKeepsIInv
<1>6. ASSUME NEW p \in Procs, Crash(p)
      PROVE  IInv'
  BY <1>6, CrashKeepsIInv
<1>7. ASSUME NEW p \in PrivacyBodies, EraseTable(p)
      PROVE  IInv'
  BY <1>7, EraseTableKeepsIInv
<1> QED BY <1>1, <1>2, <1>3, <1>4, <1>5, <1>6, <1>7 DEF Next

\* The invariant holds of every behaviour of a store that one process serves.
THEOREM Invariance ==
  ASSUME SingleProcess
  PROVE  Spec => []IInv
<1>1. Init => IInv
  BY InitIInv
<1>2. IInv /\ [Next]_vars => IInv'
  BY NextKeepsIInv
<1> QED BY <1>1, <1>2, PTL DEF Spec

-----------------------------------------------------------------------------
(* What a reader of the store may rely on                                  *)

\* Every variable keeps its type.
THEOREM TypeCorrect ==
  ASSUME SingleProcess
  PROVE  Spec => []TypeOK
<1>1. IInv => TypeOK
  BY DEF IInv
<1> QED BY <1>1, Invariance, PTL

\* Two bodies with one batch id are never both in the store: each of them owns
\* the ledger row of the batch.
THEOREM BatchHasOneBody ==
  ASSUME SingleProcess
  PROVE  Spec => []OneBodyPerBatch
<1>1. IInv => OneBodyPerBatch
  BY DEF IInv, StoredIsRegistered, RegisteredOwnsBatch, OneBodyPerBatch
<1> QED BY <1>1, Invariance, PTL

\* A record id has event rows of one body only.
THEOREM RecordHasOneBody ==
  ASSUME SingleProcess
  PROVE  Spec => []OneBodyPerRecord
<1>1. IInv => OneBodyPerRecord
  BY DEF IInv, StoredIsRegistered, RegistryDisjoint, OneBodyPerRecord
<1> QED BY <1>1, Invariance, PTL

\* A body answered 202 is in every table until a deletion of its scope is
\* requested.
THEOREM AcknowledgedIsDurable ==
  ASSUME SingleProcess
  PROVE  Spec => []AckedIsStored
<1>1. IInv => AckedIsStored
  BY DEF IInv
<1> QED BY <1>1, Invariance, PTL

\* A batch that reads completed has its events, so answering a retry from the
\* ledger alone loses nothing.
THEOREM CompletedIsDurable ==
  ASSUME SingleProcess
  PROVE  Spec => []CompletedIsStored
<1>1. IInv => CompletedIsStored
  BY DEF IInv
<1> QED BY <1>1, Invariance, PTL

\* What a finished deletion erased never comes back, not even from a handler
\* that was on its way when the deletion was requested.
THEOREM DeletionIsFinal ==
  ASSUME SingleProcess
  PROVE  Spec => []ErasedStaysErased
<1>1. IInv => ErasedStaysErased
  <2>. SUFFICES ASSUME IInv, NEW p \in PrivacyBodies, erased[p] = 3
                PROVE  /\ Covered(p) \cap (stored \cup registered) = {}
                       /\ \A n \in Batches : Present(ledger[n]) => ledger[n].body \notin Covered(p)
    BY DEF ErasedStaysErased
  <2>1. erased[p] > 0 /\ erased[p] > 1 /\ erased[p] > 2
    OBVIOUS
  <2> QED BY <2>1 DEF IInv, ErasedSoFar
<1> QED BY <1>1, Invariance, PTL

-----------------------------------------------------------------------------
(* What no step does                                                       *)

\* Only Reserve and Complete write ledger rows, and only their own body's.
LEMMA LedgerWriters ==
  ASSUME SingleProcess, IInv, Next, NEW n \in Batches, ledger'[n] # ledger[n]
  PROVE  \/ /\ ~Present(ledger'[n])
            /\ \E p \in suppressions : ActionOf[p] = "delete" /\ ledger[n].body \in Covered(p)
         \/ \E h \in Handlers :
              /\ arg[h] \in Bodies /\ ~Suppressed(arg[h])
              /\ n = BatchOf[arg[h]] /\ ledger'[n].body = arg[h]
              /\ \/ ~Present(ledger[n])
                 \/ /\ ledger[n].status = "reserved" /\ ledger[n].body = arg[h]
                    /\ ledger'[n].status = "completed"
<1>1. ASSUME NEW h \in Handlers, Reserve(h)
      PROVE  /\ arg[h] \in Bodies /\ ~Suppressed(arg[h])
             /\ n = BatchOf[arg[h]] /\ ledger'[n].body = arg[h]
             /\ ~Present(ledger[n])
  BY <1>1, ConstantsAssumption DEF Reserve, At, IInv, TypeOK, ServesBody, HandlersKnow,
     KnowsAt, IngestSteps, Replace, Present, Row
<1>2. ASSUME NEW h \in Handlers, Complete(h)
      PROVE  /\ arg[h] \in Bodies /\ ~Suppressed(arg[h])
             /\ n = BatchOf[arg[h]] /\ ledger'[n].body = arg[h]
             /\ ledger[n].status = "reserved" /\ ledger[n].body = arg[h]
             /\ ledger'[n].status = "completed"
  BY <1>2, ConstantsAssumption DEF Complete, At, IInv, TypeOK, ServesBody, HandlersKnow,
     KnowsAt, IngestSteps, Replace, Present, Row, HasReservation
<1>3. ASSUME NEW p \in PrivacyBodies, EraseTable(p)
      PROVE  /\ ~Present(ledger'[n])
             /\ p \in suppressions /\ ActionOf[p] = "delete" /\ ledger[n].body \in Covered(p)
  BY <1>3 DEF EraseTable, IInv, TypeOK, NoRow, Present
<1>4. ASSUME NEW h \in Handlers,
             \/ \E x \in Bodies \cup PrivacyBodies : Begin(h, x)
             \/ Lock(h) \/ Fail(h) \/ CreatePrivacyRequest(h)
             \/ ReadLedger(h) \/ CheckSuppression(h) \/ LookupRecords(h)
             \/ RegisterRecords(h) \/ InsertRows(h)
      PROVE  FALSE
  BY <1>4 DEF Begin, Lock, Fail, CreatePrivacyRequest, ReadRequest, RecordRequest, ReadLedger,
     CheckSuppression, LookupRecords, RegisterRecords, InsertRows, tables
<1>5. ASSUME NEW p \in Procs, Crash(p)
      PROVE  FALSE
  BY <1>5 DEF Crash, tables
<1> QED BY <1>1, <1>2, <1>3, <1>4, <1>5 DEF Next, InsertV2

\* Rows enter the stream tables and the registry only for a body under no
\* suppression.
LEMMA TableWriters ==
  ASSUME SingleProcess, IInv, Next,
         NEW b \in (stored' \ stored) \cup (registered' \ registered)
  PROVE  ~Suppressed(b)
<1>1. ASSUME NEW h \in Handlers, RegisterRecords(h) \/ InsertRows(h)
      PROVE  b = arg[h] /\ ~Suppressed(arg[h])
  BY <1>1 DEF RegisterRecords, InsertRows, At, IInv, HandlersKnow, KnowsAt
<1>2. ASSUME NEW h \in Handlers,
             \/ \E x \in Bodies \cup PrivacyBodies : Begin(h, x)
             \/ Lock(h) \/ Fail(h) \/ CreatePrivacyRequest(h)
             \/ ReadLedger(h) \/ CheckSuppression(h) \/ LookupRecords(h)
             \/ Reserve(h) \/ Complete(h)
      PROVE  FALSE
  BY <1>2 DEF Begin, Lock, Fail, CreatePrivacyRequest, ReadRequest, RecordRequest, ReadLedger,
     CheckSuppression, LookupRecords, Reserve, Complete, tables
<1>3. ASSUME NEW p \in Procs, Crash(p)
      PROVE  FALSE
  BY <1>3 DEF Crash, tables
<1>4. ASSUME NEW p \in PrivacyBodies, EraseTable(p)
      PROVE  FALSE
  BY <1>4 DEF EraseTable
<1> QED BY <1>1, <1>2, <1>3, <1>4 DEF Next, InsertV2

\* No statement adds a row of a suppressed scope to any table.
THEOREM SuppressionHolds ==
  ASSUME SingleProcess
  PROVE  Spec => NoWriteAfterSuppression
<1> DEFINE Quiet ==
      /\ \A b \in (stored' \ stored) \cup (registered' \ registered) : ~Suppressed(b)
      /\ \A n \in Batches :
           ledger'[n] # ledger[n] /\ Present(ledger'[n]) => ~Suppressed(ledger'[n].body)
<1>1. ASSUME IInv, Next
      PROVE  Quiet
  BY <1>1, LedgerWriters, TableWriters
<1>2. IInv /\ [Next]_vars => [Quiet]_vars
  BY <1>1
<1> HIDE DEF Quiet
<1>3. Spec => [][Quiet]_vars
  BY <1>2, Invariance, PTL DEF Spec
<1> QED BY <1>3 DEF NoWriteAfterSuppression, Quiet

\* A batch keeps its body and a completed row is removed only by a deletion.
THEOREM LedgerIsMonotone ==
  ASSUME SingleProcess
  PROVE  Spec => LedgerMovesForward
<1> DEFINE Forward ==
      \A n \in Batches :
        Present(ledger[n]) /\ ledger'[n] # ledger[n] =>
          \/ ~Present(ledger'[n]) /\ DeleteRequested(ledger[n].body)
          \/ /\ ledger[n].status = "reserved" /\ ledger'[n].status = "completed"
             /\ ledger'[n].body = ledger[n].body
<1>1. ASSUME IInv, Next
      PROVE  Forward
  BY <1>1, LedgerWriters DEF DeleteRequested
<1>2. IInv /\ [Next]_vars => [Forward]_vars
  BY <1>1
<1> HIDE DEF Forward
<1>3. Spec => [][Forward]_vars
  BY <1>2, Invariance, PTL DEF Spec
<1> QED BY <1>3 DEF LedgerMovesForward, Forward

-----------------------------------------------------------------------------
(* IngestPromise                                                           *)

\* What the promise sees of the store.
Visible == <<ledger, stored, suppressions, acked>>

LEMMA InvisibleStep ==
  ASSUME UNCHANGED Visible
  PROVE  UNCHANGED Promise!vars
BY DEF Visible, Promise!vars, ClaimMap, DoneMap, MutedMap, Suppressed

LEMMA InitMaps ==
  ASSUME Init
  PROVE  Promise!Init
BY DEF Init, Promise!Init, ClaimMap, DoneMap, MutedMap, Suppressed, Present, NoRow

\* A statement that leaves ledger and suppressions alone leaves their maps alone.
LEMMA SameMaps ==
  /\ ledger' = ledger => ClaimMap' = ClaimMap /\ DoneMap' = DoneMap
  /\ suppressions' = suppressions => MutedMap' = MutedMap
BY DEF ClaimMap, DoneMap, MutedMap, Suppressed

\* A row other than NoRow claims its batch for its body.
LEMMA ClaimOf ==
  ASSUME NEW n \in Batches
  PROVE  ClaimMap[n] = IF Present(ledger[n]) THEN ledger[n].body ELSE NoBody
BY DEF ClaimMap

LEMMA ReadLedgerMaps ==
  ASSUME SingleProcess, IInv, NEW h \in Handlers, ReadLedger(h)
  PROVE  [Promise!Next]_(Promise!vars)
<1> DEFINE b == arg[h]
           n == BatchOf[b]
<1>1. b \in Bodies /\ n \in Batches
  BY WriterKnows, ConstantsAssumption DEF ReadLedger, At, IngestSteps, IInv, ServesBody
<1>2. UNCHANGED <<ledger, stored, suppressions>>
  BY DEF ReadLedger, tables
<1>3. CASE acked' = acked
  BY <1>2, <1>3, InvisibleStep DEF Visible
<1>4. CASE acked' # acked
  <2>1. Present(ledger[n]) /\ ledger[n].body = b /\ ledger[n].status = "completed"
        /\ acked' = acked \cup {b}
    BY <1>4 DEF ReadLedger, Present
  <2>2. Promise!Repeat(b)
    BY <1>1, <1>2, <2>1, SameMaps, ClaimOf DEF Promise!Repeat, DoneMap
  <2> QED BY <1>1, <2>2 DEF Promise!Next
<1> QED BY <1>3, <1>4

LEMMA ReserveMaps ==
  ASSUME SingleProcess, IInv, NEW h \in Handlers, Reserve(h)
  PROVE  [Promise!Next]_(Promise!vars)
<1> DEFINE b == arg[h]
           n == BatchOf[b]
<1>1. b \in Bodies /\ n \in Batches /\ ~Suppressed(b) /\ ~Present(ledger[n])
  BY ConstantsAssumption
  DEF Reserve, At, IngestSteps, IInv, ServesBody, HandlersKnow, KnowsAt
<1>2. UNCHANGED <<stored, suppressions, acked>>
  BY DEF Reserve
<1>3. PICK now \in Times : ledger' = [ledger EXCEPT ![n] = Row("reserved", b, now)]
  BY <1>1 DEF Reserve, Replace
<1>4. ledger \in [Batches -> LedgerRow \cup {NoRow}]
  BY DEF IInv, TypeOK
<1>5. ClaimMap' = [ClaimMap EXCEPT ![n] = b]
  BY <1>1, <1>3, <1>4 DEF ClaimMap, Present, Row
<1>6. DoneMap' = DoneMap
  BY <1>1, <1>3, <1>4 DEF DoneMap, Present, Row
<1>7. Promise!Claim(b)
  BY <1>1, <1>2, <1>5, <1>6, SameMaps, ClaimOf DEF Promise!Claim, MutedMap
<1> QED BY <1>1, <1>7 DEF Promise!Next

LEMMA InsertRowsMaps ==
  ASSUME SingleProcess, IInv, NEW h \in Handlers, InsertRows(h)
  PROVE  [Promise!Next]_(Promise!vars)
<1> DEFINE b == arg[h]
           n == BatchOf[b]
<1>1. /\ b \in Bodies /\ n \in Batches /\ ~Suppressed(b)
      /\ Present(ledger[n]) /\ ledger[n].body = b /\ b \in registered
  <2>1. b \in Bodies /\ ~Suppressed(b) /\ b \in registered
    BY DEF InsertRows, At, IngestSteps, IInv, ServesBody, HandlersKnow, KnowsAt
  <2> QED BY <2>1, ConstantsAssumption DEF IInv, RegisteredOwnsBatch
<1>2. UNCHANGED <<ledger, suppressions, acked>> /\ stored' = stored \cup {b}
  BY DEF InsertRows
<1>3. \A c \in stored : RecordsOf[c] \cap RecordsOf[b] # {} => c = b
  BY <1>1 DEF IInv, StoredIsRegistered, RegistryDisjoint
<1>4. Promise!Hold(b)
  BY <1>1, <1>2, <1>3, SameMaps, ClaimOf DEF Promise!Hold, MutedMap
<1> QED BY <1>1, <1>4 DEF Promise!Next

LEMMA CompleteMaps ==
  ASSUME SingleProcess, IInv, NEW h \in Handlers, Complete(h)
  PROVE  [Promise!Next]_(Promise!vars)
<1> DEFINE b == arg[h]
           n == BatchOf[b]
<1>1. /\ b \in Bodies /\ n \in Batches /\ ~Suppressed(b)
      /\ HasReservation(h) /\ b \in stored
  BY ConstantsAssumption
  DEF Complete, At, IngestSteps, IInv, ServesBody, HandlersKnow, KnowsAt
<1>2. /\ UNCHANGED <<stored, suppressions>>
      /\ acked' \in {acked, acked \cup {b}}
  BY DEF Complete
<1>3. ledger \in [Batches -> LedgerRow \cup {NoRow}] /\ Times \subseteq Nat
  BY ConstantsAssumption DEF IInv, TypeOK
<1>4. PICK at \in Nat : ledger' = [ledger EXCEPT ![n] = Row("completed", b, at)]
  <2>1. PICK now \in Times :
          ledger' = [ledger EXCEPT ![n] =
                       Replace(ledger[n], Row("completed", b, CompletedAt(now, seen[h].at)))]
    BY DEF Complete
  <2>2. ledger[n].at \in Nat /\ seen[h] = ledger[n]
    BY <1>1, <1>3 DEF HasReservation, LedgerRow, NoRow, Present
  <2>3. CompletedAt(now, seen[h].at) \in Nat /\ CompletedAt(now, seen[h].at) >= ledger[n].at
    BY <1>3, <2>2 DEF CompletedAt
  <2>4. ledger' = [ledger EXCEPT ![n] = Row("completed", b, CompletedAt(now, seen[h].at))]
    BY <2>1, <2>3 DEF Replace, Row
  <2> QED BY <2>3, <2>4
<1>5. ClaimMap' = ClaimMap
  BY <1>1, <1>3, <1>4 DEF ClaimMap, Present, Row, HasReservation
<1>6. DoneMap' = DoneMap \cup {n}
  BY <1>1, <1>3, <1>4 DEF DoneMap, Row
<1>7. ClaimMap[n] = b
  BY <1>1, ClaimOf DEF HasReservation, Present, Row
<1>8. Promise!Finish(b)
  BY <1>1, <1>2, <1>5, <1>6, <1>7, SameMaps DEF Promise!Finish, MutedMap
<1> QED BY <1>1, <1>8 DEF Promise!Next

LEMMA RecordRequestMaps ==
  ASSUME NEW h \in Handlers, RecordRequest(h)
  PROVE  [Promise!Next]_(Promise!vars)
<1>1. UNCHANGED <<ledger, stored, acked>> /\ suppressions \subseteq suppressions'
  BY DEF RecordRequest
<1>2. Promise!Mute
  BY <1>1, SameMaps DEF Promise!Mute, MutedMap, Suppressed
<1> QED BY <1>2 DEF Promise!Next

LEMMA EraseTableMaps ==
  ASSUME SingleProcess, IInv, NEW p \in PrivacyBodies, EraseTable(p)
  PROVE  [Promise!Next]_(Promise!vars)
<1>1. UNCHANGED <<suppressions, acked>> /\ Covered(p) \subseteq MutedMap
  BY DEF EraseTable, MutedMap, Covered, Suppressed
<1>2. erased[p] \in 0..2 /\ ledger \in [Batches -> LedgerRow \cup {NoRow}]
  BY DEF EraseTable, IInv, TypeOK
<1>3. CASE erased[p] = 0
  <2>1. ledger' = ledger /\ stored' = stored \ Covered(p)
    BY <1>3 DEF EraseTable
  <2>2. Promise!EraseEvents
    BY <1>1, <2>1, SameMaps DEF Promise!EraseEvents
  <2> QED BY <2>2 DEF Promise!Next
<1>4. CASE erased[p] = 1
  BY <1>1, <1>4, InvisibleStep DEF EraseTable, Visible
<1>5. CASE erased[p] = 2
  <2>1. stored' = stored /\ Covered(p) \cap stored = {}
    BY <1>5 DEF EraseTable, IInv, ErasedSoFar
  <2>2. ledger' = [n \in Batches |-> IF Present(ledger[n]) /\ ledger[n].body \in Covered(p)
                                     THEN NoRow ELSE ledger[n]]
    BY <1>5 DEF EraseTable
  <2> DEFINE gone == {n \in Batches : ClaimMap'[n] # ClaimMap[n]}
  <2>3. ClaimMap' = [n \in Batches |-> IF Present(ledger[n]) /\ ledger[n].body \in Covered(p)
                                       THEN NoBody ELSE ClaimMap[n]]
    BY <2>2 DEF ClaimMap, Present, NoRow
  <2>4. NoBody \notin Bodies /\ Covered(p) \subseteq Bodies
    BY ConstantsAssumption DEF Covered
  <2>5. gone = {n \in Batches : Present(ledger[n]) /\ ledger[n].body \in Covered(p)}
    BY <2>3, <2>4, ClaimOf
  <2>6. \A n \in gone : ClaimMap[n] \in MutedMap \ stored /\ ClaimMap'[n] = NoBody
    BY <1>1, <2>1, <2>3, <2>5, ClaimOf
  <2>7. ClaimMap' \in [Batches -> Bodies \cup {NoBody}]
    BY <1>2, <2>3 DEF ClaimMap, LedgerRow, NoRow, Present
  <2>8. DoneMap' = DoneMap \ gone
    BY <2>2, <2>5 DEF DoneMap, NoRow, Present
  <2>9. Promise!EraseClaims
    BY <1>1, <2>1, <2>6, <2>7, <2>8, SameMaps DEF Promise!EraseClaims
  <2> QED BY <2>9 DEF Promise!Next
<1> QED BY <1>2, <1>3, <1>4, <1>5

\* Every step of the store is a step of the promise, or invisible to it.
LEMMA StepMaps ==
  ASSUME SingleProcess, IInv, [Next]_vars
  PROVE  [Promise!Next]_(Promise!vars)
<1>1. CASE UNCHANGED vars
  BY <1>1, InvisibleStep DEF vars, Visible
<1>2. ASSUME NEW h \in Handlers,
             \/ \E x \in Bodies \cup PrivacyBodies : Begin(h, x)
             \/ Lock(h) \/ Fail(h) \/ ReadRequest(h)
             \/ CheckSuppression(h) \/ LookupRecords(h) \/ RegisterRecords(h)
      PROVE  UNCHANGED Visible
  BY <1>2 DEF Begin, Lock, Fail, ReadRequest, CheckSuppression, LookupRecords,
     RegisterRecords, tables, Visible
<1>3. ASSUME NEW h \in Handlers,
             \/ ReadLedger(h) \/ Reserve(h) \/ InsertRows(h) \/ Complete(h)
             \/ RecordRequest(h)
      PROVE  [Promise!Next]_(Promise!vars)
  BY <1>3, ReadLedgerMaps, ReserveMaps, InsertRowsMaps, CompleteMaps, RecordRequestMaps
<1>4. ASSUME NEW p \in Procs, Crash(p)
      PROVE  UNCHANGED Visible
  BY <1>4 DEF Crash, tables, Visible
<1>5. ASSUME NEW p \in PrivacyBodies, EraseTable(p)
      PROVE  [Promise!Next]_(Promise!vars)
  BY <1>5, EraseTableMaps
<1> QED BY <1>1, <1>2, <1>3, <1>4, <1>5, InvisibleStep
        DEF Next, InsertV2, CreatePrivacyRequest

\* The store keeps its promise, for any number of handlers, bodies, batches and
\* suppressions.
THEOREM StoreKeepsPromise ==
  ASSUME SingleProcess
  PROVE  Spec => KeepsIngestPromise
<1>1. Init => Promise!Init
  BY InitMaps
<1>2. IInv /\ [Next]_vars => [Promise!Next]_(Promise!vars)
  BY StepMaps
<1> QED BY <1>1, <1>2, Invariance, PTL DEF Spec, KeepsIngestPromise, Promise!Spec

-----------------------------------------------------------------------------
(* ErasurePromise                                                          *)

\* What the promise sees of the store's deletions.
ErasureSees == <<ledger, stored, registered, suppressions, erased>>

LEMMA ErasureInvisible ==
  ASSUME UNCHANGED ErasureSees
  PROVE  UNCHANGED Erasure!vars
BY DEF ErasureSees, Erasure!vars, HeldMap, Claimed, ReportedMap

LEMMA ErasureInit ==
  ASSUME Init
  PROVE  Erasure!Init
BY DEF Init, Erasure!Init, HeldMap, Claimed, ReportedMap, Present, NoRow

\* The tables in front of the one a deletion is at are clear of its scope.
LEMMA ClearedTables ==
  ASSUME NEW p \in PrivacyBodies
  PROVE  /\ Erasure!ClearUpTo(p, 0)
         /\ Covered(p) \cap stored = {} => Erasure!ClearUpTo(p, 1)
         /\ Covered(p) \cap stored = {} /\ Covered(p) \cap registered = {}
              => Erasure!ClearUpTo(p, 2)
         /\ Covered(p) \cap stored = {} /\ Covered(p) \cap registered = {}
            /\ Covered(p) \cap Claimed = {}
              => Erasure!ClearUpTo(p, 3)
BY DEF Erasure!ClearUpTo, TableOrder, HeldMap

\* A row inserted for an unsuppressed body is an addition to its table.
LEMMA AdditionMaps ==
  ASSUME NEW b \in Bodies, ~Suppressed(b), UNCHANGED <<suppressions, erased>>,
         NEW t \in {"stream", "registry", "ledger"},
         stored' = IF t = "stream" THEN stored \cup {b} ELSE stored,
         registered' = IF t = "registry" THEN registered \cup {b} ELSE registered,
         Claimed' = IF t = "ledger" THEN Claimed \cup {b} ELSE Claimed,
         suppressions \subseteq PrivacyBodies
  PROVE  [Erasure!Next]_(Erasure!vars)
<1>1. \A r \in suppressions : b \notin [p \in PrivacyBodies |-> Covered(p)][r]
  BY DEF Suppressed
<1>2. HeldMap' = [HeldMap EXCEPT ![t] = @ \cup {b}]
  BY DEF HeldMap
<1>3. ReportedMap' = ReportedMap
  BY DEF ReportedMap
<1>4. Erasure!Add(t, b)
  BY <1>1, <1>2, <1>3 DEF Erasure!Add
<1> QED BY <1>4 DEF Erasure!Next

LEMMA ReserveErasure ==
  ASSUME SingleProcess, IInv, NEW h \in Handlers, Reserve(h)
  PROVE  [Erasure!Next]_(Erasure!vars)
<1> DEFINE b == arg[h]
           n == BatchOf[b]
<1>1. b \in Bodies /\ n \in Batches /\ ~Suppressed(b) /\ ~Present(ledger[n])
  BY ConstantsAssumption
  DEF Reserve, At, IngestSteps, IInv, ServesBody, HandlersKnow, KnowsAt
<1>2. PICK now \in Times : ledger' = [ledger EXCEPT ![n] = Row("reserved", b, now)]
  BY <1>1 DEF Reserve, Replace
<1>3. ledger \in [Batches -> LedgerRow \cup {NoRow}] /\ suppressions \subseteq PrivacyBodies
  BY DEF IInv, TypeOK
<1>4. Claimed' = Claimed \cup {b}
  BY <1>1, <1>2, <1>3 DEF Claimed, Present, Row
<1> QED BY <1>1, <1>3, <1>4, AdditionMaps DEF Reserve, around

LEMMA RegisterRecordsErasure ==
  ASSUME SingleProcess, IInv, NEW h \in Handlers, RegisterRecords(h)
  PROVE  [Erasure!Next]_(Erasure!vars)
<1> DEFINE b == arg[h]
<1>1. b \in Bodies /\ ~Suppressed(b) /\ suppressions \subseteq PrivacyBodies
  BY DEF RegisterRecords, At, IngestSteps, IInv, TypeOK, ServesBody, HandlersKnow, KnowsAt
<1>2. Claimed' = Claimed
  BY DEF RegisterRecords, Claimed
<1> QED BY <1>1, <1>2, AdditionMaps DEF RegisterRecords, around

LEMMA InsertRowsErasure ==
  ASSUME SingleProcess, IInv, NEW h \in Handlers, InsertRows(h)
  PROVE  [Erasure!Next]_(Erasure!vars)
<1> DEFINE b == arg[h]
<1>1. b \in Bodies /\ ~Suppressed(b) /\ suppressions \subseteq PrivacyBodies
  BY DEF InsertRows, At, IngestSteps, IInv, TypeOK, ServesBody, HandlersKnow, KnowsAt
<1>2. Claimed' = Claimed
  BY DEF InsertRows, Claimed
<1> QED BY <1>1, <1>2, AdditionMaps DEF InsertRows, around

\* The completed row claims the batch for the body that had reserved it.
LEMMA CompleteErasure ==
  ASSUME SingleProcess, IInv, NEW h \in Handlers, Complete(h)
  PROVE  UNCHANGED Erasure!vars
<1> DEFINE b == arg[h]
           n == BatchOf[b]
<1>1. b \in Bodies /\ n \in Batches /\ HasReservation(h)
  BY ConstantsAssumption
  DEF Complete, At, IngestSteps, IInv, ServesBody, HandlersKnow, KnowsAt
<1>2. ledger \in [Batches -> LedgerRow \cup {NoRow}]
  BY DEF IInv, TypeOK
<1>3. ledger[n].body = b /\ Present(ledger[n])
  BY <1>1 DEF HasReservation, Row
<1>4. PICK at : ledger' = [ledger EXCEPT ![n] = Row("completed", b, at)] \/ ledger' = ledger
  BY <1>1, <1>2 DEF Complete, Replace
<1>5. \A m \in Batches : /\ Present(ledger'[m]) <=> Present(ledger[m])
                         /\ Present(ledger[m]) => ledger'[m].body = ledger[m].body
  BY <1>1, <1>2, <1>3, <1>4 DEF Row, Present
<1>6. Claimed' = Claimed
  BY <1>5 DEF Claimed
<1> QED BY <1>6 DEF Complete, around, Erasure!vars, HeldMap, ReportedMap

LEMMA RecordRequestErasure ==
  ASSUME SingleProcess, IInv, NEW h \in Handlers, RecordRequest(h)
  PROVE  [Erasure!Next]_(Erasure!vars)
<1>1. arg[h] \in PrivacyBodies
  BY DEF RecordRequest, At, PrivacySteps, IInv, ServesBody
<1>2. Erasure!Record(arg[h])
  BY DEF RecordRequest, around, Erasure!Record, HeldMap, Claimed, ReportedMap
<1> QED BY <1>1, <1>2 DEF Erasure!Next

\* The deletion clears the next of its tables, those in front of it being clear.
LEMMA EraseTableErasure ==
  ASSUME SingleProcess, IInv, IInv', NEW p \in PrivacyBodies, EraseTable(p)
  PROVE  [Erasure!Next]_(Erasure!vars)
<1> DEFINE k == erased[p] + 1
           t == TableOrder[k]
<1>1. erased[p] \in 0..2 /\ erased \in [PrivacyBodies -> 0..3]
  BY DEF EraseTable, IInv, TypeOK
<1>2. k \in DOMAIN TableOrder /\ t \in {"stream", "registry", "ledger"}
  BY <1>1 DEF TableOrder
<1>3. Erasure!ClearUpTo(p, k - 1)
  BY <1>1, ClearedTables DEF IInv, ErasedSoFar
<1>4. HeldMap' = [HeldMap EXCEPT ![t] = @ \ Covered(p)]
  <2>1. CASE erased[p] = 0
    <3>1. /\ t = "stream" /\ stored' = stored \ Covered(p)
          /\ registered' = registered /\ Claimed' = Claimed
      BY <2>1 DEF EraseTable, Claimed, TableOrder
    <3> QED BY <3>1 DEF HeldMap
  <2>2. CASE erased[p] = 1
    <3>1. /\ t = "registry" /\ registered' = registered \ Covered(p)
          /\ stored' = stored /\ Claimed' = Claimed
      BY <2>2 DEF EraseTable, Claimed, TableOrder
    <3> QED BY <3>1 DEF HeldMap
  <2>3. CASE erased[p] = 2
    <3>1. /\ stored' = stored /\ registered' = registered
          /\ ledger' = [n \in Batches |-> IF Present(ledger[n]) /\ ledger[n].body \in Covered(p)
                                          THEN NoRow ELSE ledger[n]]
      BY <2>3 DEF EraseTable
    <3>2. Claimed' = Claimed \ Covered(p)
      BY <3>1 DEF Claimed, Present, NoRow
    <3>3. t = "ledger"
      BY <2>3 DEF TableOrder
    <3>4. stored' = stored /\ registered' = registered
      BY <3>1
    <3> HIDE DEF t
    <3> QED BY <3>2, <3>3, <3>4 DEF HeldMap
  <2> QED BY <1>1, <2>1, <2>2, <2>3
<1>5. /\ ReportedMap' \in {ReportedMap, ReportedMap \cup {p}}
      /\ p \in ReportedMap' => erased'[p] = 3
  BY <1>1 DEF EraseTable, ReportedMap
<1>6. p \in ReportedMap' => Erasure!ClearUpTo(p, 3)'
  <2>1. ASSUME erased'[p] = 3
        PROVE  (Covered(p) \cap stored)' = {} /\ (Covered(p) \cap registered)' = {}
               /\ (Covered(p) \cap Claimed)' = {}
    BY <2>1 DEF IInv, ErasedSoFar, Claimed
  <2>2. erased'[p] = 3 => Erasure!ClearUpTo(p, 3)'
    BY <2>1 DEF Erasure!ClearUpTo, TableOrder, HeldMap
  <2> QED BY <1>5, <2>2
<1>7. p \in suppressions /\ ActionOf[p] # "opt_out" /\ suppressions' = suppressions
  BY DEF EraseTable
<1>8. Erasure!Clear(p)
  BY <1>2, <1>3, <1>4, <1>5, <1>6, <1>7 DEF Erasure!Clear, TableOrder
<1> QED BY <1>8 DEF Erasure!Next

LEMMA ErasureStep ==
  ASSUME SingleProcess, IInv, IInv', [Next]_vars
  PROVE  [Erasure!Next]_(Erasure!vars)
<1>1. CASE UNCHANGED vars
  BY <1>1, ErasureInvisible DEF vars, tables, around, ErasureSees
<1>2. ASSUME NEW h \in Handlers,
             \/ \E x \in Bodies \cup PrivacyBodies : Begin(h, x)
             \/ Lock(h) \/ Fail(h) \/ ReadRequest(h)
             \/ ReadLedger(h) \/ CheckSuppression(h) \/ LookupRecords(h)
      PROVE  UNCHANGED ErasureSees
  BY <1>2 DEF Begin, Lock, Fail, ReadRequest, ReadLedger, CheckSuppression,
     LookupRecords, tables, around, ErasureSees
<1>3. ASSUME NEW h \in Handlers,
             \/ Reserve(h) \/ RegisterRecords(h) \/ InsertRows(h) \/ Complete(h)
             \/ RecordRequest(h)
      PROVE  [Erasure!Next]_(Erasure!vars)
  BY <1>3, ReserveErasure, RegisterRecordsErasure, InsertRowsErasure, CompleteErasure,
     RecordRequestErasure
<1>4. ASSUME NEW p \in Procs, Crash(p)
      PROVE  UNCHANGED ErasureSees
  BY <1>4 DEF Crash, tables, around, ErasureSees
<1>5. ASSUME NEW p \in PrivacyBodies, EraseTable(p)
      PROVE  [Erasure!Next]_(Erasure!vars)
  BY <1>5, EraseTableErasure
<1> QED BY <1>1, <1>2, <1>3, <1>4, <1>5, ErasureInvisible
        DEF Next, InsertV2, CreatePrivacyRequest

\* No handler adds to the scope of a recorded deletion, and deletions clear their
\* tables in order: what the privacy worker assumes of the store, for any number of
\* handlers, bodies and requests.
THEOREM StoreKeepsErasurePromise ==
  ASSUME SingleProcess
  PROVE  Spec => KeepsErasurePromise
<1>1. Init => Erasure!Init
  BY ErasureInit
<1>2. IInv /\ IInv' /\ [Next]_vars => [Erasure!Next]_(Erasure!vars)
  BY ErasureStep
<1> QED BY <1>1, <1>2, Invariance, PTL DEF Spec, KeepsErasurePromise, Erasure!Spec
=============================================================================
