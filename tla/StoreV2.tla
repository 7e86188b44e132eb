------------------------------- MODULE StoreV2 -------------------------------
(***************************************************************************)
(* The writer's V2 ClickHouse store: InsertV2 and CreatePrivacyRequest of  *)
(* internal/clickhouse, executed by concurrent request handlers.           *)
(*                                                                         *)
(* ClickHouse gives neither transactions over several tables nor unique    *)
(* constraints, so every promise of the store rests on the order of its    *)
(* statements, on the mutex v2Mu (one per PROCESS) and on the versions of  *)
(* ReplacingMergeTree rows.  Each action below is one round trip to        *)
(* ClickHouse; a statement may fail without effect, fail after having been *)
(* applied, or be cut short by a crash of the process.                     *)
(*                                                                         *)
(* Data abstraction.  A body is one exact request body, so comparing       *)
(* SHA-256 digests is comparing bodies.  One product: every query of the   *)
(* store carries an equality on the product.  A multi-row INSERT lands in  *)
(* one block, so a table is the set of bodies whose rows it holds, and the *)
(* five stream tables, which differ only in their columns, are one set.    *)
(***************************************************************************)
EXTENDS Integers, FiniteSets

CONSTANTS
  Handlers,       \* goroutines that serve requests (and the importer's loop)
  Procs,          \* operating-system processes that open the store
  Writer,         \* the process of cmd/writer; the only one with a privacy API
  ProcOf,         \* [Handlers -> Procs]
  Bodies,         \* ingest bodies that passed ParseBatch
  BatchOf,        \* [Bodies -> Batches], the header's batch_id
  Batches,
  RecordsOf,      \* [Bodies -> SUBSET of record ids]
  ScopeOf,        \* [Bodies -> scopes]
  PrivacyBodies,  \* privacy bodies that passed ParsePrivacyRequest
  RequestOf,      \* [PrivacyBodies -> request ids]
  PrivacyScopeOf, \* [PrivacyBodies -> scopes]
  ActionOf,       \* [PrivacyBodies -> {"opt_out", "delete"}]
  Times,          \* values the wall clock may show, in no particular order
  NoKey,          \* an absent person_key or org_key
  NoBody,         \* the argument of an idle handler
  Nobody          \* the holder of a free mutex

ASSUME ConstantsAssumption ==
  /\ Writer \in Procs
  /\ ProcOf \in [Handlers -> Procs]
  /\ BatchOf \in [Bodies -> Batches]
  /\ Bodies \cap PrivacyBodies = {}
  /\ NoBody \notin Bodies \cup PrivacyBodies
  /\ Nobody \notin Handlers
  /\ ActionOf \in [PrivacyBodies -> {"opt_out", "delete"}]
  /\ Times \subseteq Nat

ASSUME RecordsAssumption == \A b \in Bodies : RecordsOf[b] # {}

VARIABLES
  ledger,       \* ingest_batches_v2 as FINAL shows it, by batch id
  registered,   \* record_registry_v2: bodies whose record ids are registered
  stored,       \* the stream tables: bodies whose event rows are present
  suppressions, \* privacy_suppressions_v2: requests recorded, all active
  erased,       \* how many tables the privacy worker finished, per request
  v2Mu,         \* holder of each process's Store.v2Mu
  pc,           \* next statement of each handler
  arg,          \* the body each handler serves
  seen,         \* the ledger row each handler works with (locals of InsertV2)
  outage,       \* statements may fail and processes may crash
  acked         \* history: ingest bodies answered 202

tables == <<ledger, registered, stored, suppressions>>
around == <<erased, outage>>
locals == <<v2Mu, pc, arg, seen>>
vars == <<ledger, registered, stored, suppressions, erased,
          v2Mu, pc, arg, seen, outage, acked>>

-----------------------------------------------------------------------------
(* Rows                                                                    *)

NoRow == [status |-> "absent"]
LedgerRow == [status : {"reserved", "completed"}, body : Bodies, at : Nat]

Row(status, b, at) == [status |-> status, body |-> b, at |-> at]
Present(row) == row.status # "absent"

\* ReplacingMergeTree(ingested_at) read with FINAL: the highest version of a
\* key survives, and among equal versions the one inserted last.
Replace(old, new) ==
  IF ~Present(old) \/ new.at >= old.at THEN new ELSE old

-----------------------------------------------------------------------------
(* Suppression                                                             *)

\* The WHERE clause shared by isSuppressed and the deletion mutations.
Covers(p, b) ==
  LET d == PrivacyScopeOf[p]
      s == ScopeOf[b]
  IN  \/ s.subject = d.subject
      \/ s.person # NoKey /\ s.person = d.person
      \/ s.org # NoKey /\ s.org = d.org

Covered(p) == {b \in Bodies : Covers(p, b)}

Suppressed(b) == \E p \in suppressions : b \in Covered(p)

\* Some deletion, finished or not, has been requested for the body's scope.
DeleteRequested(b) ==
  \E p \in suppressions : ActionOf[p] = "delete" /\ b \in Covered(p)

-----------------------------------------------------------------------------
(* Handlers                                                                *)

Waiting == {"idle", "lock"}
IngestSteps == {"ledger", "suppression", "reserve", "lookup",
                "register", "insert", "complete"}
PrivacySteps == {"request", "record"}
Steps == IngestSteps \cup PrivacySteps

Idle(h) ==
  /\ pc' = [pc EXCEPT ![h] = "idle"]
  /\ arg' = [arg EXCEPT ![h] = NoBody]
  /\ seen' = [seen EXCEPT ![h] = NoRow]

\* The handler returns: the deferred Unlock runs and the caller gets its reply.
Answer(h) ==
  /\ Idle(h)
  /\ v2Mu' = [v2Mu EXCEPT ![ProcOf[h]] = Nobody]

Goto(h, step) ==
  /\ pc' = [pc EXCEPT ![h] = step]
  /\ UNCHANGED <<v2Mu, arg>>

\* A statement that takes effect; its success is seen, or the handler gets an
\* error all the same (connection lost, context cancelled) and gives up.
Then(h, step) ==
  \/ Goto(h, step) /\ UNCHANGED seen
  \/ outage /\ Answer(h)

At(h, step) == pc[h] = step

\* Any body may be sent at any time, again and again: first tries, retries of
\* the same body, reuse of a batch id or of a record id by another body.
Begin(h, x) ==
  /\ At(h, "idle")
  /\ x \in PrivacyBodies => ProcOf[h] = Writer
  /\ pc' = [pc EXCEPT ![h] = "lock"]
  /\ arg' = [arg EXCEPT ![h] = x]
  /\ UNCHANGED <<tables, around, v2Mu, seen, acked>>

\* Fault: CreatePrivacyRequest does not take v2Mu.
LockIngestOnly(h) ==
  /\ At(h, "lock")
  /\ arg[h] \in Bodies => v2Mu[ProcOf[h]] = Nobody
  /\ v2Mu' = IF arg[h] \in Bodies THEN [v2Mu EXCEPT ![ProcOf[h]] = h] ELSE v2Mu
  /\ pc' = [pc EXCEPT ![h] = IF arg[h] \in Bodies THEN "ledger" ELSE "request"]
  /\ UNCHANGED <<tables, around, arg, seen, acked>>

Lock(h) ==
  /\ At(h, "lock")
  /\ v2Mu[ProcOf[h]] = Nobody
  /\ v2Mu' = [v2Mu EXCEPT ![ProcOf[h]] = h]
  /\ pc' = [pc EXCEPT ![h] = IF arg[h] \in Bodies THEN "ledger" ELSE "request"]
  /\ UNCHANGED <<tables, around, arg, seen, acked>>

\* Any statement may fail without effect; the handler answers an error.
Fail(h) ==
  /\ outage
  /\ pc[h] \in Steps
  /\ Answer(h)
  /\ UNCHANGED <<tables, around, acked>>

-----------------------------------------------------------------------------
(* InsertV2                                                                *)

\* Fault: the digest of the stored body is not compared.
ReadLedgerByBatchOnly(h) ==
  LET row == ledger[BatchOf[arg[h]]]
      done == row.status = "completed"
  IN  /\ At(h, "ledger")
      /\ \/ done /\ Answer(h)
         \/ ~done /\ Goto(h, "suppression") /\ seen' = [seen EXCEPT ![h] = row]
      /\ UNCHANGED <<tables, around, acked>>

\* Fault: any row of this body is taken for a completed one.
ReadLedgerReplayingReserved(h) ==
  LET row == ledger[BatchOf[arg[h]]]
      mine == Present(row) /\ row.body = arg[h]
  IN  /\ At(h, "ledger")
      /\ \/ /\ Present(row) /\ Answer(h)
            /\ acked' = IF mine THEN acked \cup {arg[h]} ELSE acked
         \/ /\ ~Present(row) /\ Goto(h, "suppression")
            /\ UNCHANGED <<seen, acked>>
      /\ UNCHANGED <<tables, around>>

\* SELECT from ingest_batches_v2 FINAL: another body is a conflict, a completed
\* row of this body is a replay, anything else goes on.
ReadLedger(h) ==
  LET row == ledger[BatchOf[arg[h]]]
      other == Present(row) /\ row.body # arg[h]
      done == ~other /\ row.status = "completed"
  IN  /\ At(h, "ledger")
      /\ \/ /\ other \/ done
            /\ Answer(h)
            /\ acked' = IF done THEN acked \cup {arg[h]} ELSE acked
         \/ /\ ~other /\ ~done
            /\ Goto(h, "suppression")
            /\ seen' = [seen EXCEPT ![h] = row]
            /\ UNCHANGED acked
      /\ UNCHANGED <<tables, around>>

\* Fault: a resumed reservation skips the suppression check.
CheckSuppressionOfNewBatches(h) ==
  /\ At(h, "suppression")
  /\ \/ ~Present(seen[h]) /\ Suppressed(arg[h]) /\ Answer(h)
     \/ /\ Present(seen[h]) \/ ~Suppressed(arg[h])
        /\ Goto(h, IF Present(seen[h]) THEN "lookup" ELSE "reserve")
        /\ UNCHANGED seen
  /\ UNCHANGED <<tables, around, acked>>

\* isSuppressed.
CheckSuppression(h) ==
  /\ At(h, "suppression")
  /\ \/ Suppressed(arg[h]) /\ Answer(h)
     \/ /\ ~Suppressed(arg[h])
        /\ Goto(h, IF Present(seen[h]) THEN "lookup" ELSE "reserve")
        /\ UNCHANGED seen
  /\ UNCHANGED <<tables, around, acked>>

\* A new batch: reserve its id at the current time.
Reserve(h) ==
  /\ At(h, "reserve")
  /\ \E now \in Times :
       LET n == BatchOf[arg[h]]
           row == Row("reserved", arg[h], now)
       IN  /\ ledger' = [ledger EXCEPT ![n] = Replace(@, row)]
           /\ \/ Goto(h, "lookup") /\ seen' = [seen EXCEPT ![h] = row]
              \/ outage /\ Answer(h)
  /\ UNCHANGED <<registered, stored, suppressions, around, acked>>

\* registerRecordsV2, first half: a record id registered by any other body
\* rejects this one; its reservation stays behind.
RegistryClash(b) ==
  \E c \in registered \ {b} : RecordsOf[c] \cap RecordsOf[b] # {}

\* Fault: records are registered without looking them up.
LookupNothing(h) ==
  /\ At(h, "lookup")
  /\ Goto(h, "register")
  /\ UNCHANGED <<tables, around, seen, acked>>

LookupRecords(h) ==
  /\ At(h, "lookup")
  /\ \/ RegistryClash(arg[h]) /\ Answer(h)
     \/ ~RegistryClash(arg[h]) /\ Goto(h, "register") /\ UNCHANGED seen
  /\ UNCHANGED <<tables, around, acked>>

\* Fault: the ledger is completed before the event rows are inserted.
RegisterThenComplete(h) ==
  /\ At(h, "register")
  /\ registered' = registered \cup {arg[h]}
  /\ Then(h, "complete")
  /\ UNCHANGED <<ledger, stored, suppressions, around, acked>>

\* registerRecordsV2, second half.
RegisterRecords(h) ==
  /\ At(h, "register")
  /\ registered' = registered \cup {arg[h]}
  /\ Then(h, "insert")
  /\ UNCHANGED <<ledger, stored, suppressions, around, acked>>

\* insertCommonV2 .. insertOutcomeV2: the event rows of the body's stream.
InsertRows(h) ==
  /\ At(h, "insert")
  /\ stored' = stored \cup {arg[h]}
  /\ Then(h, "complete")
  /\ UNCHANGED <<ledger, registered, suppressions, around, acked>>

\* Fault: the completed row gets the bare clock.
CompletedAtNow(now, ingestedAt) == now

\* The completed row's version: the clock, pushed past the reservation.
CompletedAt(now, ingestedAt) == IF now > ingestedAt THEN now ELSE ingestedAt + 1

Complete(h) ==
  /\ At(h, "complete")
  /\ \E now \in Times :
       LET b == arg[h]
           row == Row("completed", b, CompletedAt(now, seen[h].at))
       IN  ledger' = [ledger EXCEPT ![BatchOf[b]] = Replace(@, row)]
  /\ \/ acked' = acked \cup {arg[h]}
     \/ outage /\ UNCHANGED acked
  /\ Answer(h)
  /\ UNCHANGED <<registered, stored, suppressions, around>>

-----------------------------------------------------------------------------
(* CreatePrivacyRequest                                                    *)

\* A request id already recorded is a replay or a conflict; neither writes.
ReadRequest(h) ==
  /\ At(h, "request")
  /\ IF \E q \in suppressions : RequestOf[q] = RequestOf[arg[h]]
     THEN Answer(h)
     ELSE Goto(h, "record") /\ UNCHANGED seen
  /\ UNCHANGED <<tables, around, acked>>

RecordRequest(h) ==
  /\ At(h, "record")
  /\ suppressions' = suppressions \cup {arg[h]}
  /\ Answer(h)
  /\ UNCHANGED <<ledger, registered, stored, around, acked>>

-----------------------------------------------------------------------------
(* The world around the handlers                                           *)

\* A process dies between any two statements; its memory goes with it.
Crash(p) ==
  LET dead == {h \in Handlers : ProcOf[h] = p}
  IN  /\ outage
      /\ v2Mu[p] # Nobody
      /\ v2Mu' = [v2Mu EXCEPT ![p] = Nobody]
      /\ pc' = [h \in Handlers |-> IF h \in dead THEN "idle" ELSE pc[h]]
      /\ arg' = [h \in Handlers |-> IF h \in dead THEN NoBody ELSE arg[h]]
      /\ seen' = [h \in Handlers |-> IF h \in dead THEN NoRow ELSE seen[h]]
      /\ UNCHANGED <<tables, around, acked>>

\* Fault: the ledger before the stream tables.
EraseLedgerFirst(p) ==
  LET finished == erased[p]
      mine == Covered(p)
  IN  /\ p \in suppressions /\ ActionOf[p] = "delete"
      /\ finished < 3
      /\ stored' = IF finished = 1 THEN stored \ mine ELSE stored
      /\ registered' = IF finished = 2 THEN registered \ mine ELSE registered
      /\ ledger' = IF finished = 0
                   THEN [n \in Batches |-> IF Present(ledger[n]) /\ ledger[n].body \in mine
                                           THEN NoRow ELSE ledger[n]]
                   ELSE ledger
      /\ erased' \in {erased, [erased EXCEPT ![p] = finished + 1]}
      /\ UNCHANGED <<suppressions, locals, outage, acked>>

\* The privacy worker's mutations, in the order of DeleteTelemetryRequest: the
\* stream tables, the registry, the ledger.  A mutation may be repeated before
\* its table is marked finished.
EraseTable(p) ==
  LET finished == erased[p]
      mine == Covered(p)
  IN  /\ p \in suppressions /\ ActionOf[p] = "delete"
      /\ finished < 3
      /\ stored' = IF finished = 0 THEN stored \ mine ELSE stored
      /\ registered' = IF finished = 1 THEN registered \ mine ELSE registered
      /\ ledger' = IF finished = 2
                   THEN [n \in Batches |-> IF Present(ledger[n]) /\ ledger[n].body \in mine
                                           THEN NoRow ELSE ledger[n]]
                   ELSE ledger
      /\ erased' \in {erased, [erased EXCEPT ![p] = finished + 1]}
      /\ UNCHANGED <<suppressions, locals, outage, acked>>

-----------------------------------------------------------------------------
Init ==
  /\ ledger = [n \in Batches |-> NoRow]
  /\ registered = {}
  /\ stored = {}
  /\ suppressions = {}
  /\ erased = [p \in PrivacyBodies |-> 0]
  /\ v2Mu = [p \in Procs |-> Nobody]
  /\ pc = [h \in Handlers |-> "idle"]
  /\ arg = [h \in Handlers |-> NoBody]
  /\ seen = [h \in Handlers |-> NoRow]
  /\ outage = TRUE
  /\ acked = {}

InsertV2(h) ==
  \/ ReadLedger(h) \/ CheckSuppression(h) \/ Reserve(h) \/ LookupRecords(h)
  \/ RegisterRecords(h) \/ InsertRows(h) \/ Complete(h)

CreatePrivacyRequest(h) == ReadRequest(h) \/ RecordRequest(h)

Next ==
  \/ \E h \in Handlers :
       \/ \E x \in Bodies \cup PrivacyBodies : Begin(h, x)
       \/ Lock(h) \/ InsertV2(h) \/ CreatePrivacyRequest(h) \/ Fail(h)
  \/ \E p \in Procs : Crash(p)
  \/ \E p \in PrivacyBodies : EraseTable(p)

Spec == Init /\ [][Next]_vars

\* Liveness is claimed from the moment ClickHouse answers and the process stays
\* up.  From then on a handler past its mutex runs on, a goroutine that waits
\* for the mutex is not passed over for ever (sync.Mutex turns to starvation
\* mode), and a client repeats its body.
Recover == outage /\ outage' = FALSE /\ UNCHANGED <<tables, erased, locals, acked>>

Fairness ==
  /\ WF_vars(Recover)
  /\ \A h \in Handlers : /\ SF_vars(Lock(h))
                         /\ WF_vars(InsertV2(h) \/ CreatePrivacyRequest(h))
  /\ \A b \in Bodies : SF_vars(\E h \in Handlers : Begin(h, b))

FairSpec == Init /\ [][Next \/ Recover]_vars /\ Fairness

-----------------------------------------------------------------------------
(* Properties                                                              *)

\* The variables have their types.
TypeOK ==
  /\ ledger \in [Batches -> LedgerRow \cup {NoRow}]
  /\ registered \subseteq Bodies
  /\ stored \subseteq Bodies
  /\ suppressions \subseteq PrivacyBodies
  /\ erased \in [PrivacyBodies -> 0..3]
  /\ v2Mu \in [Procs -> Handlers \cup {Nobody}]
  /\ pc \in [Handlers -> Waiting \cup Steps]
  /\ arg \in [Handlers -> Bodies \cup PrivacyBodies \cup {NoBody}]
  /\ seen \in [Handlers -> LedgerRow \cup {NoRow}]
  /\ outage \in BOOLEAN
  /\ acked \subseteq Bodies

\* Two bodies that carry the same batch id never both have rows in the store,
\* whatever interleaving of handlers, failed statements, crashes, resumed
\* reservations and deletions led there (store_v2.go:20-44).
OneBodyPerBatch ==
  \A a, b \in stored \cup registered : BatchOf[a] = BatchOf[b] => a = b

\* A record id has event rows of one body only: a reader never counts a record
\* twice because two batches carried it (store_v2.go:97-118).
OneBodyPerRecord ==
  \A a, b \in stored : RecordsOf[a] \cap RecordsOf[b] # {} => a = b

\* What a 202 promises.  An acknowledged body is completely stored, its records
\* are registered and its batch reads as completed by it, until a deletion of
\* its scope is requested (store_v2.go:41-77).
AckedIsStored ==
  \A b \in acked :
    \/ DeleteRequested(b)
    \/ /\ b \in stored /\ b \in registered
       /\ ledger[BatchOf[b]].status = "completed"
       /\ ledger[BatchOf[b]].body = b

\* The ledger never claims more than the tables hold: a row that reads completed
\* answers every later retry without writing (store_v2.go:25-27), so its events
\* must all be there.
CompletedIsStored ==
  \A n \in Batches :
    ledger[n].status = "completed" =>
      \/ DeleteRequested(ledger[n].body)
      \/ ledger[n].body \in stored \cap registered

\* Once a deletion has gone through every table, no table shows a row of its
\* scope ever again (store_privacy.go:175-190 against store_v2.go:35-73).
ErasedStaysErased ==
  \A p \in PrivacyBodies :
    erased[p] = 3 =>
      /\ Covered(p) \cap (stored \cup registered) = {}
      /\ \A n \in Batches : Present(ledger[n]) => ledger[n].body \notin Covered(p)

\* From the moment a suppression is recorded, no statement of any handler adds
\* a row of its scope to any table, not even one whose request was already past
\* the suppression check (store_v2.go:35-41, store_privacy.go:55).
NoWriteAfterSuppression ==
  [][/\ \A b \in (stored' \ stored) \cup (registered' \ registered) : ~Suppressed(b)
     /\ \A n \in Batches :
          ledger'[n] # ledger[n] /\ Present(ledger'[n]) => ~Suppressed(ledger'[n].body)]_vars

\* A batch id keeps the body it was reserved for, and a completed row is final:
\* only a deletion removes it (store_v2.go:20-31, 70-76).
LedgerMovesForward ==
  [][\A n \in Batches :
       Present(ledger[n]) /\ ledger'[n] # ledger[n] =>
         \/ ~Present(ledger'[n]) /\ DeleteRequested(ledger[n].body)
         \/ /\ ledger[n].status = "reserved" /\ ledger'[n].status = "completed"
            /\ ledger'[n].body = ledger[n].body]_vars

\* No reservation is stuck for ever: a client that repeats the body gets the
\* batch completed, whatever failed or crashed in between, unless its scope is
\* suppressed or one of its records belongs to another body
\* (docs/telemetry-v2.md:33, store_v2.go:20-77).
ReservationResolved ==
  \A b \in Bodies :
    LET row == ledger[BatchOf[b]]
    IN  (Present(row) /\ row.body = b)
          ~> (row.status = "completed" \/ Suppressed(b) \/ RegistryClash(b))
=============================================================================
