------------------------------- MODULE StoreV1 -------------------------------
(***************************************************************************)
(* The writer's V1 ClickHouse store: Insert and CreateLegacyPrivacyRequest *)
(* of internal/clickhouse, with CreatePrivacyRequest, which shares the     *)
(* request ids and one of the two mutexes, and with the worker's deletion  *)
(* of the two V1 tables.                                                   *)
(*                                                                         *)
(* V1 has no ledger and no registry: a body is two INSERTs in a row, made  *)
(* harmless to repeat by ReplacingMergeTree keys (installation, record     *)
(* id).  A body is one exact request body that passed ParseBatch and whose *)
(* records all belong to the installation of its token; a table is the set *)
(* of bodies whose rows it holds.  A statement may fail without effect or  *)
(* fail after having been applied, and the writer may crash.               *)
(***************************************************************************)
EXTENDS Integers, FiniteSets

CONSTANTS
  Handlers,       \* goroutines of the writer that serve V1 and privacy requests
  Bodies,         \* V1 ingest bodies
  PartsOf,        \* [Bodies -> non-empty subset of Tables], what the body carries
  LegacyBodies,   \* bodies of POST /internal/v1/privacy/requests
  ScopedBodies,   \* bodies of POST /internal/v2/privacy/requests
  InstallationOf, \* [Bodies \cup LegacyBodies -> installations]
  RequestOf,      \* [LegacyBodies \cup ScopedBodies -> request ids]
  NoBody,         \* the argument of an idle handler
  Nobody          \* the holder of a free mutex

Tables == {"events", "session_summaries"}
PrivacyBodies == LegacyBodies \cup ScopedBodies

ASSUME V1Assumption ==
  /\ PartsOf \in [Bodies -> (SUBSET Tables) \ {{}}]
  /\ Bodies \cap PrivacyBodies = {} /\ LegacyBodies \cap ScopedBodies = {}
  /\ NoBody \notin Bodies \cup PrivacyBodies
  /\ Nobody \notin Handlers

VARIABLES
  rows,         \* [Tables -> bodies whose rows the table holds]
  suppressions, \* privacy_suppressions_v2: bodies recorded, all active
  erased,       \* tables the privacy worker finished, per legacy request
  v1Mu, v2Mu,   \* holders of the writer's two mutexes
  pc, arg,      \* next statement of each handler, and the body it serves
  outage,       \* statements may fail and the writer may crash
  acked         \* history: bodies answered 202 as written now or before

vars == <<rows, suppressions, erased, v1Mu, v2Mu, pc, arg, outage, acked>>
tables == <<rows, suppressions>>
mutexes == <<v1Mu, v2Mu>>

-----------------------------------------------------------------------------
Mine(p) == {b \in Bodies : InstallationOf[b] = InstallationOf[p]}

\* v1BatchSuppressed: legacy rows only, whatever their status.
Suppressed(b) ==
  \E p \in suppressions \cap LegacyBodies : b \in Mine(p)

\* The deferred Unlocks run and the caller gets its reply.
Answer(h) ==
  /\ pc' = [pc EXCEPT ![h] = "idle"]
  /\ arg' = [arg EXCEPT ![h] = NoBody]
  /\ v1Mu' = IF v1Mu = h THEN Nobody ELSE v1Mu
  /\ v2Mu' = IF v2Mu = h THEN Nobody ELSE v2Mu

Goto(h, step) == pc' = [pc EXCEPT ![h] = step] /\ UNCHANGED <<arg, mutexes>>

Begin(h, x) ==
  /\ pc[h] = "idle"
  /\ arg' = [arg EXCEPT ![h] = x]
  /\ pc' = [pc EXCEPT ![h] = IF x \in ScopedBodies THEN "v2lock" ELSE "v1lock"]
  /\ UNCHANGED <<tables, erased, mutexes, outage, acked>>

\* Fault: a legacy request does not wait for the inserts in flight.
LockV1ForInserts(h) ==
  /\ pc[h] = "v1lock"
  /\ \/ /\ arg[h] \in Bodies /\ v1Mu = Nobody
        /\ v1Mu' = h /\ pc' = [pc EXCEPT ![h] = "suppression"]
     \/ /\ arg[h] \in LegacyBodies
        /\ pc' = [pc EXCEPT ![h] = "v2lock"] /\ UNCHANGED v1Mu
  /\ UNCHANGED <<tables, erased, v2Mu, arg, outage, acked>>

LockV1(h) ==
  /\ pc[h] = "v1lock" /\ v1Mu = Nobody
  /\ v1Mu' = h
  /\ pc' = [pc EXCEPT ![h] = IF arg[h] \in Bodies THEN "suppression" ELSE "v2lock"]
  /\ UNCHANGED <<tables, erased, v2Mu, arg, outage, acked>>

\* Fault: a legacy request takes v1Mu only.
LockV2ForScoped(h) ==
  /\ pc[h] = "v2lock"
  /\ arg[h] \in ScopedBodies => v2Mu = Nobody
  /\ v2Mu' = IF arg[h] \in ScopedBodies THEN h ELSE v2Mu
  /\ pc' = [pc EXCEPT ![h] = "request"]
  /\ UNCHANGED <<tables, erased, v1Mu, arg, outage, acked>>

LockV2(h) ==
  /\ pc[h] = "v2lock" /\ v2Mu = Nobody
  /\ v2Mu' = h
  /\ pc' = [pc EXCEPT ![h] = "request"]
  /\ UNCHANGED <<tables, erased, v1Mu, arg, outage, acked>>

Fail(h) ==
  /\ outage /\ pc[h] \in {"suppression", "events", "session_summaries", "request", "record"}
  /\ Answer(h)
  /\ UNCHANGED <<tables, erased, outage, acked>>

\* insertEvents, when the body has events, then insertSummaries.
FirstPart(b) == IF "events" \in PartsOf[b] THEN "events" ELSE "session_summaries"

\* Fault: a body whose events are there is taken for a replay.
CheckSuppressionAndEvents(h) ==
  /\ pc[h] = "suppression"
  /\ IF Suppressed(arg[h]) \/ arg[h] \in rows["events"]
     THEN Answer(h) ELSE Goto(h, FirstPart(arg[h]))
  /\ UNCHANGED <<tables, erased, outage, acked>>

CheckSuppression(h) ==
  /\ pc[h] = "suppression"
  /\ IF Suppressed(arg[h]) THEN Answer(h) ELSE Goto(h, FirstPart(arg[h]))
  /\ UNCHANGED <<tables, erased, outage, acked>>

\* Fault: an error of insertSummaries is not returned.
InsertIgnoringFailure(h) ==
  /\ pc[h] \in Tables
  /\ rows' \in {rows, [rows EXCEPT ![pc[h]] = @ \cup {arg[h]}]}
  /\ \/ pc[h] = "events" /\ "session_summaries" \in PartsOf[arg[h]]
        /\ Goto(h, "session_summaries") /\ UNCHANGED acked
     \/ acked' = acked \cup {arg[h]} /\ Answer(h)
  /\ UNCHANGED <<suppressions, erased, outage>>

Insert(h) ==
  LET last == pc[h] = "session_summaries" \/ "session_summaries" \notin PartsOf[arg[h]]
  IN  /\ pc[h] \in Tables
      /\ rows' = [rows EXCEPT ![pc[h]] = @ \cup {arg[h]}]
      /\ \/ ~last /\ Goto(h, "session_summaries") /\ UNCHANGED acked
         \/ last /\ Answer(h) /\ acked' = acked \cup {arg[h]}
         \/ outage /\ Answer(h) /\ UNCHANGED acked
      /\ UNCHANGED <<suppressions, erased, outage>>

\* Both privacy endpoints: a request id already recorded is a replay of the same
\* body or a conflict with another.
ReadRequest(h) ==
  LET taken == {q \in suppressions : RequestOf[q] = RequestOf[arg[h]]}
  IN  /\ pc[h] = "request"
      /\ IF taken = {} THEN Goto(h, "record") ELSE Answer(h)
      /\ acked' = acked \cup (taken \cap {arg[h]})
      /\ UNCHANGED <<tables, erased, outage>>

RecordRequest(h) ==
  /\ pc[h] = "record"
  /\ suppressions' = suppressions \cup {arg[h]}
  /\ \/ acked' = acked \cup {arg[h]}
     \/ outage /\ UNCHANGED acked
  /\ Answer(h)
  /\ UNCHANGED <<rows, erased, outage>>

Crash ==
  /\ outage /\ \E h \in Handlers : pc[h] # "idle"
  /\ pc' = [h \in Handlers |-> "idle"] /\ arg' = [h \in Handlers |-> NoBody]
  /\ v1Mu' = Nobody /\ v2Mu' = Nobody
  /\ UNCHANGED <<tables, erased, outage, acked>>

\* DeleteTelemetryRequest with a legacy installation: events, then summaries, in
\* another process, so without the writer's mutexes.  A mutation may be repeated
\* before its table is marked finished.
EraseTable(p) ==
  LET t == IF erased[p] = 0 THEN "events" ELSE "session_summaries"
  IN  /\ p \in suppressions /\ erased[p] < 2
      /\ rows' = [rows EXCEPT ![t] = @ \ Mine(p)]
      /\ erased' \in {erased, [erased EXCEPT ![p] = @ + 1]}
      /\ UNCHANGED <<suppressions, mutexes, pc, arg, outage, acked>>

-----------------------------------------------------------------------------
Init ==
  /\ rows = [t \in Tables |-> {}] /\ suppressions = {}
  /\ erased = [p \in LegacyBodies |-> 0]
  /\ v1Mu = Nobody /\ v2Mu = Nobody
  /\ pc = [h \in Handlers |-> "idle"] /\ arg = [h \in Handlers |-> NoBody]
  /\ outage = TRUE /\ acked = {}

Serve(h) ==
  CheckSuppression(h) \/ Insert(h) \/ ReadRequest(h) \/ RecordRequest(h)

Next ==
  \/ \E h \in Handlers :
       \/ \E x \in Bodies \cup PrivacyBodies : Begin(h, x)
       \/ LockV1(h) \/ LockV2(h) \/ Serve(h) \/ Fail(h)
  \/ Crash
  \/ \E p \in LegacyBodies : EraseTable(p)

Spec == Init /\ [][Next]_vars

\* As for the V2 store: ClickHouse answers again, a waiting goroutine is not
\* passed over for ever, and the client repeats its body.
Recover == outage /\ outage' = FALSE /\ UNCHANGED <<tables, erased, mutexes, pc, arg, acked>>

Fairness ==
  /\ WF_vars(Recover)
  /\ \A h \in Handlers : SF_vars(LockV1(h)) /\ SF_vars(LockV2(h)) /\ WF_vars(Serve(h))
  /\ \A b \in Bodies : SF_vars(\E h \in Handlers : Begin(h, b))

FairSpec == Init /\ [][Next \/ Recover]_vars /\ Fairness

-----------------------------------------------------------------------------
(* Properties                                                              *)

\* The variables have their types.
TypeOK ==
  /\ rows \in [Tables -> SUBSET Bodies]
  /\ suppressions \subseteq PrivacyBodies
  /\ erased \in [LegacyBodies -> 0..2]
  /\ v1Mu \in Handlers \cup {Nobody} /\ v2Mu \in Handlers \cup {Nobody}
  /\ pc \in [Handlers -> Tables \cup {"idle", "v1lock", "v2lock", "suppression",
                                      "request", "record"}]
  /\ arg \in [Handlers -> Bodies \cup PrivacyBodies \cup {NoBody}]
  /\ outage \in BOOLEAN /\ acked \subseteq Bodies \cup PrivacyBodies

\* A body answered 202 has all its parts in the tables, although its two INSERTs
\* are not one transaction, until its installation asks for deletion; and a
\* privacy request answered 202 is recorded for good (store.go:78-100).
AckedIsStored ==
  /\ \A b \in acked \cap Bodies : Suppressed(b) \/ \A t \in PartsOf[b] : b \in rows[t]
  /\ acked \cap PrivacyBodies \subseteq suppressions

\* V1 and V2 privacy requests share one set of request ids although they are two
\* endpoints under different mutexes: an id is never recorded for two bodies
\* (store_privacy.go:19-56).
OneBodyPerRequest ==
  \A p, q \in suppressions : RequestOf[p] = RequestOf[q] => p = q

\* "completed means both V1 telemetry tables were deleted" (docs/api.md:82): no
\* row of the installation is left, and none comes back from a handler that had
\* passed the suppression check before (store_privacy.go:175-190, store.go:78).
ErasedStaysErased ==
  \A p \in LegacyBodies :
    /\ erased[p] >= 1 => rows["events"] \cap Mine(p) = {}
    /\ erased[p] = 2 => rows["session_summaries"] \cap Mine(p) = {}

\* The state of the store at all times: its tables agree with every request id and with
\* every deletion reported, whichever handler waits for whichever mutex.
Inv == TypeOK /\ OneBodyPerRequest /\ ErasedStaysErased

\* From the recording of a legacy request on, no statement adds a row of its
\* installation, not even one of a request already past the check (store.go:78-91).
NoWriteAfterSuppression ==
  [][\A t \in Tables : \A b \in rows'[t] \ rows[t] : ~Suppressed(b)]_vars

\* Half a body is not left behind for ever: when the client repeats the body, its
\* missing part arrives, or the installation has been suppressed (store.go:88-98).
HalfBatchResolved ==
  \A b \in Bodies :
    (\E t \in Tables : b \in rows[t])
      ~> (Suppressed(b) \/ \A t \in PartsOf[b] : b \in rows[t])
=============================================================================
