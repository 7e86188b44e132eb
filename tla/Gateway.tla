-------------------------------- MODULE Gateway --------------------------------
(***************************************************************************)
(* Client, collector and writer: the handlers of internal/collector and    *)
(* internal/writer with the HTTP client between them, over a store that    *)
(* keeps the promises shown for StoreV1, StoreV2 and FundraisingStore.     *)
(*                                                                         *)
(* A request is one exact body with its credential; a client repeats it as *)
(* it likes.  The collector runs the checks of the endpoint in order, the  *)
(* first that fails answers; a request that passes is signed and relayed.  *)
(* The writer checks again, by ITS clock, and calls the store.  Either     *)
(* side may give up on the other while the other goes on.                  *)
(***************************************************************************)
EXTENDS Integers, Sequences, FiniteSetsExt

CONSTANTS
  Requests,
  Crowds,     \* sets of requests that clients may make in one behaviour
  KindOf,     \* [Requests -> Kinds], the endpoint
  IdOf,       \* batch_id or request_id; V1 events have none, so one of their own
  StampOf,    \* sent_at or requested_at
  ExpiryOf,   \* when the token expires, or the service signature becomes too old
  FaultsOf,   \* the fixed checks the request fails, a subset of FixedChecks
  MutesOf,    \* a privacy request: the requests whose scope it covers
  ClashesOf,  \* a batch: those that carry one of its record ids
  Slots,      \* requests in flight at one time
  Offset,     \* [{"collector", "writer"} -> Int], clocks against true time
  Past,       \* [Kinds -> Nat], how old a stamp may be
  Ahead,      \* how far in the future a stamp may be
  MaxSkew,    \* how old or early a service signature may be
  MaxTime,    \* bound: time stops here
  NoRequest

Ledgered == {"batch", "outcome", "donation"}
Private == {"legacy", "privacy"}
Kinds == Ledgered \cup Private \cup {"events"}
FixedChecks == {"json", "body", "shape", "key", "scope"}

\* V1 events carry no idempotency key; a V1 deletion takes its scope from the token
\* and a donation has none.
NoSuchFault == [k \in Kinds |->
  CASE k = "events" -> {"key"} [] k \in {"legacy", "donation"} -> {"scope"} [] OTHER -> {}]

ASSUME GatewayAssumption ==
  /\ Crowds \subseteq SUBSET Requests
  /\ KindOf \in [Requests -> Kinds]
  /\ FaultsOf \in [Requests -> SUBSET FixedChecks]
  /\ \A r \in Requests : FaultsOf[r] \cap NoSuchFault[KindOf[r]] = {}
  /\ MutesOf \in [Requests -> SUBSET Requests]
  /\ ClashesOf \in [Requests -> SUBSET Requests] /\ \A r \in Requests : r \notin ClashesOf[r]
  /\ Ahead \in Nat /\ MaxSkew \in Nat /\ MaxTime \in Nat
  /\ NoRequest \notin Requests
  /\ Offset \in [{"collector", "writer"} -> Int]
  /\ Offset["collector"] - Offset["writer"] \in -MaxSkew..MaxSkew

VARIABLES
  crowd,  \* the requests that clients make, and repeat
  now,
  slot,   \* the two handlers of each request in flight
  owner,  \* [ids -> the request that reserved or recorded it]
  kept,   \* requests stored completely
  muted,  \* requests under a recorded suppression
  heard,  \* history: <<request, status>> the client received, Unspoken left out
  outage  \* calls and statements may fail

vars == <<crowd, now, slot, owner, kept, muted, heard, outage>>
store == <<owner, kept, muted>>

Ids == {IdOf[r] : r \in Requests}
Clock(node) == now + Offset[node]

-----------------------------------------------------------------------------
(* The checks                                                              *)

\* A handler: its checks in order, and the refusals of the party it calls that it
\* passes on to its own caller.
Endpoint(checks, passed) == [checks |-> checks, passed |-> passed]

CollectorEvents == Endpoint(<<"json", "credential", "body", "shape", "scope">>, {403})
CollectorLegacyPrivacy ==
  Endpoint(<<"json", "credential", "body", "shape", "window", "key">>, {409})

\* Fault: the scope of a batch is not compared with its token's.
BatchesUnscoped ==
  Endpoint(<<"json", "credential", "body", "shape", "window", "key">>, {403, 409})

\* Fault: the collector leaves the window to the writer.
BatchesWindowless ==
  Endpoint(<<"json", "credential", "body", "shape", "key", "scope">>, {403, 409})

CollectorBatches == Endpoint(
  <<"json", "credential", "body", "shape", "window", "key", "scope">>, {403, 409})
CollectorPrivacy == Endpoint(
  <<"json", "credential", "body", "shape", "window", "key", "scope">>, {409})
CollectorOutcomes == Endpoint(
  <<"json", "body", "credential", "shape", "window", "key", "scope">>, {403, 409})
CollectorDonations ==
  Endpoint(<<"json", "body", "credential", "shape", "window", "key">>, {409})

Collector == [
  events  |-> CollectorEvents,   legacy  |-> CollectorLegacyPrivacy,
  batch   |-> CollectorBatches,  privacy |-> CollectorPrivacy,
  outcome |-> CollectorOutcomes, donation |-> CollectorDonations]

WriterEvents == Endpoint(<<"json", "body", "signature", "shape">>, {403})
WriterBatches == Endpoint(<<"json", "body", "signature", "shape", "window", "key">>, {403, 409})
WriterLegacyPrivacy == Endpoint(<<"json", "body", "signature", "shape", "window", "key">>, {409})
WriterPrivacy == Endpoint(<<"json", "body", "signature", "shape", "window", "key">>, {409})
WriterDonations == Endpoint(<<"json", "body", "signature", "shape", "window", "key">>, {409})

Writer == [
  events  |-> WriterEvents,  legacy  |-> WriterLegacyPrivacy,
  batch   |-> WriterBatches, privacy |-> WriterPrivacy,
  outcome |-> WriterBatches, donation |-> WriterDonations]

StatusOf == [json |-> 415, body |-> 413, credential |-> 401, signature |-> 401,
             shape |-> 400, window |-> 400, key |-> 400, scope |-> 403]

\* The 400 with the code invalid_body, of an upload that broke off.  Like a 502 it says
\* nothing of the body.
InvalidBody == -400
Unspoken == {502, InvalidBody}

InWindow(r, t) == StampOf[r] \in (t - Past[KindOf[r]])..(t + Ahead)

Passes(check, r, t, signed) ==
  CASE check = "credential" -> t <= ExpiryOf[r]
    [] check = "signature" -> t - signed \in -MaxSkew..MaxSkew
    [] check = "window" -> InWindow(r, t)
    [] OTHER -> check \notin FaultsOf[r]

\* The status of the first check that fails; 0 when all pass.
Verdict(checks, r, t, signed) ==
  LET failed == {i \in DOMAIN checks : ~Passes(checks[i], r, t, signed)}
  IN  IF failed = {} THEN 0 ELSE StatusOf[checks[Min(failed)]]

\* ReadBody comes to nothing once the checks in front of it have passed.
Interrupted(checks, r, t, signed) ==
  \E n \in DOMAIN checks :
    checks[n] = "body" /\ \A i \in 1..(n - 1) : Passes(checks[i], r, t, signed)

\* What the client in the collector and the switch of the handler make of the
\* writer's answer: anything unexpected is the collector's own 502.
Mapped(kind, status) ==
  IF status \in {202} \cup Collector[kind].passed THEN status ELSE 502

-----------------------------------------------------------------------------
(* front is the collector's handler, back the writer's.                    *)

Free == [req |-> NoRequest, front |-> "idle", back |-> "none", signed |-> 0, status |-> 0]

InFlight(s) == slot[s].req

Send(s, r) ==
  /\ r \in crowd /\ slot[s] = Free
  /\ slot' = [slot EXCEPT ![s] = [Free EXCEPT !.req = r, !.front = "checks"]]
  /\ UNCHANGED <<crowd, now, store, heard, outage>>

\* The collector answers; the answer may get lost on its way to the client.
Answer(s, status, back) ==
  /\ slot' = [slot EXCEPT ![s] = IF back = "none" THEN Free ELSE
                [@ EXCEPT !.front = "done", !.back = back]]
  /\ \/ heard' = heard \cup ({<<InFlight(s), status>>} \ Requests \X Unspoken)
     \/ outage /\ UNCHANGED heard
  /\ UNCHANGED <<crowd, now, store, outage>>

Collect(s) ==
  LET r == InFlight(s)
      checks == Collector[KindOf[r]].checks
      status == Verdict(checks, r, Clock("collector"), 0)
  IN  /\ slot[s].front = "checks"
      /\ \/ status # 0 /\ Answer(s, status, "none")
         \/ /\ outage /\ Interrupted(checks, r, Clock("collector"), 0)
            /\ Answer(s, InvalidBody, "none")
         \/ /\ status = 0
            /\ slot' = [slot EXCEPT ![s].front = "waits", ![s].back = "wire",
                                    ![s].signed = Clock("collector")]
            /\ UNCHANGED <<crowd, now, store, heard, outage>>

\* Timeout, broken connection, an answer that cannot be read: the collector
\* answers 502 whatever the writer does, now or later.
GiveUp(s) ==
  /\ outage /\ slot[s].front = "waits"
  /\ \E back \in {slot[s].back, "none"} : Answer(s, 502, back)

Reply(s, status) ==
  [slot EXCEPT ![s].back = "replied", ![s].status = status, ![s].signed = 0]

WriterVerifies(s) ==
  LET r == InFlight(s)
      checks == Writer[KindOf[r]].checks
      status == Verdict(checks, r, Clock("writer"), slot[s].signed)
  IN  /\ slot[s].back = "wire"
      /\ \/ slot' = IF status # 0 THEN Reply(s, status)
                    ELSE [slot EXCEPT ![s].back = "store", ![s].signed = 0]
         \/ /\ outage /\ Interrupted(checks, r, Clock("writer"), slot[s].signed)
            /\ slot' = Reply(s, InvalidBody)
      /\ UNCHANGED <<crowd, now, store, heard, outage>>

Relay(s) ==
  /\ slot[s].front = "waits" /\ slot[s].back = "replied"
  /\ Answer(s, Mapped(KindOf[InFlight(s)], slot[s].status), "none")

\* The writer's answer finds nobody waiting.
Forgotten(s) ==
  /\ slot[s].front = "done" /\ slot[s].back = "replied"
  /\ slot' = [slot EXCEPT ![s] = Free]
  /\ UNCHANGED <<crowd, now, store, heard, outage>>

-----------------------------------------------------------------------------
(* The store, one call at a time                                           *)

Owned(r) == owner[IdOf[r]] = r
Conflicts(r) == owner[IdOf[r]] \notin {NoRequest, r}
Done(r) == r \in kept /\ KindOf[r] # "events"

\* Fault: a body that is reserved already is a conflict, also with itself.
RefusalOfReserved(r) ==
  IF owner[IdOf[r]] # NoRequest THEN 409
  ELSE IF r \in muted /\ KindOf[r] \notin Private \cup {"donation"} THEN 403
  ELSE 0

\* The answer of a store that refuses without a write, or 0.
Refusal(r) ==
  IF Conflicts(r) THEN 409
  ELSE IF ~Done(r) /\ KindOf[r] \notin Private \cup {"donation"} /\ r \in muted THEN 403
  ELSE 0

\* A record of r is registered for another body: certainly when that is stored, and
\* possibly when it is only reserved.
MayClash(r) == \E q \in ClashesOf[r] : Owned(q)
MustClash(r) == kept \cap ClashesOf[r] # {}

Reserve(r) == owner' = [owner EXCEPT ![IdOf[r]] = r] /\ UNCHANGED <<kept, muted>>

\* Fault: a reservation is taken for the stored batch.
KeepReserved(r) ==
  /\ IF Owned(r) THEN UNCHANGED <<owner, kept>>
     ELSE owner' = [owner EXCEPT ![IdOf[r]] = r] /\ kept' = kept \cup {r}
  /\ muted' = muted \cup (IF KindOf[r] \in Private THEN MutesOf[r] ELSE {})

Keep(r) ==
  /\ owner' = [owner EXCEPT ![IdOf[r]] = r]
  /\ kept' = kept \cup {r}
  /\ muted' = muted \cup (IF KindOf[r] \in Private THEN MutesOf[r] ELSE {})

\* Insert, InsertV2, InsertFundraising, Create(Legacy)PrivacyRequest: refused at
\* once, refused after the reservation for a record id, done, or failed with
\* nothing, the reservation or everything written.
CallStore(s) ==
  LET r == InFlight(s)
      Refuse(status) == Reply(s, IF status \in Writer[KindOf[r]].passed THEN status ELSE 503)
  IN  /\ slot[s].back = "store"
      /\ \/ Refusal(r) # 0 /\ slot' = Refuse(Refusal(r)) /\ UNCHANGED store
         \/ Refusal(r) = 0 /\ ~Done(r) /\ MayClash(r) /\ slot' = Refuse(409) /\ Reserve(r)
         \/ Refusal(r) = 0 /\ (Done(r) \/ ~MustClash(r)) /\ slot' = Reply(s, 202) /\ Keep(r)
         \/ /\ outage /\ slot' = Reply(s, 503)
            /\ \/ UNCHANGED store
               \/ Refusal(r) = 0 /\ KindOf[r] \in Ledgered /\ Reserve(r)
               \/ Refusal(r) = 0 /\ (Done(r) \/ ~MustClash(r)) /\ Keep(r)
      /\ UNCHANGED <<crowd, now, heard, outage>>

\* The privacy worker, for what has been muted.
Erase(r) ==
  /\ r \in muted /\ (r \in kept \/ Owned(r))
  /\ kept' = kept \ {r}
  /\ owner' = IF Owned(r) THEN [owner EXCEPT ![IdOf[r]] = NoRequest] ELSE owner
  /\ UNCHANGED <<crowd, now, slot, muted, heard, outage>>

Tick == now < MaxTime /\ now' = now + 1 /\ UNCHANGED <<crowd, slot, store, heard, outage>>

-----------------------------------------------------------------------------
Init ==
  /\ crowd \in Crowds
  /\ now = 0 /\ slot = [s \in Slots |-> Free]
  /\ owner = [i \in Ids |-> NoRequest] /\ kept = {} /\ muted = {}
  /\ heard = {} /\ outage = TRUE

Handle(s) ==
  Collect(s) \/ WriterVerifies(s) \/ CallStore(s) \/ Relay(s) \/ Forgotten(s)

Next ==
  \/ \E s \in Slots : (\E r \in Requests : Send(s, r)) \/ Handle(s) \/ GiveUp(s)
  \/ \E r \in Requests : Erase(r)
  \/ Tick

Spec == Init /\ [][Next]_vars

Recover == outage /\ outage' = FALSE /\ UNCHANGED <<crowd, now, slot, store, heard>>

\* Failures end, time passes, handlers run and clients repeat their requests.
Fairness ==
  /\ WF_vars(Recover) /\ WF_vars(Tick)
  /\ \A s \in Slots : WF_vars(Handle(s))
  /\ \A r \in Requests : SF_vars(\E s \in Slots : Send(s, r))

FairSpec == Init /\ [][Next \/ Recover]_vars /\ Fairness

-----------------------------------------------------------------------------
(* Properties                                                              *)

Heard(r, status) == <<r, status>> \in heard

\* The variables have their types.
TypeOK ==
  /\ now \in 0..MaxTime /\ outage \in BOOLEAN
  /\ \A s \in Slots :
       /\ slot[s].req \in Requests \cup {NoRequest}
       /\ slot[s].front \in {"idle", "checks", "waits", "done"}
       /\ slot[s].back \in {"none", "wire", "store", "replied"}
       /\ slot[s].front = "done" => slot[s].back # "none"
  /\ owner \in [Ids -> Requests \cup {NoRequest}]
  /\ kept \subseteq Requests /\ muted \subseteq Requests
  /\ heard \subseteq Requests \X {202, 400, 401, 403, 409, 413, 415}

\* "202 is returned only after the writer's success" (docs/api.md:49): what the
\* client was told is stored is stored, through every retry, lost answer and
\* timeout, until its scope is suppressed (collector/client.go:87-173).
AcceptedIsKept ==
  \A r \in Requests : Heard(r, 202) => r \in kept \/ r \in muted

\* A client drops a body on 409, so a 409 must never hide a body that is, or has
\* been, stored: the id or a record of it belongs to another body, or did so
\* before that body was erased (collector/server.go:453-463).
ConflictIsTrue ==
  \A r \in Requests : Heard(r, 409) =>
    \E q \in Requests \ {r} :
      /\ IdOf[q] = IdOf[r] \/ q \in ClashesOf[r]
      /\ Owned(q) \/ q \in kept \/ q \in muted

\* A 403 for a request whose scope is its token's means that a suppression has been
\* recorded, and that no earlier call for the body, should one still be under way, will
\* store it: it is stored already or will be refused.  A 400 about the body, not its
\* upload, is given to a malformed body, or to one that was out of the window; it does
\* not say that an earlier attempt, given up and answered 502, stores nothing
\* (collector/server.go:137-184, 345-399, 425-476; clickhouse/store_v2.go:63-78).
RefusalIsTrue ==
  \A r \in Requests :
    /\ Heard(r, 403) /\ "scope" \notin FaultsOf[r] =>
         r \in muted /\ (r \in kept \/ Refusal(r) # 0)
    /\ Heard(r, 400) /\ FaultsOf[r] \cap {"shape", "key"} = {} =>
         \E t \in 0..now : ~InWindow(r, t + Offset["collector"])

\* No final answer says of a body what is not so, whichever of the two services gives it
\* and however late: a client acts on it and does not come back.
RefusalsAreTrue == ConflictIsTrue /\ RefusalIsTrue

\* Nothing is stored or reserved for a request that fails any check of its
\* endpoint, whichever of the two services makes the check.
StoredWasChecked == \A r \in Requests : r \in kept \/ Owned(r) => FaultsOf[r] = {}

\* The state of both services at all times: only what passed the checks of both is kept.
Inv == TypeOK /\ StoredWasChecked

\* A client that repeats its request is told something final in the end: no
\* disagreement of the two clocks about the window keeps it at 502 for ever
\* (contract/v2/parse.go:226, writer/server.go:193).
EveryoneIsTold ==
  <>(\A r \in crowd : \E answer \in heard : answer[1] = r)
=============================================================================
