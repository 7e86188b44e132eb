---------------------------- MODULE Gateway_proofs ----------------------------
(***************************************************************************)
(* Proofs about Gateway for any requests, clients, handlers and clocks.    *)
(* What the client hears is true because the collector only passes on what *)
(* the store said of exactly this body, and because a suppression is the   *)
(* only thing that takes back what the store has said.                     *)
(***************************************************************************)
EXTENDS GatewayBodies, FiniteSetTheorems, WellFoundedInduction, TLAPS

Finals == {202, 400, 401, 403, 409, 413, 415}
SlotState == [req : Requests \cup {NoRequest}, front : {"idle", "checks", "waits", "done"},
              back : {"none", "wire", "store", "replied"}, signed : Int, status : Int]

Typed ==
  /\ crowd \in SUBSET Requests
  /\ now \in 0..MaxTime /\ outage \in BOOLEAN
  /\ slot \in [Slots -> SlotState]
  /\ owner \in [Ids -> Requests \cup {NoRequest}]
  /\ kept \in SUBSET Requests /\ muted \in SUBSET Requests
  /\ heard \in SUBSET (Requests \X Finals)

\* An id is reserved by a body that carries it.
OwnersCarry == \A i \in Ids : owner[i] # NoRequest => IdOf[owner[i]] = i

Rivals(r) == {q \in Requests \ {r} : IdOf[q] = IdOf[r] \/ q \in ClashesOf[r]}
IsThere(q) == Owned(q) \/ q \in kept \/ q \in muted

\* What the client may conclude from a status.
Truth(r, status) ==
  /\ status = 202 => r \in kept \/ r \in muted
  /\ status = 409 => \E q \in Rivals(r) : IsThere(q)
  /\ status = 403 => \/ r \in muted /\ KindOf[r] \notin Private \cup {"donation"}
                     \/ "scope" \in FaultsOf[r]
  /\ status = 400 => \/ FaultsOf[r] \cap {"shape", "key"} # {}
                     \/ \E t \in 0..now : ~InWindow(r, t + Offset["collector"])

\* The writer works only for requests that passed the collector, and what it has
\* replied is true as the collector will pass it on.
HandlerIsSound(s) ==
  LET h == slot[s]
  IN  /\ h.front # "idle" => h.req \in Requests
      /\ h.back # "none" => h.front \in {"waits", "done"} /\ FaultsOf[h.req] = {}
      /\ h.front = "done" => h.back # "none"
      /\ h.back = "replied" => Truth(h.req, Mapped(KindOf[h.req], h.status))

AnswersAreTrue == \A r \in Requests, status \in Finals : Heard(r, status) => Truth(r, status)

IInv ==
  /\ Typed /\ OwnersCarry /\ StoredWasChecked /\ AnswersAreTrue
  /\ \A s \in Slots : HandlerIsSound(s)

-----------------------------------------------------------------------------
(* The checks                                                              *)

LEMMA Assumptions ==
  /\ KindOf \in [Requests -> Kinds] /\ FaultsOf \in [Requests -> SUBSET FixedChecks]
  /\ \A r \in Requests : FaultsOf[r] \cap NoSuchFault[KindOf[r]] = {}
  /\ MutesOf \in [Requests -> SUBSET Requests]
  /\ ClashesOf \in [Requests -> SUBSET Requests] /\ \A r \in Requests : r \notin ClashesOf[r]
  /\ MaxTime \in Nat /\ NoRequest \notin Requests
  /\ Offset["collector"] \in Int
BY GatewayAssumption

\* A verdict is that of a check which fails, or all pass.
LEMMA VerdictOfChecks ==
  ASSUME NEW checks, DOMAIN checks \in SUBSET (1..7), NEW r, NEW t, NEW signed
  PROVE  \/ /\ Verdict(checks, r, t, signed) = 0
            /\ \A i \in DOMAIN checks : Passes(checks[i], r, t, signed)
         \/ \E i \in DOMAIN checks :
              /\ ~Passes(checks[i], r, t, signed)
              /\ Verdict(checks, r, t, signed) = StatusOf[checks[i]]
<1> DEFINE failed == {i \in DOMAIN checks : ~Passes(checks[i], r, t, signed)}
<1>1. CASE failed = {}
  BY <1>1 DEF Verdict
<1>2. CASE failed # {}
  <2>1. \E n \in failed : \A m \in failed : n <= m
    <3>1. ASSUME NEW n \in failed PROVE n \in 1..7
      OBVIOUS
    <3>2. CASE 1 \in failed
      BY <3>1, <3>2
    <3>3. CASE 2 \in failed /\ 1 \notin failed
      BY <3>1, <3>3
    <3>4. CASE 3 \in failed /\ 1 \notin failed /\ 2 \notin failed
      BY <3>1, <3>4
    <3>5. CASE 4 \in failed /\ \A m \in 1..3 : m \notin failed
      BY <3>1, <3>5
    <3>6. CASE 5 \in failed /\ \A m \in 1..4 : m \notin failed
      BY <3>1, <3>6
    <3>7. CASE 6 \in failed /\ \A m \in 1..5 : m \notin failed
      BY <3>1, <3>7
    <3>8. CASE \A m \in 1..6 : m \notin failed
      BY <1>2, <3>1, <3>8
    <3> QED BY <3>2, <3>3, <3>4, <3>5, <3>6, <3>7, <3>8
  <2>2. Min(failed) \in failed
    BY <2>1 DEF Min
  <2>3. Verdict(checks, r, t, signed) = StatusOf[checks[Min(failed)]]
    BY <1>2 DEF Verdict
  <2> QED BY <2>2, <2>3
<1> QED BY <1>1, <1>2

\* Between them the checks of a collector endpoint cover every fault there can be.
LEMMA CollectorCovers ==
  ASSUME NEW kind \in Kinds
  PROVE  /\ DOMAIN Collector[kind].checks \in SUBSET (1..7)
         /\ \A i \in DOMAIN Collector[kind].checks : Collector[kind].checks[i] \in
              {"json", "credential", "body", "shape", "window", "key", "scope"}
         /\ \A c \in FixedChecks \ NoSuchFault[kind] :
              \E i \in DOMAIN Collector[kind].checks : Collector[kind].checks[i] = c
         /\ Collector[kind].passed \in SUBSET {403, 409}
<1>1. CASE kind = "events"
  <2>1. Collector[kind] = CollectorEvents /\ NoSuchFault[kind] = {"key"}
    BY <1>1 DEF Collector, NoSuchFault, Kinds, Ledgered, Private
  <2> QED BY <2>1 DEF CollectorEvents, Endpoint, FixedChecks
<1>2. CASE kind = "legacy"
  <2>1. Collector[kind] = CollectorLegacyPrivacy /\ NoSuchFault[kind] = {"scope"}
    BY <1>2 DEF Collector, NoSuchFault, Kinds, Ledgered, Private
  <2> QED BY <2>1 DEF CollectorLegacyPrivacy, Endpoint, FixedChecks
<1>3. CASE kind = "batch"
  <2>1. Collector[kind] = CollectorBatches /\ NoSuchFault[kind] = {}
    BY <1>3 DEF Collector, NoSuchFault, Kinds, Ledgered, Private
  <2> QED BY <2>1 DEF CollectorBatches, Endpoint, FixedChecks
<1>4. CASE kind = "privacy"
  <2>1. Collector[kind] = CollectorPrivacy /\ NoSuchFault[kind] = {}
    BY <1>4 DEF Collector, NoSuchFault, Kinds, Ledgered, Private
  <2> QED BY <2>1 DEF CollectorPrivacy, Endpoint, FixedChecks
<1>5. CASE kind = "outcome"
  <2>1. Collector[kind] = CollectorOutcomes /\ NoSuchFault[kind] = {}
    BY <1>5 DEF Collector, NoSuchFault, Kinds, Ledgered, Private
  <2> QED BY <2>1 DEF CollectorOutcomes, Endpoint, FixedChecks
<1>6. CASE kind = "donation"
  <2>1. Collector[kind] = CollectorDonations /\ NoSuchFault[kind] = {"scope"}
    BY <1>6 DEF Collector, NoSuchFault, Kinds, Ledgered, Private
  <2> QED BY <2>1 DEF CollectorDonations, Endpoint, FixedChecks
<1> QED BY <1>1, <1>2, <1>3, <1>4, <1>5, <1>6 DEF Kinds, Ledgered, Private

\* A request that the collector relays has no fault; of one that it refuses it says
\* what is so.
LEMMA CollectorIsRight ==
  ASSUME NEW r \in Requests, now \in Nat
  PROVE  LET status == Verdict(Collector[KindOf[r]].checks, r, Clock("collector"), 0)
         IN  /\ status = 0 => FaultsOf[r] = {}
             /\ status # 0 => status \in Finals \ {202, 409} /\ Truth(r, status)
<1> DEFINE checks == Collector[KindOf[r]].checks
           status == Verdict(checks, r, Clock("collector"), 0)
<1>1. KindOf[r] \in Kinds /\ FaultsOf[r] \in SUBSET (FixedChecks \ NoSuchFault[KindOf[r]])
  BY Assumptions
<1>2. /\ DOMAIN checks \in SUBSET (1..7)
      /\ \A i \in DOMAIN checks : checks[i] \in
              {"json", "credential", "body", "shape", "window", "key", "scope"}
      /\ \A c \in FixedChecks \ NoSuchFault[KindOf[r]] : \E i \in DOMAIN checks : checks[i] = c
  BY <1>1, CollectorCovers
<1> HIDE DEF checks
<1>3. CASE /\ status = 0
           /\ \A i \in DOMAIN checks : Passes(checks[i], r, Clock("collector"), 0)
  <2>1. \A c \in FixedChecks : Passes(c, r, Clock("collector"), 0) => c \notin FaultsOf[r]
    BY DEF Passes, FixedChecks
  <2>2. FaultsOf[r] = {}
    BY <1>1, <1>2, <1>3, <2>1
  <2> QED BY <1>3, <2>2 DEF checks
<1>4. ASSUME NEW i \in DOMAIN checks, ~Passes(checks[i], r, Clock("collector"), 0),
             status = StatusOf[checks[i]]
      PROVE  status # 0 /\ status \in Finals \ {202, 409} /\ Truth(r, status)
  <2> DEFINE c == checks[i]
  <2>1. c \in {"json", "credential", "body", "shape", "window", "key", "scope"}
    BY <1>2
  <2>2. status = StatusOf[c] /\ ~Passes(c, r, Clock("collector"), 0)
    BY <1>4
  <2> HIDE DEF c, status
  <2>3. status \in {400, 401, 403, 413, 415}
    BY <2>1, <2>2 DEF StatusOf
  <2>4. status = 403 => "scope" \in FaultsOf[r]
    BY <2>1, <2>2 DEF StatusOf, Passes
  <2>5. status = 400 => \/ FaultsOf[r] \cap {"shape", "key"} # {}
                        \/ ~InWindow(r, now + Offset["collector"])
    BY <2>1, <2>2 DEF StatusOf, Passes, Clock
  <2> QED BY <2>3, <2>4, <2>5 DEF Truth, Finals
<1> QED BY <1>2, <1>3, <1>4, VerdictOfChecks DEF checks

\* What the writer refuses itself the collector does not pass on.
LEMMA WriterVerdicts ==
  ASSUME NEW kind \in Kinds, NEW r, NEW t, NEW signed
  PROVE  Verdict(Writer[kind].checks, r, t, signed) \in {0, 400, 401, 413, 415}
<1> DEFINE checks == Writer[kind].checks
<1>1. Writer[kind] \in {WriterEvents, WriterBatches, WriterLegacyPrivacy, WriterPrivacy,
                        WriterDonations}
  BY DEF Writer, Kinds, Ledgered, Private
<1>2. /\ DOMAIN checks \in SUBSET (1..7)
      /\ \A i \in DOMAIN checks :
           checks[i] \in {"json", "body", "signature", "shape", "window", "key"}
  BY <1>1 DEF WriterEvents, WriterBatches, WriterLegacyPrivacy, WriterPrivacy,
              WriterDonations, Endpoint
<1> HIDE DEF checks
<1>3. \A c \in {"json", "body", "signature", "shape", "window", "key"} :
        StatusOf[c] \in {400, 401, 413, 415}
  BY DEF StatusOf
<1>4. Verdict(checks, r, t, signed) \in {0, 400, 401, 413, 415}
  BY <1>2, <1>3, VerdictOfChecks
<1> QED BY <1>4 DEF checks

LEMMA MappedStatus ==
  ASSUME NEW r \in Requests, NEW status
  PROVE  /\ Mapped(KindOf[r], status) \in {202, 403, 409, 502}
         /\ Mapped(KindOf[r], status) \in {status, 502}
         /\ Truth(r, status) => Truth(r, Mapped(KindOf[r], status))
<1>1. Collector[KindOf[r]].passed \in SUBSET {403, 409}
  BY Assumptions, CollectorCovers
<1> QED BY <1>1 DEF Mapped, Truth

-----------------------------------------------------------------------------
(* Steps in general                                                        *)

LEMMA Now == ASSUME Typed PROVE now \in Nat
BY Assumptions DEF Typed

\* A truth stays one as long as only suppressions take anything back.
LEMMA TruthStays ==
  ASSUME now \in Nat, now' \in Nat, now <= now',
         muted \subseteq muted', kept \subseteq kept' \cup muted',
         \A q \in Requests : Owned(q) => Owned(q)' \/ q \in muted',
         NEW r \in Requests, NEW status, Truth(r, status)
  PROVE  Truth(r, status)'
<1>1. \A q \in Rivals(r) : IsThere(q) => IsThere(q)'
  BY DEF Rivals, IsThere
<1>2. \A t \in 0..now : t \in 0..now'
  OBVIOUS
<1>3. (\E q \in Rivals(r) : IsThere(q)) => \E q \in Rivals(r) : IsThere(q)'
  BY <1>1
<1>4. (\E t \in 0..now : ~InWindow(r, t + Offset["collector"]))
        => \E t \in 0..now' : ~InWindow(r, t + Offset["collector"])
  BY <1>2
<1>5. status = 202 => r \in kept' \/ r \in muted'
  BY DEF Truth
<1>6. status = 403 => \/ r \in muted' /\ KindOf[r] \notin Private \cup {"donation"}
                      \/ "scope" \in FaultsOf[r]
  BY DEF Truth
<1> QED BY <1>3, <1>4, <1>5, <1>6 DEF Truth, Rivals

\* A step that takes nothing back and whose handler and answer are sound.
LEMMA StepKeepsIInv ==
  ASSUME IInv, Typed', OwnersCarry', StoredWasChecked', now <= now',
         muted \subseteq muted', kept \subseteq kept' \cup muted',
         \A q \in Requests : Owned(q) => Owned(q)' \/ q \in muted',
         \A s \in Slots : slot'[s] = slot[s] \/ HandlerIsSound(s)',
         \A r \in Requests, status \in Finals :
           <<r, status>> \in heard' => <<r, status>> \in heard \/ Truth(r, status)'
  PROVE  IInv'
<1>1. \A r \in Requests : \A status : Truth(r, status) => Truth(r, status)'
  BY Now, TruthStays, Assumptions DEF IInv, Typed
<1>2. AnswersAreTrue'
  BY <1>1 DEF IInv, AnswersAreTrue, Heard
<1>3. ASSUME NEW s \in Slots, slot'[s] = slot[s]
      PROVE  HandlerIsSound(s)'
  <2>1. PICK h : h = slot[s]
    OBVIOUS
  <2>2. /\ h.front # "idle" => h.req \in Requests
        /\ h.back # "none" => h.front \in {"waits", "done"} /\ FaultsOf[h.req] = {}
        /\ h.front = "done" => h.back # "none"
        /\ h.back = "replied" => Truth(h.req, Mapped(KindOf[h.req], h.status))
    BY <2>1 DEF IInv, HandlerIsSound
  <2>3. h.back = "replied" => Truth(h.req, Mapped(KindOf[h.req], h.status))'
    <3>1. CASE h.back # "replied"
      BY <3>1
    <3>2. CASE h.back = "replied"
      <4>1. PICK r \in Requests : r = h.req
        BY <2>2, <3>2
      <4>2. PICK status : status = Mapped(KindOf[h.req], h.status)
        OBVIOUS
      <4>3. Truth(r, status)'
        BY <1>1, <2>2, <3>2, <4>1, <4>2
      <4> QED BY <4>1, <4>2, <4>3
    <3> QED BY <3>1, <3>2
  <2> QED BY <1>3, <2>1, <2>2, <2>3 DEF HandlerIsSound
<1> QED BY <1>2, <1>3 DEF IInv

LEMMA StoreStays ==
  ASSUME IInv, UNCHANGED <<owner, kept, muted>>
  PROVE  /\ OwnersCarry' /\ StoredWasChecked'
         /\ \A r, status : UNCHANGED now => (Truth(r, status)' <=> Truth(r, status))
BY DEF IInv, OwnersCarry, StoredWasChecked, Truth, IsThere, Owned, Rivals

-----------------------------------------------------------------------------
(* The handlers                                                            *)

LEMMA FreeIsSound ==
  /\ Free \in SlotState
  /\ Free.front = "idle" /\ Free.back = "none" /\ Free.req = NoRequest
BY DEF Free, SlotState

\* The slot of a handler alone moves, and it is left sound.
LEMMA SlotStep ==
  ASSUME IInv, UNCHANGED <<crowd, now, store, heard, outage>>,
         NEW s \in Slots, NEW h \in SlotState, slot' = [slot EXCEPT ![s] = h],
         h.front # "idle" => h.req \in Requests,
         h.back # "none" => h.front \in {"waits", "done"} /\ FaultsOf[h.req] = {},
         h.front = "done" => h.back # "none",
         h.back = "replied" => Truth(h.req, Mapped(KindOf[h.req], h.status))
  PROVE  IInv'
<1>1. /\ slot' \in [Slots -> SlotState] /\ slot'[s] = h
      /\ \A u \in Slots : u # s => slot'[u] = slot[u]
  BY DEF IInv, Typed
<1>2. OwnersCarry' /\ StoredWasChecked'
      /\ \A r, status : Truth(r, status)' <=> Truth(r, status)
  BY StoreStays DEF store
<1>3. h.back = "replied" => Truth(h.req, Mapped(KindOf[h.req], h.status))'
  BY <1>2
<1>4. HandlerIsSound(s)'
  BY <1>1, <1>3 DEF HandlerIsSound
<1>5. Typed'
  BY <1>1 DEF IInv, Typed, store
<1>6. \A q \in Requests : Owned(q) => Owned(q)'
  BY DEF Owned, store
<1> QED BY <1>1, <1>2, <1>4, <1>5, <1>6, Now, StepKeepsIInv DEF IInv, store

LEMMA SendKeepsIInv ==
  ASSUME IInv, NEW s \in Slots, NEW r \in Requests, Send(s, r)
  PROVE  IInv'
<1> DEFINE h == [Free EXCEPT !.req = r, !.front = "checks"]
<1>1. h = [req |-> r, front |-> "checks", back |-> "none", signed |-> 0, status |-> 0]
  <2>1. [Free EXCEPT !.req = r]
          = [req |-> r, front |-> "idle", back |-> "none", signed |-> 0, status |-> 0]
    BY DEF Free
  <2>2. h = [[Free EXCEPT !.req = r] EXCEPT !.front = "checks"]
    OBVIOUS
  <2> HIDE DEF h
  <2> QED BY <2>1, <2>2
<1>2. slot' = [slot EXCEPT ![s] = h] /\ UNCHANGED <<crowd, now, store, heard, outage>>
  BY DEF Send
<1> HIDE DEF h
<1>3. h \in SlotState /\ h.front = "checks" /\ h.back = "none" /\ h.req = r
  BY <1>1 DEF SlotState
<1> QED BY <1>2, <1>3, SlotStep

\* An answer of the collector, with the writer's handler left behind or none.
LEMMA AnswerKeepsIInv ==
  ASSUME IInv, NEW s \in Slots, slot[s].front \in {"checks", "waits"},
         NEW status \in Finals \cup Unspoken, Truth(slot[s].req, status),
         NEW back \in {slot[s].back, "none"}, Answer(s, status, back)
  PROVE  IInv'
<1>1. PICK old \in SlotState : old = slot[s]
  BY DEF IInv, Typed
<1>2. /\ old.req \in Requests
      /\ old.back # "none" => FaultsOf[old.req] = {}
      /\ old.back = "replied" => Truth(old.req, Mapped(KindOf[old.req], old.status))
  BY <1>1 DEF IInv, HandlerIsSound
<1>3. PICK h : /\ h = IF back = "none" THEN Free
                       ELSE [[old EXCEPT !.front = "done"] EXCEPT !.back = back]
               /\ slot' = [slot EXCEPT ![s] = h]
  BY <1>1 DEF Answer
<1>4. h \in SlotState
  BY <1>1, <1>3, FreeIsSound DEF SlotState
<1>5. \/ h = Free
      \/ /\ h.front = "done" /\ h.back = old.back /\ h.back # "none"
         /\ h.req = old.req /\ h.status = old.status
  BY <1>1, <1>3 DEF SlotState
<1>6. /\ slot' \in [Slots -> SlotState] /\ slot'[s] = h
      /\ \A u \in Slots : u # s => slot'[u] = slot[u]
  BY <1>3, <1>4 DEF IInv, Typed
<1>7. UNCHANGED <<crowd, now, owner, kept, muted, outage>>
      /\ heard' \in {heard, heard \cup ({<<old.req, status>>} \ (Requests \X Unspoken))}
  BY <1>1 DEF Answer, InFlight, store
<1>8. OwnersCarry' /\ StoredWasChecked'
      /\ \A r, x : Truth(r, x)' <=> Truth(r, x)
  BY <1>7, StoreStays
<1>9. h.back = "replied" => Truth(h.req, Mapped(KindOf[h.req], h.status))'
  BY <1>2, <1>5, <1>8, FreeIsSound
<1>10. HandlerIsSound(s)'
  BY <1>2, <1>5, <1>6, <1>9, FreeIsSound DEF HandlerIsSound
<1>11. ASSUME NEW r \in Requests, NEW x \in Finals, <<r, x>> \in heard', <<r, x>> \notin heard
       PROVE  Truth(r, x)'
  BY <1>1, <1>7, <1>8, <1>11
<1>12. heard' \in SUBSET (Requests \X Finals)
  <2>1. <<old.req, status>> \in Requests \X Finals \/ <<old.req, status>> \in Requests \X Unspoken
    BY <1>2
  <2> QED BY <1>7, <2>1 DEF IInv, Typed
<1>13. Typed'
  BY <1>6, <1>7, <1>12 DEF IInv, Typed
<1>14. \A q \in Requests : Owned(q) => Owned(q)'
  BY <1>7 DEF Owned
<1> QED BY <1>6, <1>7, <1>8, <1>10, <1>11, <1>13, <1>14, Now, StepKeepsIInv DEF IInv

LEMMA CollectKeepsIInv ==
  ASSUME IInv, NEW s \in Slots, Collect(s)
  PROVE  IInv'
<1>1. PICK old \in SlotState : old = slot[s]
  BY DEF IInv, Typed
<1> DEFINE status == Verdict(Collector[KindOf[old.req]].checks, old.req, Clock("collector"), 0)
<1>2. old.front = "checks" /\ old.req \in Requests
  BY <1>1 DEF Collect, IInv, HandlerIsSound
<1>3. /\ status = 0 => FaultsOf[old.req] = {}
      /\ status # 0 => status \in Finals /\ Truth(old.req, status)
  BY <1>2, CollectorIsRight, Now DEF IInv
<1>4. \/ status # 0 /\ Answer(s, status, "none")
      \/ /\ status = 0
         /\ slot' = [slot EXCEPT ![s] = [@ EXCEPT !.front = "waits", !.back = "wire",
                                                 !.signed = Clock("collector")]]
         /\ UNCHANGED <<crowd, now, store, heard, outage>>
      \/ Answer(s, InvalidBody, "none")
  BY <1>1 DEF Collect, InFlight
<1> HIDE DEF status
<1>5. CASE status # 0 /\ Answer(s, status, "none")
  BY <1>1, <1>2, <1>3, <1>5, AnswerKeepsIInv
<1>6. CASE /\ status = 0
           /\ slot' = [slot EXCEPT ![s] = [@ EXCEPT !.front = "waits", !.back = "wire",
                                                   !.signed = Clock("collector")]]
           /\ UNCHANGED <<crowd, now, store, heard, outage>>
  <2> DEFINE h == [[[old EXCEPT !.front = "waits"] EXCEPT !.back = "wire"]
                     EXCEPT !.signed = Clock("collector")]
  <2>1. slot' = [slot EXCEPT ![s] = h]
    BY <1>1, <1>6
  <2>2. Clock("collector") \in Int
    BY Now, Assumptions DEF Clock, IInv
  <2>3. h \in SlotState /\ h.front = "waits" /\ h.back = "wire" /\ h.req = old.req
    BY <2>2 DEF SlotState
  <2> HIDE DEF h
  <2> QED BY <1>2, <1>3, <1>6, <2>1, <2>3, SlotStep
<1>7. CASE Answer(s, InvalidBody, "none")
  <2>1. Truth(old.req, InvalidBody) /\ InvalidBody \in Unspoken
    BY DEF Truth, Unspoken, InvalidBody
  <2> QED BY <1>1, <1>2, <1>7, <2>1, AnswerKeepsIInv
<1> QED BY <1>4, <1>5, <1>6, <1>7

LEMMA GiveUpKeepsIInv ==
  ASSUME IInv, NEW s \in Slots, GiveUp(s)
  PROVE  IInv'
<1>1. slot[s].front = "waits" /\ \E back \in {slot[s].back, "none"} : Answer(s, 502, back)
  BY DEF GiveUp
<1>2. Truth(slot[s].req, 502) /\ 502 \in Unspoken
  BY DEF Truth, Unspoken
<1> QED BY <1>1, <1>2, AnswerKeepsIInv

LEMMA RelayKeepsIInv ==
  ASSUME IInv, NEW s \in Slots, Relay(s)
  PROVE  IInv'
<1>1. PICK old \in SlotState : old = slot[s]
  BY DEF IInv, Typed
<1> DEFINE status == Mapped(KindOf[old.req], old.status)
<1>2. old.front = "waits" /\ old.back = "replied" /\ Answer(s, status, "none")
  BY <1>1 DEF Relay, InFlight
<1>3. old.req \in Requests /\ Truth(old.req, status)
  BY <1>1, <1>2 DEF IInv, HandlerIsSound
<1>4. status \in Finals \cup Unspoken
  BY <1>3, MappedStatus DEF Finals, Unspoken
<1> HIDE DEF status
<1> QED BY <1>1, <1>2, <1>3, <1>4, AnswerKeepsIInv

LEMMA ForgottenKeepsIInv ==
  ASSUME IInv, NEW s \in Slots, Forgotten(s)
  PROVE  IInv'
BY FreeIsSound, SlotStep DEF Forgotten

\* What a handler of the writer leaves when it replies.
LEMMA ReplyIsSound ==
  ASSUME IInv, NEW s \in Slots, slot[s].back # "none", NEW status \in Int
  PROVE  \E h \in SlotState :
           /\ Reply(s, status) = [slot EXCEPT ![s] = h]
           /\ h.front = slot[s].front /\ h.back = "replied"
           /\ h.req = slot[s].req /\ h.status = status
           /\ h.front \in {"waits", "done"} /\ h.req \in Requests /\ FaultsOf[h.req] = {}
<1>1. PICK old \in SlotState : old = slot[s]
  BY DEF IInv, Typed
<1>2. old.front \in {"waits", "done"} /\ old.req \in Requests /\ FaultsOf[old.req] = {}
  BY <1>1 DEF IInv, HandlerIsSound
<1> DEFINE h == [[[old EXCEPT !.back = "replied"] EXCEPT !.status = status] EXCEPT !.signed = 0]
<1>3. h \in SlotState /\ h.front = old.front /\ h.back = "replied" /\ h.req = old.req
      /\ h.status = status
  <2> DEFINE first == [old EXCEPT !.back = "replied"]
             second == [first EXCEPT !.status = status]
  <2>1. /\ first \in SlotState /\ first.front = old.front /\ first.back = "replied"
        /\ first.req = old.req
    BY DEF SlotState
  <2> HIDE DEF first
  <2>2. /\ second \in SlotState /\ second.front = old.front /\ second.back = "replied"
        /\ second.req = old.req /\ second.status = status
    BY <2>1 DEF SlotState
  <2>3. h = [second EXCEPT !.signed = 0]
    BY DEF first
  <2> HIDE DEF h, second
  <2> QED BY <2>2, <2>3 DEF SlotState
<1>4. Reply(s, status) = [slot EXCEPT ![s] = h]
  BY <1>1 DEF Reply, IInv, Typed
<1> HIDE DEF h
<1> QED BY <1>1, <1>2, <1>3, <1>4

LEMMA WriterVerifiesKeepsIInv ==
  ASSUME IInv, NEW s \in Slots, WriterVerifies(s)
  PROVE  IInv'
<1>1. PICK old \in SlotState : old = slot[s]
  BY DEF IInv, Typed
<1> DEFINE status == Verdict(Writer[KindOf[old.req]].checks, old.req, Clock("writer"), old.signed)
<1>2. /\ old.back = "wire" /\ old.req \in Requests
      /\ old.front \in {"waits", "done"} /\ FaultsOf[old.req] = {}
  BY <1>1 DEF WriterVerifies, IInv, HandlerIsSound
<1>3. status \in {0, 400, 401, 413, 415}
  BY <1>2, WriterVerdicts, Assumptions
<1>4. /\ \/ slot' = IF status # 0 THEN Reply(s, status)
                    ELSE [slot EXCEPT ![s] = [@ EXCEPT !.back = "store", !.signed = 0]]
         \/ slot' = Reply(s, InvalidBody)
      /\ UNCHANGED <<crowd, now, store, heard, outage>>
  BY <1>1 DEF WriterVerifies, InFlight
<1> HIDE DEF status
<1>5. ASSUME NEW refusal \in {400, 401, 413, 415, InvalidBody}, slot' = Reply(s, refusal)
      PROVE  IInv'
  <2>1. refusal \in Int /\ refusal \notin {202, 403, 409}
    BY DEF InvalidBody
  <2>2. Mapped(KindOf[old.req], refusal) = 502
    BY <1>2, <2>1, MappedStatus
  <2>3. Truth(old.req, Mapped(KindOf[old.req], refusal))
    BY <2>2 DEF Truth
  <2> QED BY <1>1, <1>2, <1>4, <1>5, <2>1, <2>3, ReplyIsSound, SlotStep
<1>6. CASE /\ status = 0
           /\ slot' = [slot EXCEPT ![s] = [@ EXCEPT !.back = "store", !.signed = 0]]
  <2> DEFINE h == [[old EXCEPT !.back = "store"] EXCEPT !.signed = 0]
  <2>1. slot' = [slot EXCEPT ![s] = h]
    BY <1>1, <1>6
  <2>2. h \in SlotState /\ h.front = old.front /\ h.back = "store" /\ h.req = old.req
    <3> DEFINE first == [old EXCEPT !.back = "store"]
    <3>1. /\ first \in SlotState /\ first.front = old.front /\ first.back = "store"
          /\ first.req = old.req
      BY DEF SlotState
    <3>2. h = [first EXCEPT !.signed = 0]
      OBVIOUS
    <3> HIDE DEF h, first
    <3> QED BY <3>1, <3>2 DEF SlotState
  <2> HIDE DEF h
  <2> QED BY <1>2, <1>4, <2>1, <2>2, SlotStep
<1> QED BY <1>3, <1>4, <1>5, <1>6

-----------------------------------------------------------------------------
(* The store                                                               *)

\* The ways in which a call may leave the tables.
Writes(r) ==
  \/ UNCHANGED store
  \/ Refusal(r) = 0 /\ (Reserve(r) \/ Keep(r))

\* A write for a request that is not refused takes nothing from another one.
LEMMA WritesTakeNothing ==
  ASSUME IInv, NEW r \in Requests, FaultsOf[r] = {}, Writes(r)
  PROVE  /\ owner' \in [Ids -> Requests \cup {NoRequest}]
         /\ kept' \in SUBSET Requests /\ muted' \in SUBSET Requests
         /\ OwnersCarry' /\ StoredWasChecked'
         /\ muted \subseteq muted' /\ kept \subseteq kept'
         /\ \A q \in Requests : Owned(q) => Owned(q)'
<1>1. Typed /\ OwnersCarry /\ StoredWasChecked /\ IdOf[r] \in Ids
  BY DEF IInv, Ids
<1>2. CASE UNCHANGED store
  BY <1>1, <1>2, StoreStays DEF store, Typed, Owned
<1>3. CASE Refusal(r) = 0 /\ (Reserve(r) \/ Keep(r))
  <2>1. owner[IdOf[r]] \in {NoRequest, r}
    BY <1>3 DEF Refusal, Conflicts
  <2>2. owner' = [owner EXCEPT ![IdOf[r]] = r]
    BY <1>3 DEF Reserve, Keep
  <2>3. kept' \in {kept, kept \cup {r}} /\ muted' \in {muted, muted \cup MutesOf[r]}
    BY <1>3 DEF Reserve, Keep
  <2>4. \A q \in Requests : Owned(q) => Owned(q)'
    <3>. SUFFICES ASSUME NEW q \in Requests, owner[IdOf[q]] = q
                  PROVE  owner'[IdOf[q]] = q
      BY DEF Owned
    <3>1. IdOf[q] \in Ids /\ q # NoRequest
      BY Assumptions DEF Ids
    <3> QED BY <1>1, <2>1, <2>2, <3>1 DEF Typed
  <2>5. \A i \in Ids : owner'[i] = IF i = IdOf[r] THEN r ELSE owner[i]
    BY <1>1, <2>2 DEF Typed
  <2>6. OwnersCarry'
    BY <1>1, <2>5 DEF OwnersCarry
  <2>7. StoredWasChecked'
    <3>. SUFFICES ASSUME NEW q \in Requests, q \in kept' \/ owner'[IdOf[q]] = q
                  PROVE  FaultsOf[q] = {}
      BY DEF StoredWasChecked, Owned
    <3>1. IdOf[q] \in Ids
      BY DEF Ids
    <3> QED BY <1>1, <2>3, <2>5, <3>1 DEF StoredWasChecked, Owned
  <2>8. owner' \in [Ids -> Requests \cup {NoRequest}]
    BY <1>1, <2>2 DEF Typed
  <2>9. kept' \in SUBSET Requests /\ muted' \in SUBSET Requests
    BY <1>1, <2>3, Assumptions DEF Typed
  <2> QED BY <2>3, <2>4, <2>6, <2>7, <2>8, <2>9
<1> QED BY <1>2, <1>3 DEF Writes

\* A reply that is true of the tables as the call leaves them.
LEMMA CallKeepsIInv ==
  ASSUME IInv, NEW s \in Slots, NEW r \in Requests, slot[s].req = r, slot[s].back # "none",
         NEW status \in {202, 403, 409, 503},
         slot' = Reply(s, status), UNCHANGED <<crowd, now, heard, outage>>,
         Writes(r), Truth(r, status)'
  PROVE  IInv'
<1>1. PICK h \in SlotState :
        /\ slot' = [slot EXCEPT ![s] = h]
        /\ h.front = slot[s].front /\ h.back = "replied"
        /\ h.req = r /\ h.status = status
        /\ h.front \in {"waits", "done"} /\ FaultsOf[r] = {}
  BY ReplyIsSound
<1>2. /\ slot' \in [Slots -> SlotState] /\ slot'[s] = h
      /\ \A u \in Slots : u # s => slot'[u] = slot[u]
  BY <1>1 DEF IInv, Typed
<1>3. /\ owner' \in [Ids -> Requests \cup {NoRequest}]
      /\ kept' \in SUBSET Requests /\ muted' \in SUBSET Requests
      /\ OwnersCarry' /\ StoredWasChecked'
      /\ muted \subseteq muted' /\ kept \subseteq kept'
      /\ \A q \in Requests : Owned(q) => Owned(q)'
  BY <1>1, WritesTakeNothing
<1>4. Typed'
  BY <1>2, <1>3 DEF IInv, Typed
<1>5. Truth(r, Mapped(KindOf[r], status))'
  <2>1. PICK x : x = Mapped(KindOf[r], status)
    OBVIOUS
  <2>2. x \in {status, 502}
    BY <2>1, MappedStatus
  <2>3. Truth(r, x)'
    BY <2>2 DEF Truth
  <2> QED BY <2>1, <2>3
<1>6. HandlerIsSound(s)'
  BY <1>1, <1>2, <1>5 DEF HandlerIsSound
<1> QED BY <1>2, <1>3, <1>4, <1>6, Now, StepKeepsIInv DEF IInv

\* What the store refuses at once it refuses for a reason.
LEMMA RefusalsHold ==
  ASSUME IInv, NEW r \in Requests, Refusal(r) # 0
  PROVE  Refusal(r) \in {403, 409} /\ Truth(r, Refusal(r))
<1>1. CASE Conflicts(r)
  <2> DEFINE q == owner[IdOf[r]]
  <2>1. q \in Requests \ {r} /\ IdOf[q] = IdOf[r]
    BY <1>1 DEF IInv, Typed, OwnersCarry, Ids, Conflicts
  <2>2. Owned(q)
    BY <2>1 DEF Owned
  <2>3. Refusal(r) = 409
    BY <1>1 DEF Refusal
  <2>4. q \in Rivals(r) /\ IsThere(q)
    BY <2>1, <2>2 DEF Rivals, IsThere
  <2> QED BY <2>3, <2>4 DEF Truth
<1>2. CASE ~Conflicts(r)
  <2>1. /\ Refusal(r) = 403 /\ r \in muted
        /\ KindOf[r] \notin Private \cup {"donation"}
    BY <1>2 DEF Refusal
  <2> QED BY <2>1 DEF Truth
<1> QED BY <1>1, <1>2

LEMMA CallStoreKeepsIInv ==
  ASSUME IInv, NEW s \in Slots, CallStore(s)
  PROVE  IInv'
<1>1. slot[s].back = "store" /\ UNCHANGED <<crowd, now, heard, outage>>
  BY DEF CallStore
<1>2. PICK r \in Requests : r = slot[s].req
  BY <1>1 DEF IInv, HandlerIsSound
<1> DEFINE passed(status) == IF status \in Writer[KindOf[r]].passed THEN status ELSE 503
<1>3. \/ Refusal(r) # 0 /\ slot' = Reply(s, passed(Refusal(r))) /\ UNCHANGED store
      \/ Refusal(r) = 0 /\ MayClash(r) /\ slot' = Reply(s, passed(409)) /\ Reserve(r)
      \/ Refusal(r) = 0 /\ slot' = Reply(s, 202) /\ Keep(r)
      \/ slot' = Reply(s, 503) /\ Writes(r)
  BY <1>2 DEF CallStore, InFlight, Writes
<1>4. ASSUME NEW status \in {202, 403, 409, 503}, slot' = Reply(s, status), Writes(r),
             Truth(r, status)'
      PROVE  IInv'
  BY <1>1, <1>2, <1>4, CallKeepsIInv
<1>5. Truth(r, 503)'
  BY DEF Truth
<1>6. CASE Refusal(r) # 0 /\ slot' = Reply(s, passed(Refusal(r))) /\ UNCHANGED store
  <2>1. Refusal(r) \in {403, 409} /\ Truth(r, Refusal(r))
    BY <1>6, RefusalsHold
  <2>2. PICK status \in {403, 409, 503} : status = passed(Refusal(r))
    BY <2>1
  <2>3. Truth(r, status)
    BY <2>1, <2>2 DEF Truth
  <2>4. Truth(r, status)'
    BY <1>1, <1>6, <2>3, StoreStays DEF store
  <2> QED BY <1>4, <1>6, <2>2, <2>4 DEF Writes
<1>7. CASE Refusal(r) = 0 /\ MayClash(r) /\ slot' = Reply(s, passed(409)) /\ Reserve(r)
  <2>1. Writes(r) /\ FaultsOf[r] = {}
    BY <1>1, <1>2, <1>7 DEF Writes, IInv, HandlerIsSound
  <2>2. PICK q \in ClashesOf[r] : Owned(q)
    BY <1>7 DEF MayClash
  <2>3. q \in Rivals(r) /\ q \in Requests
    BY <2>2, Assumptions DEF Rivals
  <2>4. Owned(q)'
    BY <2>1, <2>2, <2>3, WritesTakeNothing
  <2>5. Truth(r, 409)'
    BY <2>3, <2>4 DEF Truth, IsThere, Rivals
  <2>6. passed(409) \in {409, 503}
    OBVIOUS
  <2> HIDE DEF passed
  <2> QED BY <1>4, <1>5, <1>7, <2>1, <2>5, <2>6
<1>8. CASE Refusal(r) = 0 /\ slot' = Reply(s, 202) /\ Keep(r)
  <2>1. r \in kept' /\ Writes(r)
    BY <1>8 DEF Keep, Writes
  <2>2. Truth(r, 202)'
    BY <2>1 DEF Truth
  <2> QED BY <1>4, <1>8, <2>1, <2>2
<1>9. CASE slot' = Reply(s, 503) /\ Writes(r)
  BY <1>4, <1>5, <1>9
<1> QED BY <1>3, <1>6, <1>7, <1>8, <1>9

\* A step beside the handlers.
LEMMA EraseKeepsIInv ==
  ASSUME IInv, NEW r \in Requests, Erase(r)
  PROVE  IInv'
<1>1. /\ Typed /\ OwnersCarry /\ StoredWasChecked /\ IdOf[r] \in Ids
      /\ r \in muted /\ kept' = kept \ {r}
      /\ UNCHANGED <<crowd, now, slot, muted, heard, outage>>
  BY DEF IInv, Erase, Ids
<1>2. owner' \in [Ids -> Requests \cup {NoRequest}]
      /\ \A i \in Ids : owner'[i] \in {owner[i], NoRequest}
  BY <1>1 DEF Erase, Typed
<1>3. \A q \in Requests : Owned(q) => Owned(q)' \/ q \in muted'
  <2>. SUFFICES ASSUME NEW q \in Requests, owner[IdOf[q]] = q, q # r
                PROVE  owner'[IdOf[q]] = q
    BY <1>1 DEF Owned
  <2>1. IdOf[q] \in Ids
    BY DEF Ids
  <2>2. CASE owner[IdOf[r]] = r
    BY <1>1, <2>1, <2>2 DEF Erase, Owned, Typed
  <2>3. CASE owner[IdOf[r]] # r
    BY <1>1, <2>3 DEF Erase, Owned
  <2> QED BY <2>2, <2>3
<1>4. OwnersCarry'
  BY <1>1, <1>2, Assumptions DEF OwnersCarry
<1>5. StoredWasChecked'
  <2>. SUFFICES ASSUME NEW q \in Requests, q \in kept' \/ owner'[IdOf[q]] = q
                PROVE  FaultsOf[q] = {}
    BY DEF StoredWasChecked, Owned
  <2>1. IdOf[q] \in Ids /\ q # NoRequest
    BY Assumptions DEF Ids
  <2>2. q \in kept \/ owner[IdOf[q]] = q
    BY <1>1, <1>2, <2>1
  <2> QED BY <1>1, <2>2 DEF StoredWasChecked, Owned
<1>6. Typed'
  BY <1>1, <1>2 DEF Typed
<1>7. kept \subseteq kept' \cup muted'
  BY <1>1
<1> QED BY <1>1, <1>3, <1>4, <1>5, <1>6, <1>7, Now, StepKeepsIInv DEF IInv

LEMMA TickKeepsIInv ==
  ASSUME IInv, Tick
  PROVE  IInv'
<1>1. Typed' /\ now <= now'
  BY Now, Assumptions DEF IInv, Tick, Typed, store
<1>2. OwnersCarry' /\ StoredWasChecked'
  BY StoreStays DEF Tick, store
<1>3. \A q \in Requests : Owned(q) => Owned(q)'
  BY DEF Owned, Tick, store
<1> QED BY <1>1, <1>2, <1>3, StepKeepsIInv DEF Tick, store

LEMMA StutterKeepsIInv ==
  ASSUME IInv, UNCHANGED <<crowd, now, slot, store, heard>>, outage' \in BOOLEAN
  PROVE  IInv'
<1>1. Typed' /\ now <= now'
  BY Now DEF IInv, Typed, store
<1>2. OwnersCarry' /\ StoredWasChecked'
  BY StoreStays DEF store
<1>3. \A q \in Requests : Owned(q) => Owned(q)'
  BY DEF Owned, store
<1> QED BY <1>1, <1>2, <1>3, StepKeepsIInv DEF store

-----------------------------------------------------------------------------
(* The theorems                                                            *)

LEMMA InitIInv == Init => IInv
<1>. SUFFICES ASSUME Init PROVE IInv
  OBVIOUS
<1>1. Typed
  BY FreeIsSound, Assumptions, GatewayAssumption DEF Init, Typed
<1>2. OwnersCarry
  BY DEF Init, OwnersCarry
<1>3. StoredWasChecked
  BY Assumptions DEF Init, StoredWasChecked, Owned, Ids
<1>4. AnswersAreTrue
  BY DEF Init, AnswersAreTrue, Heard
<1>5. \A s \in Slots : HandlerIsSound(s)
  BY FreeIsSound DEF Init, HandlerIsSound
<1> QED BY <1>1, <1>2, <1>3, <1>4, <1>5 DEF IInv

LEMMA NextKeepsIInv ==
  ASSUME IInv, [Next \/ Recover]_vars
  PROVE  IInv'
<1>1. ASSUME NEW s \in Slots, Handle(s)
      PROVE  IInv'
  BY <1>1, CollectKeepsIInv, WriterVerifiesKeepsIInv, CallStoreKeepsIInv, RelayKeepsIInv,
     ForgottenKeepsIInv DEF Handle
<1>2. CASE Next
  BY <1>1, <1>2, SendKeepsIInv, GiveUpKeepsIInv, EraseKeepsIInv, TickKeepsIInv DEF Next
<1>3. CASE Recover
  BY <1>3, StutterKeepsIInv DEF Recover
<1>4. CASE UNCHANGED vars
  <2>1. UNCHANGED <<crowd, now, slot, store, heard>> /\ outage' \in BOOLEAN
    BY <1>4 DEF vars, store, IInv, Typed
  <2> QED BY <2>1, StutterKeepsIInv
<1> QED BY <1>2, <1>3, <1>4

\* The inductive invariant: every answer under way and every answer heard is true.
THEOREM GatewayInvariance == Spec => []IInv
<1>1. IInv /\ [Next]_vars => IInv'
  BY NextKeepsIInv
<1> QED BY <1>1, InitIInv, PTL DEF Spec

\* Only what passed the checks of its endpoint is ever stored or reserved.
THEOREM GatewayIsSound == Spec => []Inv
<1>1. IInv => Inv
  <2>. SUFFICES ASSUME IInv PROVE Inv
    OBVIOUS
  <2>1. ASSUME NEW s \in Slots
        PROVE  /\ slot[s].req \in Requests \cup {NoRequest}
               /\ slot[s].front \in {"idle", "checks", "waits", "done"}
               /\ slot[s].back \in {"none", "wire", "store", "replied"}
               /\ slot[s].front = "done" => slot[s].back # "none"
    BY DEF IInv, Typed, SlotState, HandlerIsSound
  <2>2. heard \subseteq Requests \X {202, 400, 401, 403, 409, 413, 415}
    BY DEF IInv, Typed, Finals
  <2> QED BY <2>1, <2>2 DEF IInv, Typed, Inv, TypeOK
<1> QED BY <1>1, GatewayInvariance, PTL

\* What the client was told is stored stays stored until it is suppressed.
THEOREM AcceptedStaysKept == Spec => []AcceptedIsKept
<1>1. IInv => AcceptedIsKept
  BY DEF IInv, AnswersAreTrue, Truth, AcceptedIsKept, Finals
<1> QED BY <1>1, GatewayInvariance, PTL

\* No final refusal says of a body what is not so.
THEOREM RefusalsStayTrue == Spec => []RefusalsAreTrue
<1>1. ASSUME IInv, NEW r \in Requests, Heard(r, 409)
      PROVE  \E q \in Requests \ {r} : /\ IdOf[q] = IdOf[r] \/ q \in ClashesOf[r]
                                       /\ Owned(q) \/ q \in kept \/ q \in muted
  <2>1. \E q \in Rivals(r) : IsThere(q)
    BY <1>1 DEF IInv, AnswersAreTrue, Truth, Finals
  <2> QED BY <2>1 DEF Rivals, IsThere
<1>2. ASSUME IInv, NEW r \in Requests
      PROVE  /\ Heard(r, 403) /\ "scope" \notin FaultsOf[r] =>
                  r \in muted /\ (r \in kept \/ Refusal(r) # 0)
             /\ Heard(r, 400) /\ FaultsOf[r] \cap {"shape", "key"} = {} =>
                  \E t \in 0..now : ~InWindow(r, t + Offset["collector"])
  BY <1>2 DEF IInv, AnswersAreTrue, Truth, Finals, Refusal, Done
<1>3. IInv => RefusalsAreTrue
  BY <1>1, <1>2 DEF RefusalsAreTrue, ConflictIsTrue, RefusalIsTrue
<1> QED BY <1>3, GatewayInvariance, PTL

-----------------------------------------------------------------------------
(* The bodies.  The calls of validateValue that are under way are the      *)
(* containers open at that token, each with the keys read in it, and what  *)
(* has been read is unambiguous; a token the walk refuses makes it not so. *)

LEMMA MinIsLeast ==
  ASSUME NEW S \in SUBSET Nat, S # {}
  PROVE  Min(S) \in S /\ \A y \in S : Min(S) <= y
<1> DEFINE R == OpToRel(<, Nat)
<1>1. IsWellFoundedOn(R, Nat)
  BY NatLessThanWellFounded
<1>2. \A x, y \in Nat : y < x => <<y, x>> \in R
  BY DEF OpToRel
<1> HIDE DEF R
<1>3. PICK x \in S : \A y \in S : <<y, x>> \notin R
  BY <1>1, WFMin, Zenon
<1>4. \A y \in S : x <= y
  <2> TAKE y \in S
  <2>1. x \in Nat /\ y \in Nat /\ ~(y < x)
    BY <1>2, <1>3
  <2> QED BY <2>1
<1>5. Min(S) = CHOOSE y \in S : \A z \in S : y <= z
  BY DEF Min
<1>6. (CHOOSE y \in S : \A z \in S : y <= z) \in S
      /\ \A z \in S : (CHOOSE y \in S : \A w \in S : y <= w) <= z
  BY <1>4
<1> QED BY <1>5, <1>6

LEMMA SetInduction ==
  ASSUME NEW S \in SUBSET Nat, 0 \in S, \A n \in S : n + 1 \in S
  PROVE  S = Nat
<1> SUFFICES ASSUME S # Nat PROVE FALSE
  OBVIOUS
<1> DEFINE missing == Nat \ S
<1>1. missing \in SUBSET Nat /\ missing # {}
  OBVIOUS
<1>2. PICK n \in missing : \A m \in missing : n <= m
  <2> HIDE DEF missing
  <2>1. Min(missing) \in missing /\ \A m \in missing : Min(missing) <= m
    BY <1>1, MinIsLeast
  <2> QED BY <2>1
<1>3. n # 0 /\ n - 1 \in Nat /\ n - 1 \notin missing
  BY <1>2
<1>4. (n - 1) + 1 \in S
  BY <1>3
<1> QED BY <1>2, <1>3, <1>4

-----------------------------------------------------------------------------
(* Levels and parents                                                      *)

LEMMA MaxIsGreatest ==
  ASSUME NEW n \in Nat, NEW S \in SUBSET (0..n), S # {}
  PROVE  Max(S) \in S /\ \A y \in S : y <= Max(S)
<1> DEFINE above == {k \in Nat : \A y \in S : y <= k}
           least == Min(above)
<1>1. above \in SUBSET Nat /\ n \in above
  OBVIOUS
<1>2. least \in above /\ \A k \in above : least <= k
  <2> HIDE DEF above
  <2> QED BY <1>1, MinIsLeast
<1> HIDE DEF least
<1>3. least \in S
  <2> SUFFICES ASSUME least \notin S PROVE FALSE
    OBVIOUS
  <2>1. PICK y \in S : TRUE
    OBVIOUS
  <2>2. least \in Nat /\ least > 0
    BY <1>2, <2>1
  <2>3. least - 1 \in above
    BY <1>2, <2>2
  <2> QED BY <1>2, <2>2, <2>3
<1>4. \A y \in S : least >= y
  BY <1>2
<1>5. \A x \in S : (\A y \in S : x >= y) => x = least
  BY <1>3, <1>4
<1>6. Max(S) = least
  BY <1>3, <1>4, <1>5 DEF Max
<1> QED BY <1>3, <1>4, <1>6

LEMMA CountSteps ==
  ASSUME NEW body, NEW kinds, NEW i \in Nat \ {0}
  PROVE  /\ Count(body, i, kinds) \in Nat /\ Count(body, i - 1, kinds) \in Nat
         /\ Count(body, i, kinds) = Count(body, i - 1, kinds) + (IF body[i] \in kinds THEN 1 ELSE 0)
<1> DEFINE before == {j \in 1..(i - 1) : body[j] \in kinds}
           here == {j \in 1..i : body[j] \in kinds}
<1>1. IsFiniteSet(before)
  <2>1. IsFiniteSet(1..(i - 1)) /\ before \in SUBSET (1..(i - 1))
    BY FS_Interval
  <2> QED BY <2>1, FS_Subset
<1>2. i \notin before
  OBVIOUS
<1>3. here = IF body[i] \in kinds THEN before \cup {i} ELSE before
  OBVIOUS
<1> HIDE DEF before, here
<1>4. Cardinality(before) \in Nat /\ Cardinality(before \cup {i}) = Cardinality(before) + 1
  BY <1>1, <1>2, FS_AddElement, FS_CardinalityType
<1>5. Cardinality(here) = Cardinality(before) + (IF body[i] \in kinds THEN 1 ELSE 0)
  BY <1>3, <1>4
<1> QED BY <1>4, <1>5 DEF Count, before, here

LEMMA LevelSteps ==
  ASSUME NEW body, NEW i \in Nat \ {0}
  PROVE  /\ Level(body, i) \in Int /\ Level(body, i + 1) \in Int
         /\ body[i] \in Openers => Level(body, i + 1) = Level(body, i) + 1
         /\ body[i] \in Closers => Level(body, i + 1) = Level(body, i) - 1
         /\ body[i] \notin Openers \cup Closers => Level(body, i + 1) = Level(body, i)
<1>1. (i + 1) - 1 = i
  OBVIOUS
<1>2. /\ Count(body, i, Openers) \in Nat /\ Count(body, i - 1, Openers) \in Nat
      /\ Count(body, i, Openers) = Count(body, i - 1, Openers) + (IF body[i] \in Openers THEN 1 ELSE 0)
  BY CountSteps
<1>3. /\ Count(body, i, Closers) \in Nat /\ Count(body, i - 1, Closers) \in Nat
      /\ Count(body, i, Closers) = Count(body, i - 1, Closers) + (IF body[i] \in Closers THEN 1 ELSE 0)
  BY CountSteps
<1>4. body[i] \in Openers => body[i] \notin Closers
  BY DEF Openers, Closers
<1>5. /\ Level(body, i) = Count(body, i - 1, Openers) - Count(body, i - 1, Closers)
      /\ Level(body, i + 1) = Count(body, i, Openers) - Count(body, i, Closers)
  BY <1>1 DEF Level
<1> QED BY <1>2, <1>3, <1>4, <1>5

LEMMA FirstLevel ==
  ASSUME NEW body
  PROVE  Level(body, 1) = 0
<1>1. \A kinds : {j \in 1..(1 - 1) : body[j] \in kinds} = {}
  OBVIOUS
<1> QED BY <1>1, FS_EmptySet DEF Level, Count

\* The open container of token i, if there is one.
LEMMA ParentIs ==
  ASSUME NEW body, NEW i \in Nat, NEW p \in 1..(i - 1), body[p] \in Openers,
         Level(body, p) = Level(body, i) - 1,
         \A q \in (p + 1)..(i - 1) : body[q] \in Openers => Level(body, q) # Level(body, i) - 1
  PROVE  Parent(body, i) = p
<1> DEFINE S == {j \in 1..(i - 1) : body[j] \in Openers /\ Level(body, j) = Level(body, i) - 1}
<1>1. p \in S /\ S \in SUBSET (0..i)
  OBVIOUS
<1>2. \A j \in S : j <= p
  OBVIOUS
<1>3. Max(S) \in S /\ \A j \in S : j <= Max(S)
  <2> HIDE DEF S
  <2>1. S # {}
    BY <1>1
  <2> QED BY <1>1, <2>1, MaxIsGreatest
<1>4. Max(S) = p
  BY <1>1, <1>2, <1>3
<1> QED BY <1>4 DEF Parent

LEMMA ParentIsLast ==
  ASSUME NEW body, NEW i \in Nat, NEW p \in 1..(i - 1), body[p] \in Openers,
         Level(body, p) = Level(body, i) - 1, Parent(body, i) = p
  PROVE  \A q \in (p + 1)..(i - 1) : body[q] \in Openers => Level(body, q) # Level(body, i) - 1
<1> DEFINE S == {j \in 1..(i - 1) : body[j] \in Openers /\ Level(body, j) = Level(body, i) - 1}
<1>1. p \in S /\ S \in SUBSET (0..i)
  OBVIOUS
<1>2. Max(S) \in S /\ \A j \in S : j <= Max(S)
  <2> HIDE DEF S
  <2>1. S # {}
    BY <1>1
  <2> QED BY <1>1, <2>1, MaxIsGreatest
<1>3. Max(S) = p
  BY DEF Parent
<1>4. \A q \in (p + 1)..(i - 1) : q \in 1..(i - 1) /\ ~(q <= p)
  OBVIOUS
<1> QED BY <1>2, <1>3, <1>4

\* Where the level rises there is a token that opens a container.
LEMMA LevelRises ==
  ASSUME NEW body, NEW a \in Nat \ {0}, NEW b \in Nat, a < b, NEW l \in Int,
         Level(body, a) <= l, Level(body, b) = l + 1
  PROVE  \E q \in a..(b - 1) : body[q] \in Openers /\ Level(body, q) = l
<1> DEFINE S == {q \in a..b : Level(body, q) <= l}
           q == Max(S)
<1>1. a \in S /\ S \in SUBSET (0..b)
  OBVIOUS
<1>2. q \in S /\ \A y \in S : y <= q
  <2> HIDE DEF S
  <2>1. S # {}
    BY <1>1
  <2> QED BY <1>1, <2>1, MaxIsGreatest
<1> HIDE DEF q
<1>3. q \in a..b /\ Level(body, q) <= l /\ q # b
  BY <1>2
<1>4. q + 1 \in a..b /\ ~(q + 1 <= q) /\ q \in Nat \ {0} /\ q \in a..(b - 1)
  BY <1>3
<1>5. q + 1 \notin S
  BY <1>2, <1>4
<1>6. ~(Level(body, q + 1) <= l)
  BY <1>4, <1>5
<1> HIDE DEF S
<1>7. /\ Level(body, q) \in Int /\ Level(body, q + 1) \in Int
      /\ body[q] \in Openers => Level(body, q + 1) = Level(body, q) + 1
      /\ body[q] \in Closers => Level(body, q + 1) = Level(body, q) - 1
      /\ body[q] \notin Openers \cup Closers => Level(body, q + 1) = Level(body, q)
  BY <1>4, LevelSteps
<1>8. body[q] \in Openers /\ Level(body, q) = l
  BY <1>3, <1>6, <1>7
<1> QED BY <1>4, <1>8

-----------------------------------------------------------------------------
(* What stands in a container, up to a token                               *)

InsideTo(body, p, i) == Inside(body, p) \cap (1..i)
Paired(body, p, i) == Cardinality(InsideTo(body, p, i)) % 2 = 0
KeysTo(body, p, i) == KeysOf(body, p) \cap (1..i)
WordsTo(body, p, i) == {body[j] : j \in KeysTo(body, p, i)}

\* A token joins at most one container, and is a key of it when an even number of
\* tokens stand before it.
LEMMA InsideGrows ==
  ASSUME NEW body, NEW i \in Nat, NEW p \in Nat \ {0}
  PROVE  /\ i + 1 \in Inside(body, p) =>
              /\ InsideTo(body, p, i + 1) = InsideTo(body, p, i) \cup {i + 1}
              /\ Paired(body, p, i + 1) <=> ~Paired(body, p, i)
         /\ i + 1 \notin Inside(body, p) =>
              /\ InsideTo(body, p, i + 1) = InsideTo(body, p, i)
              /\ Paired(body, p, i + 1) <=> Paired(body, p, i)
         /\ i + 1 \in KeysOf(body, p) <=> i + 1 \in Inside(body, p) /\ Paired(body, p, i)
<1> DEFINE within == Inside(body, p)
<1>1. IsFiniteSet(InsideTo(body, p, i))
  <2>1. IsFiniteSet(1..i) /\ InsideTo(body, p, i) \in SUBSET (1..i)
    BY FS_Interval DEF InsideTo
  <2> QED BY <2>1, FS_Subset
<1>2. i + 1 \notin InsideTo(body, p, i)
  BY DEF InsideTo
<1>3. /\ Cardinality(InsideTo(body, p, i)) \in Nat
      /\ Cardinality(InsideTo(body, p, i) \cup {i + 1}) = Cardinality(InsideTo(body, p, i)) + 1
  BY <1>1, <1>2, FS_AddElement, FS_CardinalityType
<1>4. \A k \in within : k \in Nat \ {0}
  BY DEF Inside
<1>5. within \cap (1..(i + 1)) = IF i + 1 \in within THEN (within \cap (1..i)) \cup {i + 1}
                                                    ELSE within \cap (1..i)
  <2> HIDE DEF within
  <2>1. 1..(i + 1) = (1..i) \cup {i + 1}
    OBVIOUS
  <2> QED BY <2>1
<1>6. {k \in within : k < i + 1} = within \cap (1..i)
  <2> HIDE DEF within
  <2>1. \A k \in within : k < i + 1 <=> k \in 1..i
    BY <1>4
  <2> QED BY <2>1
<1> HIDE DEF within
<1>7. i + 1 \in within =>
        /\ InsideTo(body, p, i + 1) = InsideTo(body, p, i) \cup {i + 1}
        /\ Paired(body, p, i + 1) <=> ~Paired(body, p, i)
  <2> SUFFICES ASSUME i + 1 \in within
               PROVE  /\ InsideTo(body, p, i + 1) = InsideTo(body, p, i) \cup {i + 1}
                      /\ Paired(body, p, i + 1) <=> ~Paired(body, p, i)
    OBVIOUS
  <2>1. InsideTo(body, p, i + 1) = InsideTo(body, p, i) \cup {i + 1}
    BY <1>5 DEF InsideTo, within
  <2>2. Cardinality(InsideTo(body, p, i + 1)) = Cardinality(InsideTo(body, p, i)) + 1
    BY <2>1, <1>3
  <2>3. \A n \in Nat : (n + 1) % 2 = 0 <=> n % 2 # 0
    OBVIOUS
  <2> QED BY <1>3, <2>1, <2>2, <2>3 DEF Paired
<1>8. i + 1 \notin within =>
        /\ InsideTo(body, p, i + 1) = InsideTo(body, p, i)
        /\ Paired(body, p, i + 1) <=> Paired(body, p, i)
  BY <1>5 DEF InsideTo, Paired, within
<1>9. i + 1 \in KeysOf(body, p) <=> i + 1 \in within /\ Paired(body, p, i)
  BY <1>6 DEF KeysOf, Paired, InsideTo, within
<1> QED BY <1>7, <1>8, <1>9 DEF within

LEMMA KeysGrow ==
  ASSUME NEW body, NEW i \in Nat, NEW p \in Nat \ {0}
  PROVE  /\ i + 1 \in KeysOf(body, p) =>
              /\ KeysTo(body, p, i + 1) = KeysTo(body, p, i) \cup {i + 1}
              /\ WordsTo(body, p, i + 1) = WordsTo(body, p, i) \cup {body[i + 1]}
         /\ i + 1 \notin KeysOf(body, p) =>
              /\ KeysTo(body, p, i + 1) = KeysTo(body, p, i)
              /\ WordsTo(body, p, i + 1) = WordsTo(body, p, i)
<1>1. 1..(i + 1) = (1..i) \cup {i + 1}
  OBVIOUS
<1>2. /\ i + 1 \in KeysOf(body, p) => KeysTo(body, p, i + 1) = KeysTo(body, p, i) \cup {i + 1}
      /\ i + 1 \notin KeysOf(body, p) => KeysTo(body, p, i + 1) = KeysTo(body, p, i)
  BY <1>1 DEF KeysTo
<1> QED BY <1>2 DEF WordsTo

\* A container that has just been opened is empty.
LEMMA NewIsEmpty ==
  ASSUME NEW body, NEW p \in Nat \ {0}
  PROVE  Paired(body, p, p) /\ WordsTo(body, p, p) = {} /\ KeysTo(body, p, p) = {}
<1>1. InsideTo(body, p, p) = {}
  BY DEF InsideTo, Inside
<1>2. KeysTo(body, p, p) = {}
  BY DEF KeysTo, KeysOf, Inside
<1>3. Cardinality({}) = 0
  BY FS_EmptySet
<1>4. 0 % 2 = 0
  OBVIOUS
<1> QED BY <1>1, <1>2, <1>3, <1>4 DEF Paired, WordsTo

\* Nothing stands in a container after the token that closes it.
LEMMA NothingInsideAfter ==
  ASSUME NEW body, NEW p \in Nat \ {0}, NEW c \in Nat, p < c, body[p] \in Openers,
         Level(body, c + 1) = Level(body, p)
  PROVE  Inside(body, p) = InsideTo(body, p, c)
<1>1. Inside(body, p) \in SUBSET (Nat \ {0})
  BY DEF Inside
<1>2. ASSUME NEW j \in Inside(body, p), ~(j <= c) PROVE FALSE
  <2> DEFINE l == Level(body, p)
  <2>1. l \in Int
    BY LevelSteps
  <2>2. j \in Nat /\ j > c /\ p \in 1..(j - 1)
    BY <1>1, <1>2
  <2>3. Level(body, j) = l + 1 /\ Parent(body, j) = p
    BY DEF Inside
  <2> HIDE DEF l
  <2>4. Level(body, c + 1) = l /\ Level(body, c + 1) <= l
    BY <2>1 DEF l
  <2>5. c + 1 \in Nat \ {0} /\ c + 1 < j
    <3>1. c + 1 # j
      BY <2>1, <2>3, <2>4
    <3> QED BY <2>2, <3>1
  <2>6. PICK q \in (c + 1)..(j - 1) : body[q] \in Openers /\ Level(body, q) = l
    BY <2>1, <2>2, <2>3, <2>4, <2>5, LevelRises
  <2>7. Level(body, p) = Level(body, j) - 1
    BY <2>1, <2>3 DEF l
  <2>8. \A r \in (p + 1)..(j - 1) : body[r] \in Openers => Level(body, r) # Level(body, j) - 1
    BY <2>2, <2>3, <2>7, ParentIsLast
  <2>9. q \in (p + 1)..(j - 1)
    BY <2>2, <2>6
  <2> QED BY <2>1, <2>3, <2>6, <2>8, <2>9
<1>3. \A j \in Inside(body, p) : j \in 1..c
  BY <1>1, <1>2
<1> QED BY <1>3 DEF InsideTo

-----------------------------------------------------------------------------
(* The calls under way are the containers that are open                    *)

FrameSet == [next : {"key", "value", "element"}, keys : SUBSET Names]

LEMMA LastAndFront ==
  ASSUME NEW S, NEW s \in Seq(S), s # <<>>
  PROVE  /\ Len(s) \in Nat \ {0} /\ Last(s) = s[Len(s)] /\ s[Len(s)] \in S
         /\ Front(s) \in Seq(S) /\ Len(Front(s)) = Len(s) - 1
         /\ \A k \in 1..(Len(s) - 1) : Front(s)[k] = s[k]
<1>1. Len(s) \in Nat \ {0}
  OBVIOUS
<1>2. Last(s) = s[Len(s)] /\ s[Len(s)] \in S
  BY <1>1 DEF Last
<1>3. /\ Front(s) \in Seq(S) /\ Len(Front(s)) = Len(s) - 1
      /\ \A k \in 1..(Len(s) - 1) : Front(s)[k] = s[k]
  <2> DEFINE n == Len(s) - 1
  <2>1. n \in 0..Len(s) /\ \A k \in 1..n : s[k] \in S
    BY <1>1
  <2>2. Front(s) = SubSeq(s, 1, n)
    BY DEF Front
  <2> HIDE DEF n
  <2>3. SubSeq(s, 1, n) = [k \in 1..n |-> s[k]]
    BY <2>1
  <2>4. Front(s) \in Seq(S) /\ Len(Front(s)) = n
    BY <2>1, <2>2, <2>3
  <2> QED BY <2>2, <2>3, <2>4 DEF n
<1> QED BY <1>1, <1>2, <1>3

LEMMA ReplaceLast ==
  ASSUME NEW S, NEW s \in Seq(S), s # <<>>, NEW x \in S
  PROVE  /\ Append(Front(s), x) \in Seq(S) /\ Len(Append(Front(s), x)) = Len(s)
         /\ Append(Front(s), x)[Len(s)] = x /\ Append(Front(s), x) # <<>>
         /\ \A k \in 1..(Len(s) - 1) : Append(Front(s), x)[k] = s[k]
<1>1. /\ Len(s) \in Nat \ {0} /\ Front(s) \in Seq(S) /\ Len(Front(s)) = Len(s) - 1
      /\ \A k \in 1..(Len(s) - 1) : Front(s)[k] = s[k]
  BY LastAndFront
<1> QED BY <1>1

\* Token p opened the container of the k-th call, which has not closed by token i.
IsOpen(body, i, p, k) ==
  /\ p \in 1..i /\ body[p] \in Openers /\ Level(body, p) = k - 1
  /\ \A q \in (p + 1)..i : body[q] \in Openers => Level(body, q) >= k

\* The call knows its container and the keys in it.
KnowsKeys(body, i, p, frame) ==
  /\ body[p] = "lbracket" => frame.next = "element"
  /\ body[p] = "lbrace" => frame.next \in {"key", "value"} /\ frame.keys = WordsTo(body, p, i)

\* The call has the value it asked for.
Settled(body, i, p, frame) ==
  body[p] = "lbrace" => frame.next = "value" /\ Paired(body, p, i)

\* The call asks for a token.
Asking(body, i, p, frame) ==
  body[p] = "lbrace" => (frame.next = "key" <=> Paired(body, p, i))

Nested(body, i, frames, pos) ==
  /\ frames \in Seq(FrameSet) /\ pos \in Seq(Nat \ {0}) /\ Len(pos) = Len(frames)
  /\ \A k \in 1..Len(pos) : IsOpen(body, i, pos[k], k) /\ KnowsKeys(body, i, pos[k], frames[k])
  /\ \A k \in 1..(Len(pos) - 1) : Settled(body, i, pos[k], frames[k])
  /\ \A p \in 1..i : body[p] = "lbrace" /\ (\A k \in 1..Len(pos) : pos[k] # p) => Paired(body, p, i)

Waits(body, i, frames, pos) ==
  /\ Nested(body, i, frames, pos)
  /\ Level(body, i + 1) = Len(frames)
  /\ frames # <<>> => Asking(body, i, pos[Len(pos)], frames[Len(pos)])

HasValue(body, i, frames, pos) ==
  /\ Nested(body, i, frames, pos)
  /\ frames # <<>> => Settled(body, i, pos[Len(pos)], frames[Len(pos)])

\* The next token stands in the container of the last call.
LEMMA NextIsInLast ==
  ASSUME NEW body \in Seq(Tokens), NEW i \in Nat, i + 1 \in 1..Len(body), NEW frames, NEW pos,
         Waits(body, i, frames, pos), frames # <<>>
  PROVE  /\ pos[Len(pos)] \in 1..i /\ body[pos[Len(pos)]] \in Openers
         /\ Level(body, pos[Len(pos)]) = Len(frames) - 1 /\ Level(body, i + 1) = Len(frames)
         /\ Len(frames) \in Nat \ {0} /\ Len(pos) = Len(frames)
         /\ Parent(body, i + 1) = pos[Len(pos)]
         /\ \A q \in 1..i : i + 1 \in Inside(body, q) <=> body[i + 1] \notin Closers /\ q = pos[Len(pos)]
<1> DEFINE n == Len(pos)
           top == pos[n]
<1>1. n \in Nat \ {0} /\ n = Len(frames) /\ Level(body, i + 1) = n
  BY DEF Waits, Nested
<1>2. IsOpen(body, i, top, n)
  BY <1>1 DEF Waits, Nested
<1> HIDE DEF n, top
<1>3. /\ top \in 1..i /\ body[top] \in Openers /\ Level(body, top) = n - 1
      /\ \A q \in (top + 1)..i : body[q] \in Openers => Level(body, q) >= n
  BY <1>2 DEF IsOpen
<1>4. /\ i + 1 \in Nat /\ top \in 1..((i + 1) - 1) /\ Level(body, top) = Level(body, i + 1) - 1
      /\ \A q \in (top + 1)..((i + 1) - 1) : body[q] \in Openers => Level(body, q) # Level(body, i + 1) - 1
  <2>1. (i + 1) - 1 = i
    OBVIOUS
  <2>2. \A q \in (top + 1)..i : q \in Nat \ {0}
    BY <1>3
  <2>3. \A q \in Nat \ {0} : Level(body, q) \in Int
    BY LevelSteps
  <2>4. ASSUME NEW q \in (top + 1)..i, body[q] \in Openers PROVE Level(body, q) # Level(body, i + 1) - 1
    BY <1>1, <1>3, <2>2, <2>3, <2>4
  <2> QED BY <1>1, <1>3, <2>1, <2>4
<1>5. Parent(body, i + 1) = top
  BY <1>3, <1>4, ParentIs
<1>6. ASSUME NEW q \in 1..i
      PROVE  i + 1 \in Inside(body, q) <=> body[i + 1] \notin Closers /\ q = top
  <2>1. i + 1 \in (q + 1)..Len(body)
    OBVIOUS
  <2>2. i + 1 \in Inside(body, q) <=>
          body[i + 1] \notin Closers /\ Level(body, i + 1) = Level(body, q) + 1 /\ Parent(body, i + 1) = q
    BY <2>1 DEF Inside
  <2>3. q = top => Level(body, i + 1) = Level(body, q) + 1
    BY <1>1, <1>3
  <2> QED BY <1>5, <2>2, <2>3
<1> QED BY <1>1, <1>3, <1>5, <1>6 DEF top, n

\* A token that may join the container of token top changes nothing for the others.
LEMMA OthersStay ==
  ASSUME NEW body \in Seq(Tokens), NEW i \in Nat, i + 1 \in 1..Len(body), NEW frames, NEW pos,
         Nested(body, i, frames, pos), NEW top,
         \A q \in 1..i : q # top => i + 1 \notin Inside(body, q),
         body[i + 1] \in Openers => Level(body, i + 1) >= Len(pos)
  PROVE  /\ \A k \in 1..Len(pos) :
              /\ IsOpen(body, i + 1, pos[k], k)
              /\ pos[k] # top =>
                   /\ KnowsKeys(body, i + 1, pos[k], frames[k])
                   /\ Settled(body, i, pos[k], frames[k]) => Settled(body, i + 1, pos[k], frames[k])
         /\ \A p \in 1..(i + 1) : body[p] = "lbrace" /\ p # top /\ (\A k \in 1..Len(pos) : pos[k] # p)
              => Paired(body, p, i + 1)
<1>1. /\ Len(pos) \in Nat
      /\ \A k \in 1..Len(pos) : IsOpen(body, i, pos[k], k) /\ KnowsKeys(body, i, pos[k], frames[k])
      /\ \A p \in 1..i : body[p] = "lbrace" /\ (\A k \in 1..Len(pos) : pos[k] # p) => Paired(body, p, i)
  BY DEF Nested
<1>2. ASSUME NEW q \in 1..i, q # top
      PROVE  /\ Paired(body, q, i + 1) <=> Paired(body, q, i)
             /\ WordsTo(body, q, i + 1) = WordsTo(body, q, i)
  <2>1. q \in Nat \ {0} /\ i + 1 \notin Inside(body, q)
    BY <1>2
  <2>2. i + 1 \notin KeysOf(body, q)
    BY <2>1 DEF KeysOf
  <2>3. Paired(body, q, i + 1) <=> Paired(body, q, i)
    BY <2>1, InsideGrows
  <2> QED BY <2>1, <2>2, <2>3, KeysGrow
<1>3. ASSUME NEW k \in 1..Len(pos)
      PROVE  /\ IsOpen(body, i + 1, pos[k], k)
             /\ pos[k] # top =>
                  /\ KnowsKeys(body, i + 1, pos[k], frames[k])
                  /\ Settled(body, i, pos[k], frames[k]) => Settled(body, i + 1, pos[k], frames[k])
  <2> DEFINE p == pos[k]
  <2>1. /\ p \in 1..i /\ body[p] \in Openers /\ Level(body, p) = k - 1
        /\ \A q \in (p + 1)..i : body[q] \in Openers => Level(body, q) >= k
    BY <1>1 DEF IsOpen
  <2>2. KnowsKeys(body, i, p, frames[k])
    BY <1>1
  <2> HIDE DEF p
  <2>3. Level(body, i + 1) \in Int
    BY LevelSteps
  <2>4. body[i + 1] \in Openers => Level(body, i + 1) >= k
    BY <1>1, <2>3
  <2>5. \A q \in (p + 1)..(i + 1) : q \in (p + 1)..i \/ q = i + 1
    BY <2>1
  <2>6. p \in 1..(i + 1)
    BY <2>1
  <2>7. IsOpen(body, i + 1, p, k)
    BY <2>1, <2>4, <2>5, <2>6 DEF IsOpen
  <2>8. p # top => /\ KnowsKeys(body, i + 1, p, frames[k])
                   /\ Settled(body, i, p, frames[k]) => Settled(body, i + 1, p, frames[k])
    BY <1>2, <2>1, <2>2 DEF KnowsKeys, Settled
  <2> QED BY <2>7, <2>8 DEF p
<1>4. ASSUME NEW p \in 1..(i + 1), body[p] = "lbrace", p # top, \A k \in 1..Len(pos) : pos[k] # p
      PROVE  Paired(body, p, i + 1)
  <2>1. CASE p = i + 1
    BY <2>1, NewIsEmpty
  <2>2. CASE p # i + 1
    <3>1. p \in 1..i
      BY <2>2
    <3> QED BY <3>1, <1>1, <1>2, <1>4
  <2> QED BY <2>1, <2>2
<1> QED BY <1>3, <1>4

\* Reading a value, which is one more token in the last container and no key of it.
LEMMA TakesValue ==
  ASSUME NEW body \in Seq(Tokens), NEW i \in Nat, i + 1 \in 1..Len(body), NEW frames, NEW pos,
         Waits(body, i, frames, pos), body[i + 1] \notin Closers, frames = <<>> => i = 0,
         frames # <<>> => frames[Len(pos)].next # "key"
  PROVE  /\ HasValue(body, i + 1, frames, pos)
         /\ \A q \in 1..i : body[q] = "lbrace" => i + 1 \notin KeysOf(body, q)
         /\ ~IsKey(body, i + 1)
<1>1. CASE frames = <<>>
  <2>1. i = 0 /\ Len(pos) = 0 /\ Nested(body, i, frames, pos)
    BY <1>1 DEF Waits, Nested
  <2>2. \A q \in 1..i : q # i + 1 => i + 1 \notin Inside(body, q)
    BY <2>1
  <2>3. body[i + 1] \in Openers => Level(body, i + 1) >= Len(pos)
    BY <2>1, FirstLevel
  <2>4. \A p \in 1..(i + 1) : body[p] = "lbrace" => Paired(body, p, i + 1)
    BY <2>1, NewIsEmpty
  <2>5. Nested(body, i + 1, frames, pos)
    <3>1. \A k \in 1..Len(pos) : FALSE
      BY <2>1
    <3>2. \A k \in 1..(Len(pos) - 1) : FALSE
      BY <2>1
    <3> QED BY <2>1, <2>4, <3>1, <3>2 DEF Nested
  <2> QED BY <1>1, <2>1, <2>5 DEF HasValue, IsKey
<1>2. CASE frames # <<>>
  <2> DEFINE n == Len(pos)
             top == pos[n]
  <2>1. /\ top \in 1..i /\ body[top] \in Openers /\ Level(body, top) = n - 1 /\ Level(body, i + 1) = n
        /\ n \in Nat \ {0} /\ n = Len(frames) /\ Parent(body, i + 1) = top
        /\ \A q \in 1..i : i + 1 \in Inside(body, q) <=> q = top
    BY <1>2, NextIsInLast
  <2>2. /\ Nested(body, i, frames, pos) /\ frames \in Seq(FrameSet) /\ pos \in Seq(Nat \ {0})
        /\ \A k \in 1..n : IsOpen(body, i, pos[k], k)
        /\ \A k \in 1..(n - 1) : Settled(body, i, pos[k], frames[k])
        /\ KnowsKeys(body, i, top, frames[n]) /\ Asking(body, i, top, frames[n])
    BY <1>2, <2>1 DEF Waits, Nested
  <2> HIDE DEF n, top
  <2>3. \A k \in 1..(n - 1) : pos[k] # top
    <3> SUFFICES ASSUME NEW k \in 1..(n - 1) PROVE pos[k] # top
      OBVIOUS
    <3>1. k \in 1..n /\ k # n
      BY <2>1
    <3>2. Level(body, pos[k]) = k - 1
      BY <2>2, <3>1 DEF IsOpen
    <3> QED BY <2>1, <3>1, <3>2
  <2>4. frames[n].next # "key"
    BY <1>2 DEF n
  <2>5. body[top] = "lbrace" => frames[n].next = "value" /\ ~Paired(body, top, i)
    BY <2>2, <2>4 DEF KnowsKeys, Asking
  <2>6. top \in Nat \ {0} /\ i + 1 \in Inside(body, top)
    BY <2>1
  <2>7. body[top] = "lbrace" => i + 1 \notin KeysOf(body, top) /\ Paired(body, top, i + 1)
    BY <2>5, <2>6, InsideGrows
  <2>8. KnowsKeys(body, i + 1, top, frames[n]) /\ Settled(body, i + 1, top, frames[n])
    <3>1. body[top] = "lbrace" => WordsTo(body, top, i + 1) = WordsTo(body, top, i)
      BY <2>6, <2>7, KeysGrow
    <3> QED BY <3>1, <2>2, <2>5, <2>7 DEF KnowsKeys, Settled
  <2>9. /\ \A k \in 1..n :
             /\ IsOpen(body, i + 1, pos[k], k)
             /\ pos[k] # top =>
                  /\ KnowsKeys(body, i + 1, pos[k], frames[k])
                  /\ Settled(body, i, pos[k], frames[k]) => Settled(body, i + 1, pos[k], frames[k])
        /\ \A p \in 1..(i + 1) : body[p] = "lbrace" /\ p # top /\ (\A k \in 1..n : pos[k] # p)
             => Paired(body, p, i + 1)
    <3>1. \A q \in 1..i : q # top => i + 1 \notin Inside(body, q)
      BY <2>1
    <3>2. body[i + 1] \in Openers => Level(body, i + 1) >= Len(pos)
      BY <2>1 DEF n
    <3> QED BY <2>2, <3>1, <3>2, OthersStay DEF n
  <2>10. \A k \in 1..n : k \in 1..(n - 1) \/ pos[k] = top
    BY <2>1 DEF top
  <2>11. \A k \in 1..n : IsOpen(body, i + 1, pos[k], k) /\ KnowsKeys(body, i + 1, pos[k], frames[k])
    <3> SUFFICES ASSUME NEW k \in 1..n PROVE IsOpen(body, i + 1, pos[k], k) /\ KnowsKeys(body, i + 1, pos[k], frames[k])
      OBVIOUS
    <3>1. CASE k = n
      BY <2>1, <2>8, <2>9, <3>1 DEF top
    <3>2. CASE k # n
      BY <2>1, <2>3, <2>9, <3>2
    <3> QED BY <3>1, <3>2
  <2>12. \A k \in 1..(n - 1) : Settled(body, i + 1, pos[k], frames[k])
    BY <2>1, <2>2, <2>3, <2>9
  <2>13. \A p \in 1..(i + 1) : body[p] = "lbrace" /\ (\A k \in 1..n : pos[k] # p) => Paired(body, p, i + 1)
    BY <2>1, <2>9 DEF top
  <2>14. HasValue(body, i + 1, frames, pos)
    BY <2>1, <2>2, <2>8, <2>11, <2>12, <2>13 DEF HasValue, Nested, n, top
  <2>15. \A q \in 1..i : body[q] = "lbrace" => i + 1 \notin KeysOf(body, q)
    BY <2>1, <2>7 DEF KeysOf
  <2>16. ~IsKey(body, i + 1)
    BY <2>1, <2>7 DEF IsKey
  <2> QED BY <2>14, <2>15, <2>16
<1> QED BY <1>1, <1>2

\* The value just read opens a container.
LEMMA Descends ==
  ASSUME NEW body \in Seq(Tokens), NEW i \in 1..Len(body), NEW frames, NEW pos,
         HasValue(body, i, frames, pos), body[i] \in Openers, Level(body, i) = Len(frames),
         NEW frame \in FrameSet, frame.keys = {},
         frame.next = IF body[i] = "lbrace" THEN "key" ELSE "element"
  PROVE  Waits(body, i, Append(frames, frame), Append(pos, i))
<1> DEFINE n == Len(pos)
           calls == Append(frames, frame)
           at == Append(pos, i)
<1>1. /\ frames \in Seq(FrameSet) /\ pos \in Seq(Nat \ {0}) /\ n = Len(frames) /\ n \in Nat
      /\ \A k \in 1..n : IsOpen(body, i, pos[k], k) /\ KnowsKeys(body, i, pos[k], frames[k])
      /\ \A p \in 1..i : body[p] = "lbrace" /\ (\A k \in 1..n : pos[k] # p) => Paired(body, p, i)
  BY DEF HasValue, Nested
<1>2. \A k \in 1..n : Settled(body, i, pos[k], frames[k])
  <2>1. \A k \in 1..(n - 1) : Settled(body, i, pos[k], frames[k])
    BY DEF HasValue, Nested
  <2>2. n > 0 => Settled(body, i, pos[n], frames[n])
    BY <1>1 DEF HasValue
  <2> HIDE DEF n
  <2> QED BY <1>1, <2>1, <2>2
<1>3. /\ calls \in Seq(FrameSet) /\ at \in Seq(Nat \ {0}) /\ Len(at) = n + 1 /\ Len(calls) = n + 1
      /\ at[n + 1] = i /\ calls[n + 1] = frame /\ calls # <<>>
      /\ \A k \in 1..n : at[k] = pos[k] /\ calls[k] = frames[k]
  <2>1. i \in Nat \ {0}
    OBVIOUS
  <2>2. /\ calls \in Seq(FrameSet) /\ Len(calls) = n + 1 /\ calls[n + 1] = frame /\ calls # <<>>
        /\ \A k \in 1..n : calls[k] = frames[k]
    BY <1>1
  <2>3. /\ at \in Seq(Nat \ {0}) /\ Len(at) = n + 1 /\ at[n + 1] = i
        /\ \A k \in 1..n : at[k] = pos[k]
    BY <1>1, <2>1
  <2> HIDE DEF n, calls, at
  <2> QED BY <2>2, <2>3
<1> HIDE DEF n, calls, at
<1>4. i \in Nat \ {0} /\ Level(body, i) = n
  BY <1>1
<1>5. IsOpen(body, i, i, n + 1) /\ Paired(body, i, i) /\ WordsTo(body, i, i) = {}
  BY <1>1, <1>4, NewIsEmpty DEF IsOpen
<1>6. body[i] = "lbrace" \/ body[i] = "lbracket"
  BY DEF Openers
<1>7. KnowsKeys(body, i, i, frame) /\ Asking(body, i, i, frame)
  BY <1>5, <1>6 DEF KnowsKeys, Asking
<1>8. \A k \in 1..(n + 1) : IsOpen(body, i, at[k], k) /\ KnowsKeys(body, i, at[k], calls[k])
  <2> SUFFICES ASSUME NEW k \in 1..(n + 1) PROVE IsOpen(body, i, at[k], k) /\ KnowsKeys(body, i, at[k], calls[k])
    OBVIOUS
  <2>1. CASE k = n + 1
    BY <1>3, <1>5, <1>7, <2>1
  <2>2. CASE k # n + 1
    <3>1. k \in 1..n
      BY <1>1, <2>2
    <3> QED BY <1>1, <1>3, <3>1
  <2> QED BY <2>1, <2>2
<1>9. \A k \in 1..((n + 1) - 1) : Settled(body, i, at[k], calls[k])
  <2>1. (n + 1) - 1 = n
    BY <1>1
  <2> QED BY <1>2, <1>3, <2>1
<1>10. \A p \in 1..i : body[p] = "lbrace" /\ (\A k \in 1..(n + 1) : at[k] # p) => Paired(body, p, i)
  <2>1. \A k \in 1..n : k \in 1..(n + 1)
    BY <1>1
  <2> QED BY <1>1, <1>3, <2>1
<1>11. Level(body, i + 1) = n + 1
  BY <1>4, LevelSteps
<1> QED BY <1>3, <1>7, <1>8, <1>9, <1>10, <1>11 DEF Waits, Nested, calls, at

\* A call that has its value asks for the next key, or for the next element.
LEMMA ComesBack ==
  ASSUME NEW body \in Seq(Tokens), NEW i \in Nat, NEW frames, NEW pos,
         HasValue(body, i, frames, pos), Level(body, i + 1) = Len(frames), frames # <<>>
  PROVE  LET next == IF Last(frames).next = "value" THEN "key" ELSE Last(frames).next
         IN  Waits(body, i, Append(Front(frames), Frame(next, Last(frames).keys)), pos)
<1> DEFINE n == Len(pos)
           top == pos[n]
           next == IF Last(frames).next = "value" THEN "key" ELSE Last(frames).next
           frame == Frame(next, Last(frames).keys)
           calls == Append(Front(frames), frame)
<1>1. /\ frames \in Seq(FrameSet) /\ pos \in Seq(Nat \ {0}) /\ n = Len(frames)
      /\ \A k \in 1..n : IsOpen(body, i, pos[k], k) /\ KnowsKeys(body, i, pos[k], frames[k])
      /\ \A k \in 1..(n - 1) : Settled(body, i, pos[k], frames[k])
      /\ \A p \in 1..i : body[p] = "lbrace" /\ (\A k \in 1..n : pos[k] # p) => Paired(body, p, i)
      /\ Settled(body, i, top, frames[n])
  BY DEF HasValue, Nested
<1>2. n \in Nat \ {0} /\ Last(frames) = frames[n] /\ frames[n] \in FrameSet
  BY <1>1, LastAndFront
<1>3. /\ frame \in FrameSet /\ frame.keys = frames[n].keys
      /\ frame.next = IF frames[n].next = "value" THEN "key" ELSE frames[n].next
  BY <1>2 DEF Frame, FrameSet
<1> HIDE DEF n, top, next, frame
<1>4. /\ calls \in Seq(FrameSet) /\ Len(calls) = n /\ calls[n] = frame /\ calls # <<>>
      /\ \A k \in 1..(n - 1) : calls[k] = frames[k]
  <2>1. frames \in Seq(FrameSet) /\ frame \in FrameSet
    BY <1>1, <1>3
  <2>2. /\ Append(Front(frames), frame) \in Seq(FrameSet)
        /\ Len(Append(Front(frames), frame)) = Len(frames)
        /\ Append(Front(frames), frame)[Len(frames)] = frame /\ Append(Front(frames), frame) # <<>>
        /\ \A k \in 1..(Len(frames) - 1) : Append(Front(frames), frame)[k] = frames[k]
    BY <2>1, ReplaceLast
  <2> QED BY <1>1, <2>2
<1> HIDE DEF calls
<1>5. KnowsKeys(body, i, top, frames[n]) /\ body[top] \in Openers
  BY <1>1, <1>2 DEF IsOpen, top
<1>6. KnowsKeys(body, i, top, frame) /\ Asking(body, i, top, frame)
  BY <1>1, <1>3, <1>5 DEF KnowsKeys, Asking, Settled, Openers
<1>7. \A k \in 1..n : IsOpen(body, i, pos[k], k) /\ KnowsKeys(body, i, pos[k], calls[k])
  <2> SUFFICES ASSUME NEW k \in 1..n PROVE IsOpen(body, i, pos[k], k) /\ KnowsKeys(body, i, pos[k], calls[k])
    OBVIOUS
  <2>1. CASE k = n
    BY <1>1, <1>4, <1>6, <2>1 DEF top
  <2>2. CASE k # n
    <3>1. k \in 1..(n - 1)
      BY <1>2, <2>2
    <3> QED BY <1>1, <1>4, <3>1
  <2> QED BY <2>1, <2>2
<1>8. \A k \in 1..(n - 1) : Settled(body, i, pos[k], calls[k])
  BY <1>1, <1>4
<1>9. Waits(body, i, calls, pos)
  BY <1>1, <1>4, <1>6, <1>7, <1>8 DEF Waits, Nested, n, top
<1> QED BY <1>9 DEF calls, frame, next

\* The last container closes, and the call before has its value.
LEMMA Ends ==
  ASSUME NEW body \in Seq(Tokens), NEW i \in Nat, i + 1 \in 1..Len(body), NEW frames, NEW pos,
         Waits(body, i, frames, pos), body[i + 1] \in Closers, frames # <<>>,
         frames[Len(pos)].next # "value"
  PROVE  /\ HasValue(body, i + 1, Front(frames), Front(pos))
         /\ Level(body, i + 2) = Len(Front(frames)) /\ Len(Front(frames)) = Len(frames) - 1
<1> DEFINE n == Len(pos)
           top == pos[n]
           calls == Front(frames)
           at == Front(pos)
<1>1. /\ Nested(body, i, frames, pos) /\ frames \in Seq(FrameSet) /\ pos \in Seq(Nat \ {0}) /\ n = Len(frames)
      /\ \A k \in 1..n : IsOpen(body, i, pos[k], k) /\ KnowsKeys(body, i, pos[k], frames[k])
      /\ \A k \in 1..(n - 1) : Settled(body, i, pos[k], frames[k])
      /\ Asking(body, i, top, frames[n]) /\ Level(body, i + 1) = n
  BY DEF Waits, Nested
<1>2. n \in Nat \ {0} /\ pos # <<>>
  BY <1>1
<1>3. /\ calls \in Seq(FrameSet) /\ Len(calls) = n - 1
      /\ \A k \in 1..(n - 1) : calls[k] = frames[k]
  BY <1>1, LastAndFront
<1>4. /\ at \in Seq(Nat \ {0}) /\ Len(at) = n - 1
      /\ \A k \in 1..(n - 1) : at[k] = pos[k]
  BY <1>1, <1>2, LastAndFront
<1> HIDE DEF n, top, calls, at
<1>5. \A q \in 1..i : i + 1 \notin Inside(body, q)
  BY DEF Inside
<1>6. body[i + 1] \notin Openers
  BY DEF Openers, Closers
<1>7. /\ \A k \in 1..n :
           /\ IsOpen(body, i + 1, pos[k], k)
           /\ pos[k] # 0 =>
                /\ KnowsKeys(body, i + 1, pos[k], frames[k])
                /\ Settled(body, i, pos[k], frames[k]) => Settled(body, i + 1, pos[k], frames[k])
      /\ \A p \in 1..(i + 1) : body[p] = "lbrace" /\ p # 0 /\ (\A k \in 1..n : pos[k] # p)
           => Paired(body, p, i + 1)
  BY <1>1, <1>5, <1>6, OthersStay DEF n
<1>8. \A k \in 1..n : pos[k] # 0
  BY <1>1 DEF n
<1>9. \A k \in 1..(n - 1) : k \in 1..n
  BY <1>2
<1>10. \A k \in 1..(n - 1) : /\ IsOpen(body, i + 1, at[k], k) /\ KnowsKeys(body, i + 1, at[k], calls[k])
                             /\ Settled(body, i + 1, at[k], calls[k])
  BY <1>1, <1>3, <1>4, <1>7, <1>8, <1>9
<1>11. body[top] = "lbrace" => Paired(body, top, i + 1)
  <2>1. KnowsKeys(body, i, top, frames[n]) /\ frames[n].next # "value" /\ IsOpen(body, i, top, n)
    BY <1>1, <1>2 DEF top, n
  <2>2. body[top] = "lbrace" => Paired(body, top, i)
    BY <1>1, <2>1 DEF KnowsKeys, Asking
  <2>3. top \in Nat \ {0} /\ i + 1 \notin Inside(body, top)
    BY <1>5, <2>1 DEF IsOpen
  <2> QED BY <2>2, <2>3, InsideGrows
<1>12. \A p \in 1..(i + 1) : body[p] = "lbrace" /\ (\A k \in 1..(n - 1) : at[k] # p) => Paired(body, p, i + 1)
  <2> SUFFICES ASSUME NEW p \in 1..(i + 1), body[p] = "lbrace", \A k \in 1..(n - 1) : at[k] # p
               PROVE  Paired(body, p, i + 1)
    OBVIOUS
  <2>1. CASE p = top
    BY <1>11, <2>1
  <2>2. CASE p # top
    <3>1. ASSUME NEW k \in 1..n PROVE pos[k] # p
      <4>1. CASE k = n
        BY <2>2, <4>1 DEF top
      <4>2. CASE k # n
        <5>1. k \in 1..(n - 1)
          BY <1>2, <4>2
        <5> QED BY <5>1, <1>4
      <4> QED BY <4>1, <4>2
    <3>2. p # 0
      OBVIOUS
    <3> QED BY <1>7, <3>1, <3>2
  <2> QED BY <2>1, <2>2
<1>13. \A k \in 1..((n - 1) - 1) : k \in 1..(n - 1)
  BY <1>2
<1>14. Nested(body, i + 1, calls, at)
  BY <1>3, <1>4, <1>10, <1>12, <1>13 DEF Nested
<1>15. calls # <<>> => n - 1 \in 1..(n - 1)
  BY <1>2, <1>3
<1>16. HasValue(body, i + 1, calls, at)
  BY <1>4, <1>10, <1>14, <1>15 DEF HasValue
<1>17. Level(body, i + 2) = n - 1
  <2>1. i + 1 \in Nat \ {0} /\ (i + 1) + 1 = i + 2
    OBVIOUS
  <2>2. Level(body, (i + 1) + 1) = Level(body, i + 1) - 1
    BY <2>1, LevelSteps
  <2> QED BY <1>1, <2>1, <2>2
<1> QED BY <1>1, <1>3, <1>16, <1>17 DEF calls, at

\* Reading a key.
LEMMA TakesKey ==
  ASSUME NEW body \in Seq(Tokens), NEW i \in Nat, i + 1 \in 1..Len(body), NEW frames, NEW pos,
         Waits(body, i, frames, pos), body[i + 1] \in Names, frames # <<>>,
         Last(frames).next = "key"
  PROVE  Waits(body, i + 1, Append(Front(frames), Frame("value", Last(frames).keys \cup {body[i + 1]})), pos)
<1> DEFINE n == Len(pos)
           top == pos[n]
           frame == Frame("value", Last(frames).keys \cup {body[i + 1]})
           calls == Append(Front(frames), frame)
<1>1. /\ Nested(body, i, frames, pos) /\ frames \in Seq(FrameSet) /\ pos \in Seq(Nat \ {0}) /\ n = Len(frames)
      /\ \A k \in 1..n : IsOpen(body, i, pos[k], k) /\ KnowsKeys(body, i, pos[k], frames[k])
      /\ \A k \in 1..(n - 1) : Settled(body, i, pos[k], frames[k])
      /\ Asking(body, i, top, frames[n]) /\ Level(body, i + 1) = n
  BY DEF Waits, Nested
<1>2. n \in Nat \ {0} /\ Last(frames) = frames[n] /\ frames[n] \in FrameSet
  BY <1>1, LastAndFront
<1>3. frame \in FrameSet /\ frame.next = "value" /\ frame.keys = frames[n].keys \cup {body[i + 1]}
  BY <1>2 DEF Frame, FrameSet
<1> HIDE DEF frame
<1>4. /\ calls \in Seq(FrameSet) /\ Len(calls) = n /\ calls[n] = frame /\ calls # <<>>
      /\ \A k \in 1..(n - 1) : calls[k] = frames[k]
  <2>1. frames \in Seq(FrameSet) /\ frame \in FrameSet
    BY <1>1, <1>3
  <2>2. /\ Append(Front(frames), frame) \in Seq(FrameSet)
        /\ Len(Append(Front(frames), frame)) = Len(frames)
        /\ Append(Front(frames), frame)[Len(frames)] = frame /\ Append(Front(frames), frame) # <<>>
        /\ \A k \in 1..(Len(frames) - 1) : Append(Front(frames), frame)[k] = frames[k]
    BY <2>1, ReplaceLast
  <2> QED BY <1>1, <2>2
<1>5. /\ top \in 1..i /\ body[top] \in Openers /\ Level(body, top) = n - 1
      /\ \A q \in 1..i : i + 1 \in Inside(body, q) <=> body[i + 1] \notin Closers /\ q = top
  BY <1>1, NextIsInLast
<1> HIDE DEF n, top, calls
<1>6. body[i + 1] \notin Openers /\ body[i + 1] \notin Closers
  BY StrictJsonAssumption
<1>7. top \in Nat \ {0} /\ i + 1 \in Inside(body, top)
  BY <1>5, <1>6
<1>8. KnowsKeys(body, i, top, frames[n]) /\ frames[n].next = "key"
  BY <1>1, <1>2 DEF top
<1>9. body[top] = "lbrace" /\ Paired(body, top, i)
  BY <1>1, <1>5, <1>8 DEF KnowsKeys, Asking, Openers
<1>10. i + 1 \in KeysOf(body, top) /\ ~Paired(body, top, i + 1)
  BY <1>7, <1>9, InsideGrows
<1>11. WordsTo(body, top, i + 1) = WordsTo(body, top, i) \cup {body[i + 1]}
  BY <1>7, <1>10, KeysGrow
<1>12. KnowsKeys(body, i + 1, top, frame) /\ Asking(body, i + 1, top, frame)
  BY <1>3, <1>8, <1>9, <1>10, <1>11 DEF KnowsKeys, Asking
<1>13. /\ \A k \in 1..n :
            /\ IsOpen(body, i + 1, pos[k], k)
            /\ pos[k] # top =>
                 /\ KnowsKeys(body, i + 1, pos[k], frames[k])
                 /\ Settled(body, i, pos[k], frames[k]) => Settled(body, i + 1, pos[k], frames[k])
       /\ \A p \in 1..(i + 1) : body[p] = "lbrace" /\ p # top /\ (\A k \in 1..n : pos[k] # p)
            => Paired(body, p, i + 1)
  <2>1. \A q \in 1..i : q # top => i + 1 \notin Inside(body, q)
    BY <1>5
  <2> QED BY <1>1, <1>6, <2>1, OthersStay DEF n
<1>14. \A k \in 1..(n - 1) : k \in 1..n /\ pos[k] # top
  <2> SUFFICES ASSUME NEW k \in 1..(n - 1) PROVE k \in 1..n /\ pos[k] # top
    OBVIOUS
  <2>1. k \in 1..n /\ k # n
    BY <1>2
  <2>2. Level(body, pos[k]) = k - 1
    BY <1>1, <2>1 DEF IsOpen
  <2> QED BY <1>2, <1>5, <2>1, <2>2
<1>15. \A k \in 1..n : IsOpen(body, i + 1, pos[k], k) /\ KnowsKeys(body, i + 1, pos[k], calls[k])
  <2> SUFFICES ASSUME NEW k \in 1..n PROVE IsOpen(body, i + 1, pos[k], k) /\ KnowsKeys(body, i + 1, pos[k], calls[k])
    OBVIOUS
  <2>1. CASE k = n
    BY <1>4, <1>12, <1>13, <2>1 DEF top
  <2>2. CASE k # n
    <3>1. k \in 1..(n - 1)
      BY <1>2, <2>2
    <3> QED BY <1>4, <1>13, <1>14, <3>1
  <2> QED BY <2>1, <2>2
<1>16. \A k \in 1..(n - 1) : Settled(body, i + 1, pos[k], calls[k])
  BY <1>1, <1>4, <1>13, <1>14
<1>17. \A p \in 1..(i + 1) : body[p] = "lbrace" /\ (\A k \in 1..n : pos[k] # p) => Paired(body, p, i + 1)
  BY <1>2, <1>13 DEF top
<1>18. Level(body, (i + 1) + 1) = n
  <2>1. i + 1 \in Nat \ {0}
    OBVIOUS
  <2> QED BY <1>1, <1>6, <2>1, LevelSteps
<1>19. Waits(body, i + 1, calls, pos)
  BY <1>1, <1>4, <1>12, <1>15, <1>16, <1>17, <1>18 DEF Waits, Nested, n, top
<1> QED BY <1>19 DEF calls, frame

-----------------------------------------------------------------------------
(* What the walk knows of the tokens it has read                           *)

Fits(body, j) == body[j] = (IF body[Parent(body, j)] = "lbrace" THEN "rbrace" ELSE "rbracket")

Distinct(body, p, i) ==
  /\ \A j \in KeysTo(body, p, i) : body[j] \in Names
  /\ \A j, k \in KeysTo(body, p, i) : body[j] = body[k] => j = k

GoodTo(body, i) ==
  /\ \A j \in 2..i : Level(body, j) > 0
  /\ \A j \in 1..i : body[j] \in Closers => Fits(body, j)
  /\ \A j \in 1..i : body[j] \notin Closers => IsKey(body, j) \/ Level(body, j) < MaxDepth
  /\ \A p \in 1..i : body[p] = "lbrace" => Distinct(body, p, i)

OneObject(body) == Balanced(body) /\ Unambiguous(body) /\ Shallow(body)

WalkIs(body, i, walk) ==
  \/ walk.at = "refused" /\ ~OneObject(body)
  \/ /\ walk.at = "inside" /\ GoodTo(body, i) /\ (walk.frames = <<>> <=> i = 0)
     /\ \E pos : Waits(body, i, walk.frames, pos)
  \/ walk.at = "end" /\ GoodTo(body, i) /\ i > 0 /\ \E pos : Waits(body, i, <<>>, pos)

LEMMA GoodGrows ==
  ASSUME NEW body \in Seq(Tokens), NEW i \in Nat, GoodTo(body, i),
         i # 0 => Level(body, i + 1) > 0,
         body[i + 1] \in Closers => Fits(body, i + 1),
         body[i + 1] \notin Closers => IsKey(body, i + 1) \/ Level(body, i + 1) < MaxDepth,
         \A p \in 1..i : body[p] = "lbrace" /\ i + 1 \in KeysOf(body, p)
           => body[i + 1] \in Names /\ body[i + 1] \notin WordsTo(body, p, i)
  PROVE  GoodTo(body, i + 1)
<1>1. \A j \in 1..(i + 1) : j \in 1..i \/ j = i + 1
  OBVIOUS
<1>2. \A j \in 2..(i + 1) : Level(body, j) > 0
  <2> SUFFICES ASSUME NEW j \in 2..(i + 1) PROVE Level(body, j) > 0
    OBVIOUS
  <2>1. j \in 2..i \/ (j = i + 1 /\ i # 0)
    OBVIOUS
  <2> QED BY <2>1 DEF GoodTo
<1>3. \A j \in 1..(i + 1) : body[j] \in Closers => Fits(body, j)
  BY <1>1 DEF GoodTo
<1>4. \A j \in 1..(i + 1) : body[j] \notin Closers => IsKey(body, j) \/ Level(body, j) < MaxDepth
  BY <1>1 DEF GoodTo
<1>5. ASSUME NEW p \in 1..(i + 1), body[p] = "lbrace"
      PROVE  Distinct(body, p, i + 1)
  <2>1. CASE p = i + 1
    <3>1. KeysTo(body, p, i + 1) = {}
      BY <2>1, NewIsEmpty
    <3> QED BY <3>1 DEF Distinct
  <2>2. CASE p # i + 1
    <3>1. p \in 1..i /\ p \in Nat \ {0}
      BY <2>2
    <3>2. Distinct(body, p, i)
      BY <1>5, <3>1 DEF GoodTo
    <3>3. CASE i + 1 \notin KeysOf(body, p)
      <4>1. KeysTo(body, p, i + 1) = KeysTo(body, p, i)
        BY <3>1, <3>3, KeysGrow
      <4> QED BY <3>2, <4>1 DEF Distinct
    <3>4. CASE i + 1 \in KeysOf(body, p)
      <4>1. KeysTo(body, p, i + 1) = KeysTo(body, p, i) \cup {i + 1}
        BY <3>1, <3>4, KeysGrow
      <4>2. body[i + 1] \in Names /\ \A j \in KeysTo(body, p, i) : body[j] # body[i + 1]
        BY <1>5, <3>1, <3>4 DEF WordsTo
      <4> QED BY <3>2, <4>1, <4>2 DEF Distinct
    <3> QED BY <3>3, <3>4
  <2> QED BY <2>1, <2>2
<1> QED BY <1>2, <1>3, <1>4, <1>5 DEF GoodTo

\* A token that closes the last container fits it, and is not read for a value.
LEMMA CloserMustFit ==
  ASSUME NEW body \in Seq(Tokens), NEW i \in Nat, i + 1 \in 1..Len(body), NEW frames, NEW pos,
         Waits(body, i, frames, pos), frames # <<>>, body[i + 1] \in Closers, OneObject(body)
  PROVE  Fits(body, i + 1) /\ frames[Len(pos)].next # "value"
<1> DEFINE n == Len(pos)
           top == pos[n]
<1>1. /\ top \in 1..i /\ body[top] \in Openers /\ Level(body, top) = Len(frames) - 1
      /\ Level(body, i + 1) = Len(frames) /\ Len(frames) \in Nat \ {0} /\ n = Len(frames)
      /\ Parent(body, i + 1) = top
      /\ \A q \in 1..i : i + 1 \in Inside(body, q) <=> body[i + 1] \notin Closers /\ q = top
  BY NextIsInLast
<1>2. KnowsKeys(body, i, top, frames[n]) /\ Asking(body, i, top, frames[n])
  BY <1>1 DEF Waits, Nested
<1> HIDE DEF n, top
<1>3. Fits(body, i + 1)
  BY DEF OneObject, Balanced, Fits
<1>4. ASSUME frames[n].next = "value" PROVE FALSE
  <2>1. body[top] = "lbrace" /\ ~Paired(body, top, i)
    BY <1>1, <1>2, <1>4 DEF KnowsKeys, Asking, Openers
  <2>2. top \in Nat \ {0} /\ i + 1 \notin Inside(body, top)
    BY <1>1
  <2>3. ~Paired(body, top, i + 1)
    BY <2>1, <2>2, InsideGrows
  <2>4. Level(body, (i + 1) + 1) = Level(body, top)
    <3>1. i + 1 \in Nat \ {0}
      OBVIOUS
    <3>2. Level(body, (i + 1) + 1) = Level(body, i + 1) - 1
      BY <3>1, LevelSteps
    <3> QED BY <1>1, <3>2
  <2>5. Inside(body, top) = InsideTo(body, top, i + 1)
    <3>1. i + 1 \in Nat /\ top < i + 1
      BY <1>1
    <3> QED BY <1>1, <2>2, <2>4, <3>1, NothingInsideAfter
  <2>6. top \in DOMAIN body
    BY <1>1
  <2> QED BY <2>1, <2>3, <2>5, <2>6 DEF OneObject, Unambiguous, Paired
<1> QED BY <1>3, <1>4 DEF n

\* A token that is read for a key is one, and is not a key already.
LEMMA KeyMustBeNew ==
  ASSUME NEW body \in Seq(Tokens), NEW i \in Nat, i + 1 \in 1..Len(body), NEW frames, NEW pos,
         Waits(body, i, frames, pos), frames # <<>>, body[i + 1] \notin Closers,
         frames[Len(pos)].next = "key"
  PROVE  /\ body[pos[Len(pos)]] = "lbrace" /\ frames[Len(pos)].keys = WordsTo(body, pos[Len(pos)], i)
         /\ \A q \in 1..i : i + 1 \in KeysOf(body, q) <=> q = pos[Len(pos)]
         /\ IsKey(body, i + 1)
         /\ OneObject(body) => body[i + 1] \in Names \ frames[Len(pos)].keys
<1> DEFINE n == Len(pos)
           top == pos[n]
<1>1. /\ top \in 1..i /\ body[top] \in Openers /\ n \in Nat \ {0} /\ n = Len(frames)
      /\ Parent(body, i + 1) = top
      /\ \A q \in 1..i : i + 1 \in Inside(body, q) <=> q = top
  BY NextIsInLast
<1>2. KnowsKeys(body, i, top, frames[n]) /\ Asking(body, i, top, frames[n])
  BY <1>1 DEF Waits, Nested
<1>3. frames[n].next = "key"
  OBVIOUS
<1> HIDE DEF n, top
<1>4. body[top] = "lbrace" /\ Paired(body, top, i) /\ frames[n].keys = WordsTo(body, top, i)
  BY <1>1, <1>2, <1>3 DEF KnowsKeys, Asking, Openers
<1>5. top \in Nat \ {0} /\ i + 1 \in Inside(body, top) /\ i + 1 # 1
  BY <1>1
<1>6. i + 1 \in KeysOf(body, top)
  BY <1>4, <1>5, InsideGrows
<1>7. \A q \in 1..i : i + 1 \in KeysOf(body, q) <=> q = top
  BY <1>1, <1>6 DEF KeysOf
<1>8. IsKey(body, i + 1)
  BY <1>1, <1>4, <1>5, <1>6 DEF IsKey
<1>9. ASSUME OneObject(body) PROVE body[i + 1] \in Names \ frames[n].keys
  <2>1. top \in DOMAIN body
    BY <1>1
  <2>2. /\ \A j \in KeysOf(body, top) : body[j] \in Names
        /\ \A j, k \in KeysOf(body, top) : body[j] = body[k] => j = k
    BY <1>4, <1>9, <2>1 DEF OneObject, Unambiguous
  <2>3. \A j \in KeysTo(body, top, i) : j \in KeysOf(body, top) /\ j # i + 1
    BY DEF KeysTo
  <2>4. body[i + 1] \notin WordsTo(body, top, i)
    BY <1>6, <2>2, <2>3 DEF WordsTo
  <2> QED BY <1>4, <1>6, <2>2, <2>4
<1> QED BY <1>4, <1>7, <1>8, <1>9 DEF n, top

-----------------------------------------------------------------------------
(* The walk after one more token                                           *)

LEMMA ReturnedIs ==
  ASSUME NEW body \in Seq(Tokens), NEW i \in Nat \ {0}, NEW frames, NEW pos,
         HasValue(body, i, frames, pos), Level(body, i + 1) = Len(frames), GoodTo(body, i)
  PROVE  WalkIs(body, i, Returned(frames))
<1>1. CASE frames = <<>>
  <2>1. Returned(frames).at = "end"
    BY <1>1 DEF Returned, Walk
  <2>2. Waits(body, i, <<>>, pos)
    BY <1>1 DEF HasValue, Waits
  <2> QED BY <2>1, <2>2 DEF WalkIs
<1>2. CASE frames # <<>>
  <2> DEFINE next == IF Last(frames).next = "value" THEN "key" ELSE Last(frames).next
             calls == Append(Front(frames), Frame(next, Last(frames).keys))
  <2>1. Waits(body, i, calls, pos)
    BY <1>2, ComesBack
  <2>2. Returned(frames) = Walk("inside", calls)
    BY <1>2 DEF Returned
  <2>3. frames \in Seq(FrameSet)
    BY DEF HasValue, Nested
  <2>4. calls # <<>>
    <3>1. Front(frames) \in Seq(FrameSet)
      BY <1>2, <2>3, LastAndFront
    <3> HIDE DEF next
    <3> QED BY <3>1
  <2> HIDE DEF calls
  <2>5. Returned(frames).at = "inside" /\ Returned(frames).frames = calls
    BY <2>2 DEF Walk
  <2> QED BY <2>1, <2>4, <2>5 DEF WalkIs
<1> QED BY <1>1, <1>2

LEMMA RefusedIs ==
  ASSUME NEW body, NEW i, ~OneObject(body)
  PROVE  WalkIs(body, i, Refused)
BY DEF WalkIs, Refused, Walk

LEMMA ValueIs ==
  ASSUME NEW body \in Seq(Tokens), NEW i \in Nat, i + 1 \in 1..Len(body), NEW frames, NEW pos,
         Waits(body, i, frames, pos), GoodTo(body, i), frames = <<>> <=> i = 0,
         frames = <<>> => body[i + 1] \notin Closers,
         frames # <<>> => frames[Len(pos)].next # "key",
         frames # <<>> /\ frames[Len(pos)].next = "element" => body[i + 1] # "rbracket"
  PROVE  WalkIs(body, i + 1, ReadValue(frames, body[i + 1]))
<1> DEFINE token == body[i + 1]
           n == Len(frames)
<1>1. /\ frames \in Seq(FrameSet) /\ n \in Nat /\ Len(pos) = n /\ Level(body, i + 1) = n
      /\ frames # <<>> => n > 0 /\ frames[n] \in FrameSet
  BY DEF Waits, Nested
<1>2. MaxDepth \in Nat \ {0}
  BY StrictJsonAssumption
<1>3. CASE token \in Closers
  <2>1. frames # <<>>
    BY <1>3
  <2>2. ASSUME OneObject(body) PROVE FALSE
    <3>1. Fits(body, i + 1) /\ frames[n].next # "value"
      BY <1>1, <1>3, <2>1, <2>2, CloserMustFit
    <3>2. frames[n].next = "element"
      BY <1>1, <2>1, <3>1 DEF FrameSet
    <3>3. body[Parent(body, i + 1)] # "lbrace"
      <4>1. /\ pos[n] \in 1..i /\ n \in 1..n /\ Parent(body, i + 1) = pos[n]
        BY <1>1, <2>1, NextIsInLast
      <4>2. KnowsKeys(body, i, pos[n], frames[n])
        BY <1>1, <4>1 DEF Waits, Nested
      <4> QED BY <3>2, <4>1, <4>2 DEF KnowsKeys
    <3>4. token = "rbracket"
      BY <3>1, <3>3 DEF Fits
    <3> QED BY <1>1, <2>1, <3>2, <3>4
  <2>3. ReadValue(frames, token) = Refused
    <3>1. token # "lbrace" /\ token # "lbracket"
      BY <1>3 DEF Closers
    <3> HIDE DEF token
    <3>2. n >= MaxDepth \/ n < MaxDepth
      BY <1>1, <1>2
    <3>3. ~(n >= MaxDepth /\ n < MaxDepth)
      BY <1>1, <1>2
    <3> QED BY <1>3, <3>1, <3>2, <3>3 DEF ReadValue
  <2> QED BY <2>2, <2>3, RefusedIs
<1>4. CASE token \notin Closers
  <2>1. /\ HasValue(body, i + 1, frames, pos)
        /\ \A q \in 1..i : body[q] = "lbrace" => i + 1 \notin KeysOf(body, q)
        /\ ~IsKey(body, i + 1)
    BY <1>4, TakesValue
  <2>2. CASE n >= MaxDepth
    <3>1. ReadValue(frames, token) = Refused
      <4>1. ~(n < MaxDepth)
        BY <1>1, <1>2, <2>2
      <4> HIDE DEF token
      <4> QED BY <2>2, <4>1 DEF ReadValue
    <3>2. i + 1 \in DOMAIN body /\ ~(Level(body, i + 1) < MaxDepth)
      BY <1>1, <1>2, <2>2
    <3>3. ~OneObject(body)
      BY <1>4, <2>1, <3>2 DEF OneObject, Shallow
    <3> QED BY <3>1, <3>3, RefusedIs
  <2>3. CASE n < MaxDepth
    <3>1. Level(body, i + 1) < MaxDepth /\ (i # 0 => Level(body, i + 1) > 0)
      BY <1>1, <2>3
    <3>2. GoodTo(body, i + 1)
      BY <1>4, <2>1, <3>1, GoodGrows
    <3>3. i + 1 \in Nat \ {0} /\ i + 1 \in 1..Len(body)
      OBVIOUS
    <3>4. ~(n >= MaxDepth)
      BY <1>1, <1>2, <2>3
    <3>5. CASE token \in Openers
      <4> DEFINE frame == IF token = "lbrace" THEN Frame("key", {}) ELSE Frame("element", {})
      <4>1. /\ frame \in FrameSet /\ frame.keys = {}
            /\ frame.next = IF token = "lbrace" THEN "key" ELSE "element"
        BY DEF Frame, FrameSet
      <4>2. ReadValue(frames, token) = Walk("inside", Append(frames, frame))
        <5>1. (token = "lbrace" /\ token # "lbracket") \/ (token = "lbracket" /\ token # "lbrace")
          BY <3>5 DEF Openers
        <5> HIDE DEF token
        <5> QED BY <1>4, <2>3, <3>4, <5>1 DEF ReadValue
      <4> HIDE DEF frame
      <4>3. Waits(body, i + 1, Append(frames, frame), Append(pos, i + 1))
        BY <1>1, <2>1, <3>3, <3>5, <4>1, Descends
      <4>4. Append(frames, frame) # <<>>
        BY <1>1, <4>1
      <4>5. ReadValue(frames, token).at = "inside" /\ ReadValue(frames, token).frames = Append(frames, frame)
        BY <4>2 DEF Walk
      <4> QED BY <3>2, <3>3, <4>3, <4>4, <4>5 DEF WalkIs
    <3>6. CASE token \notin Openers
      <4>1. ReadValue(frames, token) = Returned(frames)
        <5>1. token # "lbrace" /\ token # "lbracket"
          BY <3>6 DEF Openers
        <5> HIDE DEF token
        <5> QED BY <1>4, <2>3, <3>4, <5>1 DEF ReadValue
      <4>2. Level(body, (i + 1) + 1) = Len(frames)
        BY <1>1, <1>4, <3>3, <3>6, LevelSteps
      <4>3. WalkIs(body, i + 1, Returned(frames))
        BY <2>1, <3>2, <3>3, <4>2, ReturnedIs
      <4> QED BY <4>1, <4>3
    <3> QED BY <3>5, <3>6
  <2> QED BY <1>1, <1>2, <2>2, <2>3
<1> QED BY <1>3, <1>4

\* The walk returns from a container whose closing token fits it.
LEMMA ClosedIs ==
  ASSUME NEW body \in Seq(Tokens), NEW i \in Nat, i + 1 \in 1..Len(body), NEW frames, NEW pos,
         Waits(body, i, frames, pos), GoodTo(body, i), frames # <<>>,
         body[i + 1] \in Closers, Fits(body, i + 1), frames[Len(pos)].next # "value"
  PROVE  WalkIs(body, i + 1, Returned(Front(frames)))
<1>1. /\ HasValue(body, i + 1, Front(frames), Front(pos))
      /\ Level(body, i + 2) = Len(Front(frames))
  BY Ends
<1>2. Level(body, i + 1) > 0
  BY DEF Waits, Nested
<1>3. \A q \in 1..i : i + 1 \notin KeysOf(body, q)
  BY DEF KeysOf, Inside
<1>4. GoodTo(body, i + 1)
  BY <1>2, <1>3, GoodGrows
<1>5. i + 1 \in Nat \ {0} /\ (i + 1) + 1 = i + 2
  OBVIOUS
<1> QED BY <1>1, <1>4, <1>5, ReturnedIs

LEMMA ElementIs ==
  ASSUME NEW body \in Seq(Tokens), NEW i \in Nat, i + 1 \in 1..Len(body), NEW frames, NEW pos,
         Waits(body, i, frames, pos), GoodTo(body, i), i # 0, frames # <<>>,
         Last(frames).next = "element"
  PROVE  WalkIs(body, i + 1, ReadElement(frames, body[i + 1]))
<1> DEFINE n == Len(pos)
<1>1. /\ frames \in Seq(FrameSet) /\ n = Len(frames) /\ n \in Nat \ {0} /\ Last(frames) = frames[n]
      /\ KnowsKeys(body, i, pos[n], frames[n])
  BY LastAndFront DEF Waits, Nested, Last
<1>2. CASE body[i + 1] = "rbracket"
  <2>1. body[pos[n]] # "lbrace"
    BY <1>1 DEF KnowsKeys
  <2>2. Parent(body, i + 1) = pos[n]
    BY NextIsInLast
  <2>3. body[i + 1] \in Closers /\ Fits(body, i + 1)
    BY <1>2, <2>1, <2>2 DEF Fits, Closers
  <2>4. WalkIs(body, i + 1, Returned(Front(frames)))
    BY <1>1, <2>3, ClosedIs
  <2> QED BY <1>2, <2>4 DEF ReadElement
<1>3. CASE body[i + 1] # "rbracket"
  <2>1. WalkIs(body, i + 1, ReadValue(frames, body[i + 1]))
    BY <1>1, <1>3, ValueIs
  <2> QED BY <1>3, <2>1 DEF ReadElement
<1> QED BY <1>2, <1>3

LEMMA KeyIs ==
  ASSUME NEW body \in Seq(Tokens), NEW i \in Nat, i + 1 \in 1..Len(body), NEW frames, NEW pos,
         Waits(body, i, frames, pos), GoodTo(body, i), frames # <<>>, Last(frames).next = "key"
  PROVE  WalkIs(body, i + 1, ReadKey(frames, body[i + 1]))
<1> DEFINE n == Len(pos)
           token == body[i + 1]
           keys == Last(frames).keys
<1>1. /\ frames \in Seq(FrameSet) /\ n = Len(frames) /\ n \in Nat \ {0} /\ Last(frames) = frames[n]
      /\ KnowsKeys(body, i, pos[n], frames[n]) /\ Level(body, i + 1) = n
  BY LastAndFront DEF Waits, Nested, Last
<1>2. CASE token = "rbrace"
  <2>1. /\ pos[n] \in 1..i /\ body[pos[n]] \in Openers /\ Parent(body, i + 1) = pos[n]
    BY NextIsInLast
  <2>2. body[pos[n]] = "lbrace"
    BY <1>1, <2>1 DEF KnowsKeys, Openers
  <2>3. body[i + 1] \in Closers /\ Fits(body, i + 1)
    BY <1>2, <2>1, <2>2 DEF Fits, Closers
  <2>4. WalkIs(body, i + 1, Returned(Front(frames)))
    BY <1>1, <2>3, ClosedIs
  <2>5. "rbrace" \notin Names
    BY StrictJsonAssumption DEF Closers
  <2> QED BY <1>2, <2>4, <2>5 DEF ReadKey
<1>3. CASE token \in Names \ keys
  <2>1. token # "rbrace" /\ token \notin Closers /\ token \in Names
    BY <1>3, StrictJsonAssumption DEF Closers
  <2> DEFINE calls == Append(Front(frames), Frame("value", keys \cup {token}))
  <2>2. Waits(body, i + 1, calls, pos)
    BY <2>1, TakesKey
  <2>3. ReadKey(frames, token) = Walk("inside", calls)
    <3> HIDE DEF token
    <3> QED BY <1>3, <2>1 DEF ReadKey, Remember
  <2>4. /\ frames[n].keys = WordsTo(body, pos[n], i) /\ IsKey(body, i + 1)
        /\ \A q \in 1..i : i + 1 \in KeysOf(body, q) <=> q = pos[n]
    BY <1>1, <2>1, KeyMustBeNew
  <2>5. GoodTo(body, i + 1)
    <3>1. \A p \in 1..i : body[p] = "lbrace" /\ i + 1 \in KeysOf(body, p)
            => body[i + 1] \in Names /\ body[i + 1] \notin WordsTo(body, p, i)
      BY <1>1, <1>3, <2>4
    <3>2. Level(body, i + 1) > 0
      BY <1>1
    <3> QED BY <2>1, <2>4, <3>1, <3>2, GoodGrows
  <2>6. calls # <<>>
    <3>1. Front(frames) \in Seq(FrameSet)
      BY <1>1, LastAndFront
    <3> QED BY <3>1
  <2> HIDE DEF calls
  <2>7. ReadKey(frames, token).at = "inside" /\ ReadKey(frames, token).frames = calls
    BY <2>3 DEF Walk
  <2> QED BY <2>2, <2>5, <2>6, <2>7 DEF WalkIs
<1>4. CASE token # "rbrace" /\ token \notin Names \ keys
  <2>1. ReadKey(frames, token) = Refused
    <3> HIDE DEF token
    <3> QED BY <1>4 DEF ReadKey
  <2>2. ASSUME OneObject(body) PROVE FALSE
    <3>1. CASE token \in Closers
      <4>1. Fits(body, i + 1)
        BY <2>2, <3>1, CloserMustFit
      <4>2. body[pos[n]] \in Openers /\ Parent(body, i + 1) = pos[n]
        BY NextIsInLast
      <4> QED BY <1>1, <1>4, <4>1, <4>2 DEF Fits, KnowsKeys, Openers
    <3>2. CASE token \notin Closers
      <4>1. token \in Names \ frames[n].keys
        BY <1>1, <2>2, <3>2, KeyMustBeNew
      <4> QED BY <1>1, <1>4, <4>1
    <3> QED BY <3>1, <3>2
  <2> QED BY <2>1, <2>2, RefusedIs
<1> QED BY <1>2, <1>3, <1>4

LEMMA TokenIs ==
  ASSUME NEW body \in Seq(Tokens), body[1] = "lbrace", NEW i \in Nat, i + 1 \in 1..Len(body),
         NEW walk, WalkIs(body, i, walk)
  PROVE  WalkIs(body, i + 1, ReadToken(walk, body[i + 1]))
<1> DEFINE token == body[i + 1]
<1>1. CASE walk.at = "inside"
  <2>1. PICK pos : Waits(body, i, walk.frames, pos)
    BY <1>1 DEF WalkIs
  <2>2. GoodTo(body, i) /\ (walk.frames = <<>> <=> i = 0)
    BY <1>1 DEF WalkIs
  <2>3. CASE walk.frames = <<>>
    <3>1. ReadToken(walk, token) = ReadValue(<<>>, token)
      BY <1>1, <2>3 DEF ReadToken
    <3>2. token = "lbrace" /\ token \notin Closers
      BY <2>2, <2>3 DEF Closers
    <3>3. WalkIs(body, i + 1, ReadValue(walk.frames, token))
      BY <2>1, <2>2, <2>3, <3>2, ValueIs
    <3> QED BY <2>3, <3>1, <3>3
  <2>4. CASE walk.frames # <<>>
    <3> DEFINE frames == walk.frames
    <3>1. /\ frames \in Seq(FrameSet) /\ Last(frames) = frames[Len(pos)] /\ Last(frames) \in FrameSet
      BY <2>1, <2>4, LastAndFront DEF Waits, Nested
    <3>2. CASE Last(frames).next = "key"
      <4>1. ReadToken(walk, token) = ReadKey(frames, token)
        BY <1>1, <2>4, <3>2 DEF ReadToken
      <4> QED BY <2>1, <2>2, <2>4, <3>2, <4>1, KeyIs
    <3>3. CASE Last(frames).next = "element"
      <4>1. ReadToken(walk, token) = ReadElement(frames, token)
        BY <1>1, <2>4, <3>3 DEF ReadToken
      <4> QED BY <2>1, <2>2, <2>4, <3>3, <4>1, ElementIs
    <3>4. CASE Last(frames).next = "value"
      <4>1. ReadToken(walk, token) = ReadValue(frames, token)
        BY <1>1, <2>4, <3>4 DEF ReadToken
      <4>2. frames[Len(pos)].next = "value"
        BY <3>1, <3>4
      <4> QED BY <2>1, <2>2, <2>4, <4>1, <4>2, ValueIs
    <3>5. Last(frames).next \in {"key", "value", "element"}
      BY <3>1 DEF FrameSet
    <3> QED BY <3>2, <3>3, <3>4, <3>5
  <2> QED BY <2>3, <2>4
<1>2. CASE walk.at # "inside"
  <2>1. ReadToken(walk, token) = Refused
    BY <1>2 DEF ReadToken
  <2>2. ~OneObject(body)
    <3>1. CASE walk.at = "end"
      <4>1. i > 0 /\ Level(body, i + 1) = 0
        BY <3>1 DEF WalkIs, Waits
      <4>2. i + 1 \in 2..Len(body) /\ ~(Level(body, i + 1) > 0)
        BY <4>1
      <4> QED BY <4>2 DEF OneObject, Balanced
    <3> QED BY <1>2, <3>1 DEF WalkIs
  <2> QED BY <2>1, <2>2, RefusedIs
<1> QED BY <1>1, <1>2

WalkedTo(h, body, k) ==
  h = [i \in 0..k |-> IF i = 0 THEN Walk("inside", <<>>) ELSE ReadToken(h[i - 1], body[i])]

LEMMA WalkFollowsTokens ==
  ASSUME NEW body, Len(body) \in Nat
  PROVE  /\ Walked(body)[0] = Walk("inside", <<>>)
         /\ \A i \in 1..Len(body) : Walked(body)[i] = ReadToken(Walked(body)[i - 1], body[i])
<1> DEFINE last == Len(body)
           start == Walk("inside", <<>>)
           T == {k \in Nat : \E h : WalkedTo(h, body, k)}
           Next1(w, i) == ReadToken(w, body[i])
<1>1. 0 \in T
  <2> DEFINE h == [i \in 0..0 |-> start]
  <2>1. h = [i \in 0..0 |-> IF i = 0 THEN start ELSE Next1(h[i - 1], i)]
    <3> HIDE DEF Next1, start
    <3> QED OBVIOUS
  <2> QED BY <2>1 DEF WalkedTo
<1>2. ASSUME NEW k \in T
      PROVE  k + 1 \in T
  <2>1. PICK h : h = [i \in 0..k |-> IF i = 0 THEN start ELSE Next1(h[i - 1], i)]
    BY DEF WalkedTo
  <2> DEFINE g == [i \in 0..(k + 1) |-> IF i <= k THEN h[i] ELSE Next1(h[k], k + 1)]
             e == [i \in 0..(k + 1) |-> IF i = 0 THEN start ELSE Next1(g[i - 1], i)]
  <2> HIDE DEF Next1, start
  <2>2. k \in Nat
    OBVIOUS
  <2>3. ASSUME NEW i \in 0..(k + 1)
        PROVE  g[i] = e[i]
    <3>1. CASE i = 0
      BY <2>1, <2>2, <3>1
    <3>2. CASE i # 0 /\ i <= k
      <4>1. i \in 0..k /\ i - 1 \in 0..k /\ i - 1 \in 0..(k + 1)
        BY <2>2, <3>2
      <4>2. h[i] = Next1(h[i - 1], i)
        BY <2>1, <3>2, <4>1
      <4> QED BY <3>2, <4>1, <4>2
    <3>3. CASE i = k + 1
      <4>1. i # 0 /\ i - 1 = k /\ k \in 0..(k + 1) /\ ~(k + 1 <= k)
        BY <2>2, <3>3
      <4>2. g[k] = h[k]
        BY <2>2, <4>1
      <4> QED BY <3>3, <4>1, <4>2
    <3> QED BY <2>2, <3>1, <3>2, <3>3
  <2>4. g = [i \in 0..(k + 1) |-> g[i]] /\ e = [i \in 0..(k + 1) |-> e[i]]
    OBVIOUS
  <2> HIDE DEF g
  <2>5. g = e
    <3> HIDE DEF e
    <3> QED BY <2>3, <2>4
  <2>6. WalkedTo(g, body, k + 1)
    BY <2>5 DEF WalkedTo, Next1, start
  <2> QED BY <2>2, <2>6
<1>3. T \in SUBSET Nat /\ \A n \in T : n + 1 \in T
  BY <1>2
<1> HIDE DEF T
<1>4. T = Nat
  BY <1>1, <1>3, SetInduction, Zenon
<1>5. \E h : WalkedTo(h, body, last)
  BY <1>4 DEF T
<1>6. Walked(body) = CHOOSE h : WalkedTo(h, body, last)
  BY DEF Walked, WalkedTo
<1>7. WalkedTo(Walked(body), body, last)
  BY <1>5, <1>6, Zenon
<1> DEFINE S == Walked(body)
<1>8. S = [i \in 0..last |-> IF i = 0 THEN start ELSE Next1(S[i - 1], i)]
  BY <1>7 DEF WalkedTo
<1> HIDE DEF S, Next1, last, start
<1>9. last \in Nat
  BY DEF last
<1>10. S[0] = start /\ \A i \in 1..last : S[i] = Next1(S[i - 1], i)
  BY <1>8, <1>9
<1> QED BY <1>10 DEF S, Next1, last, start

LEMMA WalkKnows ==
  ASSUME NEW body \in Seq(Tokens), Len(body) > 0, body[1] = "lbrace"
  PROVE  WalkIs(body, Len(body), Walked(body)[Len(body)])
<1> DEFINE n == Len(body)
           T == {i \in Nat : i <= n => WalkIs(body, i, Walked(body)[i])}
<1>1. n \in Nat
  OBVIOUS
<1>2. /\ Walked(body)[0] = Walk("inside", <<>>)
      /\ \A i \in 1..n : Walked(body)[i] = ReadToken(Walked(body)[i - 1], body[i])
  BY <1>1, WalkFollowsTokens
<1> HIDE DEF n
<1>3. 0 \in T
  <2>1. GoodTo(body, 0)
    BY DEF GoodTo
  <2>2. Nested(body, 0, <<>>, <<>>)
    <3>1. <<>> \in Seq(FrameSet) /\ <<>> \in Seq(Nat \ {0}) /\ Len(<<>>) = 0
      OBVIOUS
    <3>2. (\A k \in 1..0 : FALSE) /\ (\A k \in 1..(0 - 1) : FALSE)
      OBVIOUS
    <3> QED BY <3>1, <3>2 DEF Nested
  <2>3. Level(body, 0 + 1) = Len(<<>>)
    BY FirstLevel
  <2>4. Waits(body, 0, <<>>, <<>>)
    BY <2>2, <2>3 DEF Waits
  <2>5. Walked(body)[0].at = "inside" /\ Walked(body)[0].frames = <<>>
    BY <1>2 DEF Walk
  <2>6. WalkIs(body, 0, Walked(body)[0])
    BY <2>1, <2>4, <2>5 DEF WalkIs
  <2> QED BY <2>6
<1>4. ASSUME NEW i \in T PROVE i + 1 \in T
  <2> SUFFICES ASSUME i + 1 <= n PROVE WalkIs(body, i + 1, Walked(body)[i + 1])
    OBVIOUS
  <2>1. i \in Nat /\ i + 1 \in 1..n /\ (i + 1) - 1 = i
    BY <1>1
  <2>2. WalkIs(body, i, Walked(body)[i])
    BY <1>1, <2>1
  <2>3. Walked(body)[i + 1] = ReadToken(Walked(body)[i], body[i + 1])
    BY <1>2, <2>1
  <2>4. WalkIs(body, i + 1, ReadToken(Walked(body)[i], body[i + 1]))
    BY <2>1, <2>2, TokenIs DEF n
  <2> QED BY <2>3, <2>4
<1>5. T \in SUBSET Nat /\ \A i \in T : i + 1 \in T
  BY <1>4
<1> HIDE DEF T
<1>6. T = Nat
  BY <1>3, <1>5, SetInduction, Zenon
<1> QED BY <1>1, <1>6 DEF T, n

LEMMA BodyIsAccepted ==
  ASSUME NEW body \in Seq(Tokens), Len(body) > 0, body[1] = "lbrace"
  PROVE  Walked(body)[Len(body)].at = "end" <=> OneObject(body)
<1> DEFINE n == Len(body)
           walk == Walked(body)[n]
<1>1. WalkIs(body, n, walk) /\ n \in Nat \ {0}
  BY WalkKnows
<1> HIDE DEF n, walk
<1>2. CASE walk.at = "refused"
  BY <1>1, <1>2 DEF WalkIs, n, walk
<1>3. CASE walk.at = "inside"
  <2>1. PICK pos : Waits(body, n, walk.frames, pos)
    BY <1>1, <1>3 DEF WalkIs
  <2>2. walk.frames # <<>> /\ walk.frames \in Seq(FrameSet)
    BY <1>1, <1>3, <2>1 DEF WalkIs, Waits, Nested
  <2>3. Level(body, n + 1) # 0
    BY <2>1, <2>2 DEF Waits
  <2> QED BY <1>3, <2>3 DEF OneObject, Balanced, n, walk
<1>4. CASE walk.at = "end"
  <2>1. PICK pos : Waits(body, n, <<>>, pos)
    BY <1>1, <1>4 DEF WalkIs
  <2>2. GoodTo(body, n) /\ DOMAIN body = 1..n
    BY <1>1, <1>4 DEF WalkIs, n
  <2>3. Level(body, n + 1) = 0 /\ Len(pos) = 0
    BY <2>1 DEF Waits, Nested
  <2>4. \A p \in 1..n : body[p] = "lbrace" => Paired(body, p, n)
    BY <2>1, <2>3 DEF Waits, Nested
  <2>5. \A p \in 1..n : InsideTo(body, p, n) = Inside(body, p) /\ KeysTo(body, p, n) = KeysOf(body, p)
    <3> SUFFICES ASSUME NEW p \in 1..n
                 PROVE  InsideTo(body, p, n) = Inside(body, p) /\ KeysTo(body, p, n) = KeysOf(body, p)
      OBVIOUS
    <3>1. \A j \in Inside(body, p) : j \in 1..n
      BY DEF Inside, n
    <3>2. \A j \in KeysOf(body, p) : j \in Inside(body, p)
      BY DEF KeysOf
    <3> QED BY <3>1, <3>2 DEF InsideTo, KeysTo
  <2>6. Balanced(body)
    BY <2>2, <2>3 DEF GoodTo, Balanced, Fits, n
  <2>7. Unambiguous(body)
    BY <2>2, <2>4, <2>5 DEF GoodTo, Unambiguous, Paired, Distinct
  <2>8. Shallow(body)
    BY <2>2 DEF GoodTo, Shallow
  <2> QED BY <1>4, <2>6, <2>7, <2>8 DEF OneObject, n, walk
<1>5. walk.at \in {"refused", "inside", "end"}
  BY <1>1 DEF WalkIs
<1> QED BY <1>2, <1>3, <1>4, <1>5

\* The walk lets a body through exactly when it is one unambiguous object.
LEMMA WalkPassesTheUnambiguous ==
  PassesTheUnambiguous
<1> SUFFICES ASSUME NEW body \in Seq(Tokens)
             PROVE  Validated(body) <=>
                      /\ body # <<>> /\ Head(body) = "lbrace"
                      /\ Balanced(body) /\ Unambiguous(body) /\ Shallow(body)
  <2>1. BoundedSeq(Tokens, MaxTokens) \subseteq Seq(Tokens)
    <3> SUFFICES ASSUME NEW m \in 0..MaxTokens, NEW body \in [1..m -> Tokens]
                 PROVE  body \in Seq(Tokens)
      BY DEF BoundedSeq, SeqOf
    <3>1. m \in Nat
      BY StrictJsonAssumption
    <3> QED BY <3>1
  <2> QED BY <2>1 DEF PassesTheUnambiguous
<1>1. body # <<>> => Len(body) > 0 /\ Head(body) = body[1]
  OBVIOUS
<1>2. body # <<>> /\ Head(body) = "lbrace" =>
        (Walked(body)[Len(body)].at = "end" <=> Balanced(body) /\ Unambiguous(body) /\ Shallow(body))
  BY <1>1, BodyIsAccepted DEF OneObject
<1> QED BY <1>2 DEF Validated

\* Whatever the depth allowed and however long a body, the walk passes it exactly when it
\* is one object, all of whose containers close, that repeats no key at any level and is
\* no deeper than allowed.
THEOREM BodiesAreWalked == Spec => []WalkIsExact
<1>1. WalkIsExact
  BY WalkPassesTheUnambiguous DEF WalkIsExact
<1> QED BY <1>1, PTL
=============================================================================
