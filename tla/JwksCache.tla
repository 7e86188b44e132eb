------------------------------- MODULE JwksCache -------------------------------
(***************************************************************************)
(* The verification of Identity JWTs: internal/auth/identity_jwt.go.       *)
(*                                                                         *)
(* The issuer rotates its keys as docs/telemetry-v2.md asks: a new key is  *)
(* published, made active, and the old one removed when no token of it can *)
(* be alive.  Verifiers of one collector share a cache of the published    *)
(* keys under a mutex that is held over the fetch.  A fetch may fail, or   *)
(* take up to Timeout, and answers with what was published somewhen in     *)
(* between.  An unknown key id forces a fetch.                             *)
(***************************************************************************)
EXTENDS Integers, FiniteSets

CONSTANTS
  Verifiers,
  LastKey,       \* bound: the issuer's keys are 0..LastKey
  CacheTTL,      \* a cached document is used unasked for so long,
  MaxStale,      \* and when the fetch fails for so long
  Timeout,       \* of the HTTP client
  Lifetime,      \* of a token
  Skew,          \* how early an iat may be
  IssuerOffset,  \* the issuer's clock against the collector's
  MaxTime,       \* bound: time stops here
  Nobody

Keys == 0..LastKey
Forged == LastKey + 1   \* a key id the issuer never had
Times == 0..MaxTime
Ago == -(Lifetime + Skew)   \* so long ago that no token is left from before
Never == Ago - 1

ASSUME JwksAssumption ==
  /\ {LastKey, CacheTTL, MaxStale, Timeout, Lifetime, Skew, MaxTime} \subseteq Nat
  /\ IssuerOffset \in -Skew..Skew
  /\ CacheTTL <= MaxStale /\ MaxStale > 0
  /\ Nobody \notin Verifiers

VARIABLES
  now,
  active,    \* the key the issuer signs with
  issuer,    \* [Keys -> [born, stop, gone]]: published, no longer active, removed
  cache,     \* keys, fetchedAt; readAt is history: when the issuer answered
  mutex,     \* the verifier that fetches
  document,  \* [Verifiers -> its request: since when, and when and with what answered]
  check,     \* [Verifiers -> the token being verified, and the last verdict]
  outage     \* fetches may fail

vars == <<now, active, issuer, cache, mutex, document, check, outage>>

Published == {k \in Keys : issuer[k].born # Never /\ issuer[k].gone = Never}

-----------------------------------------------------------------------------
(* The issuer                                                              *)

Publish ==
  /\ active < LastKey /\ issuer[active + 1].born = Never
  /\ issuer' = [issuer EXCEPT ![active + 1].born = now]
  /\ UNCHANGED <<now, active, cache, mutex, document, check, outage>>

Activate ==
  /\ active < LastKey /\ active + 1 \in Published
  /\ active' = active + 1 /\ issuer' = [issuer EXCEPT ![active].stop = now]
  /\ UNCHANGED <<now, cache, mutex, document, check, outage>>

Remove(k) ==
  /\ k \in Published /\ k < active
  /\ now > issuer[k].stop + Lifetime + Skew
  /\ issuer' = [issuer EXCEPT ![k].gone = now]
  /\ UNCHANGED <<now, active, cache, mutex, document, check, outage>>

\* When the youngest token of a key that has been active expires: of all its tokens
\* the one that can be presented longest.
Expiry(k) == (IF k = active THEN now ELSE issuer[k].stop) + IssuerOffset + Lifetime

-----------------------------------------------------------------------------
(* Verify                                                                  *)

Idle == [step |-> "idle", kid |-> Forged, expires |-> 0, verdict |-> "none"]
NoDocument == [since |-> Never, readAt |-> Never, keys |-> {}]

Present(v, k) ==
  /\ check[v].step = "idle"
  /\ check' = [check EXCEPT ![v] = [Idle EXCEPT
       !.step = "cached", !.kid = k, !.expires = IF k = Forged THEN 0 ELSE Expiry(k)]]
  /\ UNCHANGED <<now, active, issuer, cache, mutex, document, outage>>

Done(v, verdict) == [check EXCEPT ![v] = [Idle EXCEPT !.verdict = verdict]]

\* Fault: the keys of the cache are all there is.
WithKeysOfCache(v, keys) ==
  LET c == check[v]
  IN  check' = IF c.kid \in keys
               THEN Done(v, IF c.expires > now /\ c.expires - Lifetime <= now + Skew
                            THEN "accepted" ELSE "refused")
               ELSE Done(v, "unknown")

\* What Verify does with the keys it is given.
WithKeys(v, keys) ==
  LET c == check[v]
  IN  check' = IF c.kid \in keys
               THEN Done(v, IF c.expires > now /\ c.expires - Lifetime <= now + Skew
                            THEN "accepted" ELSE "refused")
               ELSE IF c.step = "cached" THEN [check EXCEPT ![v].step = "forced"]
               ELSE Done(v, "unknown")

-----------------------------------------------------------------------------
(* Keys                                                                    *)

Age == now - cache.fetchedAt
Hit(v) == check[v].step = "cached" /\ cache.keys # {} /\ Age < CacheTTL

UseCache(v) ==
  /\ mutex = Nobody /\ Hit(v)
  /\ WithKeys(v, cache.keys)
  /\ UNCHANGED <<now, active, issuer, cache, mutex, document, outage>>

\* Fault: the mutex is not held over the request.
StartFetchUnlocked(v) ==
  /\ document[v] = NoDocument /\ check[v].step # "idle" /\ ~Hit(v)
  /\ document' = [document EXCEPT ![v].since = now]
  /\ UNCHANGED <<now, active, issuer, cache, mutex, check, outage>>

StartFetch(v) ==
  /\ mutex = Nobody /\ check[v].step # "idle" /\ ~Hit(v)
  /\ mutex' = v /\ document' = [document EXCEPT ![v].since = now]
  /\ UNCHANGED <<now, active, issuer, cache, check, outage>>

Fetching(v) == document[v].since # Never

IssuerAnswers(v) ==
  /\ Fetching(v) /\ document[v].readAt = Never
  /\ document' = [document EXCEPT ![v].readAt = now, ![v].keys = Published]
  /\ UNCHANGED <<now, active, issuer, cache, mutex, check, outage>>

Unlock(v) == mutex' = Nobody /\ document' = [document EXCEPT ![v] = NoDocument]

FinishFetch(v) ==
  /\ Fetching(v) /\ document[v].readAt # Never
  /\ cache' = [keys |-> document[v].keys, fetchedAt |-> now, readAt |-> document[v].readAt]
  /\ WithKeys(v, document[v].keys) /\ Unlock(v)
  /\ UNCHANGED <<now, active, issuer, outage>>

Fallback(v) == check[v].step = "cached" /\ cache.keys # {} /\ Age < MaxStale

\* Fault: the age of the cache counts from the last attempt.
FailFetchTouching(v) ==
  /\ outage /\ Fetching(v) /\ Unlock(v)
  /\ IF Fallback(v)
     THEN WithKeys(v, cache.keys) /\ cache' = [cache EXCEPT !.fetchedAt = now]
     ELSE check' = Done(v, "failed") /\ UNCHANGED cache
  /\ UNCHANGED <<now, active, issuer, outage>>

\* No connection, a status, a document that is not valid, or the timeout.
FailFetch(v) ==
  /\ outage /\ Fetching(v) /\ Unlock(v)
  /\ IF Fallback(v) THEN WithKeys(v, cache.keys) ELSE check' = Done(v, "failed")
  /\ UNCHANGED <<now, active, issuer, cache, outage>>

Tick ==
  /\ now < MaxTime /\ \A v \in Verifiers : Fetching(v) => now < document[v].since + Timeout
  /\ now' = now + 1
  /\ UNCHANGED <<active, issuer, cache, mutex, document, check, outage>>

-----------------------------------------------------------------------------
\* The collector starts with no cache, before a rotation or within one.
Init ==
  /\ now = 0 /\ active \in {0, 1} \cap Keys /\ outage = TRUE
  /\ issuer = [k \in Keys |-> [born |-> IF k <= active THEN Ago ELSE Never,
                              stop |-> IF k < active THEN Ago ELSE Never, gone |-> Never]]
  /\ cache = [keys |-> {}, fetchedAt |-> 0, readAt |-> 0]
  /\ mutex = Nobody /\ document = [v \in Verifiers |-> NoDocument]
  /\ check = [v \in Verifiers |-> Idle]

Verify(v) ==
  UseCache(v) \/ StartFetch(v) \/ IssuerAnswers(v) \/ FinishFetch(v) \/ FailFetch(v)

Next ==
  \/ \E v \in Verifiers : Verify(v) \/ \E k \in 0..active \cup {Forged} : Present(v, k)
  \/ Publish \/ Activate \/ \E k \in Keys : Remove(k)
  \/ Tick

Spec == Init /\ [][Next]_vars

\* The issuer's server comes back for good; the scheduler serves every verifier that
\* waits for the mutex (sync.Mutex hands over to a waiter that starves).
Recover == outage /\ outage' = FALSE
           /\ UNCHANGED <<now, active, issuer, cache, mutex, document, check>>
Fairness ==
  /\ WF_vars(Recover)
  /\ \A v \in Verifiers : SF_vars(Verify(v))

FairSpec == Init /\ [][Next \/ Recover]_vars /\ Fairness

-----------------------------------------------------------------------------
(* Properties                                                              *)

\* The variables have their types; a mutex that is held has a request under way.
TypeOK ==
  /\ now \in Times /\ active \in Keys /\ outage \in BOOLEAN
  /\ cache.keys \subseteq Keys /\ cache.fetchedAt \in 0..now /\ cache.readAt \in 0..cache.fetchedAt
  /\ mutex \in Verifiers \cup {Nobody}
  /\ \A v \in Verifiers :
       /\ check[v].step \in {"idle", "cached", "forced"}
       /\ check[v].kid \in Keys \cup {Forged}
       /\ check[v].verdict \in {"none", "accepted", "refused", "unknown", "failed"}
       /\ Fetching(v) <=> mutex = v
       /\ mutex = v => check[v].step # "idle"

Verdicts(v) == IF check[v].step # "idle" THEN check'[v].verdict ELSE "none"

\* A signature of a key the issuer has removed verifies for MaxStale and one request
\* at most, however many fetches fail and whoever forces one in between
\* (identity_jwt.go:186).
RemovedKeyFades ==
  [][\A v \in Verifiers : Verdicts(v) \in {"accepted", "refused"} =>
       LET gone == issuer[check[v].kid].gone
       IN  gone # Never => now < gone + Timeout + MaxStale]_vars

\* A live token of the issuer's is never taken for one with an unknown key, in any
\* phase of a rotation: only an issuer that cannot be asked keeps it out
\* (identity_jwt.go:92, docs/telemetry-v2.md:23).
LiveTokenIsKnown ==
  [][\A v \in Verifiers :
       Verdicts(v) = "unknown" => check[v].kid = Forged \/ check[v].expires <= now]_vars

\* The cache never goes back to an earlier document: a slow answer does not undo a
\* forced fetch (the mutex held over the request, identity_jwt.go:187).
CacheMovesForward == [][cache'.readAt >= cache.readAt]_vars

\* The cached keys were the published ones at readAt, at most a Timeout before the
\* time that is stored with them.
CacheIsADocument ==
  cache.keys # {} =>
    /\ cache.fetchedAt - cache.readAt <= Timeout
    /\ \A k \in cache.keys : issuer[k].born # Never /\ issuer[k].born <= cache.readAt
    /\ \A k \in cache.keys : issuer[k].gone = Never \/ issuer[k].gone >= cache.readAt

\* The state of the cache at all times: one document, as old as it is taken to be,
\* and a fetch under way exactly while the mutex is held.
Inv == TypeOK /\ CacheIsADocument

\* Once the issuer answers again, every verification that has begun ends.
VerificationEnds ==
  \A v \in Verifiers : check[v].step # "idle" ~> check[v].step = "idle"

\* The mutex held over the request lets fetches neither overtake nor block each other.
FetchesAreSerial == CacheMovesForward /\ VerificationEnds
=============================================================================
