--------------------------- MODULE JwksCache_proofs ---------------------------
(***************************************************************************)
(* Proofs about JwksCache for any number of verifiers and rotations, any   *)
(* lifetimes, skews and clock offsets within the skew.  The mutex makes    *)
(* the cache the last of a sequence of documents, each of which was what   *)
(* the issuer published at one moment of its fetch.                        *)
(***************************************************************************)
EXTENDS JwksCache, TLAPS

Steps == {"idle", "cached", "forced"}
Verdict == {"none", "accepted", "refused", "unknown", "failed"}
Issuer == [born : Int, stop : Int, gone : Int]
Document == [since : Int, readAt : Int, keys : SUBSET Keys]
Check == [step : Steps, kid : Keys \cup {Forged}, expires : Int, verdict : Verdict]
Cache == [keys : SUBSET Keys, fetchedAt : Nat, readAt : Nat]

Typed ==
  /\ now \in Times /\ active \in Keys /\ outage \in BOOLEAN
  /\ issuer \in [Keys -> Issuer]
  /\ cache \in Cache
  /\ mutex \in Verifiers \cup {Nobody}
  /\ document \in [Verifiers -> Document]
  /\ check \in [Verifiers -> Check]

\* A key is published before it is active and removed when its tokens are dead.
IssuerRotates ==
  \A k \in Keys :
    /\ k <= active => issuer[k].born # Never
    /\ issuer[k].born <= now /\ issuer[k].stop <= now
    /\ issuer[k].gone # Never =>
         /\ k < active /\ issuer[k].gone <= now
         /\ issuer[k].gone > issuer[k].stop + Lifetime + Skew

\* What the issuer published at a time: every key of it was there then.
WasPublished(keys, at) ==
  \A k \in keys : /\ issuer[k].born # Never /\ issuer[k].born <= at
                  /\ issuer[k].gone = Never \/ issuer[k].gone >= at

CacheIsOld ==
  /\ cache.readAt <= cache.fetchedAt /\ cache.fetchedAt <= now
  /\ cache.fetchedAt - cache.readAt <= Timeout
  /\ WasPublished(cache.keys, cache.readAt)

\* A token under verification is one of the issuer's, or forged.
TokenIsIssued(v) ==
  check[v].step # "idle" =>
    LET c == check[v]
    IN  /\ c.verdict = "none"
        /\ c.kid # Forged =>
             /\ c.kid <= active
             /\ c.expires <= now + IssuerOffset + Lifetime
             /\ c.kid < active => c.expires <= issuer[c.kid].stop + IssuerOffset + Lifetime

\* The request of the verifier that holds the mutex was begun after the cache was
\* filled, and its answer, if there is one, after the token was presented.
FetchIsLater(v) ==
  LET d == document[v]
  IN  /\ Fetching(v) <=> mutex = v
      /\ mutex = v =>
           /\ check[v].step # "idle"
           /\ d.since \in Nat /\ cache.readAt <= d.since
           /\ d.since <= now /\ now <= d.since + Timeout
      /\ d.readAt # Never =>
           /\ mutex = v
           /\ d.since <= d.readAt /\ d.readAt <= now
           /\ WasPublished(d.keys, d.readAt)
           /\ \/ check[v].kid \in d.keys \cup {Forged}
              \/ issuer[check[v].kid].gone # Never

IInv ==
  /\ Typed /\ IssuerRotates /\ CacheIsOld
  /\ \A v \in Verifiers : TokenIsIssued(v) /\ FetchIsLater(v)

-----------------------------------------------------------------------------
(* Steps in general                                                        *)

LEMMA Numbers ==
  /\ LastKey \in Nat /\ CacheTTL \in Nat /\ MaxStale \in Nat /\ Timeout \in Nat
  /\ Lifetime \in Nat /\ Skew \in Nat /\ MaxTime \in Nat /\ IssuerOffset \in Int
  /\ IssuerOffset <= Skew /\ CacheTTL <= MaxStale /\ MaxStale > 0
  /\ Ago \in Int /\ Ago <= 0 /\ Never \in Int /\ Never < 0
  /\ Keys \subseteq Nat /\ Forged \notin Keys /\ Forged \in Nat
BY JwksAssumption DEF Ago, Never, Keys, Forged

LEMMA TimeIsNat == ASSUME Typed PROVE now \in Nat
BY Numbers DEF Typed, Times

LEMMA Parts ==
  /\ IInv => Typed /\ IssuerRotates /\ CacheIsOld
             /\ \A v \in Verifiers : TokenIsIssued(v) /\ FetchIsLater(v)
  /\ Typed' /\ IssuerRotates' /\ CacheIsOld'
       /\ (\A v \in Verifiers : TokenIsIssued(v)') /\ (\A v \in Verifiers : FetchIsLater(v)')
     => IInv'
BY DEF IInv

\* What the verifiers do changes nothing at the issuer.
LEMMA IssuerStays ==
  ASSUME IssuerRotates, UNCHANGED <<now, active, issuer>>
  PROVE  /\ IssuerRotates'
         /\ \A keys, at : WasPublished(keys, at)' <=> WasPublished(keys, at)
BY DEF IssuerRotates, WasPublished

LEMMA CacheStays ==
  ASSUME CacheIsOld, UNCHANGED <<now, issuer, cache>>
  PROVE  CacheIsOld'
BY DEF CacheIsOld, WasPublished

\* A verification that ends, or goes on to a forced fetch, claims nothing new.
LEMMA TokensStay ==
  ASSUME IInv, UNCHANGED <<now, active, issuer>>,
         \A u \in Verifiers :
           \/ check'[u] = check[u]
           \/ check'[u].step = "idle"
           \/ check[u].step # "idle" /\ check'[u] = [check[u] EXCEPT !.step = "forced"]
  PROVE  \A u \in Verifiers : TokenIsIssued(u)'
<1>. SUFFICES ASSUME NEW u \in Verifiers, check'[u].step # "idle"
              PROVE  TokenIsIssued(u)'
  BY DEF TokenIsIssued
<1>1. check[u] \in Check
  BY DEF IInv, Typed
<1>2. /\ check[u].step # "idle" /\ check'[u].verdict = check[u].verdict
      /\ check'[u].kid = check[u].kid /\ check'[u].expires = check[u].expires
  BY <1>1 DEF Check
<1>3. TokenIsIssued(u)
  BY DEF IInv
<1> QED BY <1>2, <1>3 DEF TokenIsIssued

\* Who does not hold the mutex has no request.
LEMMA NoFetch ==
  ASSUME IInv, NEW u \in Verifiers, mutex # u
  PROVE  ~Fetching(u) /\ document[u].readAt = Never
BY DEF IInv, FetchIsLater

LEMMA WithKeysEnds ==
  ASSUME IInv, NEW v \in Verifiers, check[v].step # "idle", NEW keys, WithKeys(v, keys)
  PROVE  /\ check' \in [Verifiers -> Check]
         /\ \A u \in Verifiers \ {v} : check'[u] = check[u]
         /\ \/ check'[v].step = "idle"
            \/ check'[v] = [check[v] EXCEPT !.step = "forced"]
         /\ check'[v].verdict \in {"accepted", "refused"} => check[v].kid \in keys
         /\ check'[v].verdict = "unknown" => check[v].step = "forced" /\ check[v].kid \notin keys
<1>1. check \in [Verifiers -> Check] /\ check[v].verdict = "none" /\ check[v].step \in Steps
  BY DEF IInv, Typed, TokenIsIssued, Check
<1> DEFINE forced == [check[v] EXCEPT !.step = "forced"]
           done(verdict) == [Idle EXCEPT !.verdict = verdict]
<1>2. /\ forced \in Check /\ forced.verdict = "none"
      /\ \A verdict \in Verdict :
           done(verdict) \in Check /\ done(verdict).step = "idle" /\ done(verdict).verdict = verdict
  BY <1>1, Numbers DEF Check, Idle, Steps, Verdict
<1>3. \/ /\ check[v].kid \in keys
         /\ \E verdict \in {"accepted", "refused"} : check' = [check EXCEPT ![v] = done(verdict)]
      \/ /\ check[v].kid \notin keys /\ check[v].step = "cached"
         /\ check' = [check EXCEPT ![v] = forced]
      \/ /\ check[v].kid \notin keys /\ check[v].step # "cached"
         /\ check' = [check EXCEPT ![v] = done("unknown")]
  BY DEF WithKeys, Done
<1> HIDE DEF forced, done
<1>4. PICK new \in Check :
        /\ check' = [check EXCEPT ![v] = new]
        /\ new.step = "idle" \/ new = forced
        /\ new.verdict \in {"accepted", "refused"} => check[v].kid \in keys
        /\ new.verdict = "unknown" => check[v].step # "cached" /\ check[v].kid \notin keys
  BY <1>2, <1>3 DEF Verdict
<1> QED BY <1>1, <1>4 DEF forced, Steps

-----------------------------------------------------------------------------
(* The issuer                                                              *)

LEMMA IssuerStep ==
  ASSUME IInv, UNCHANGED <<now, cache, mutex, document, check, outage>>,
         issuer' \in [Keys -> Issuer], active' \in Keys, IssuerRotates', active' >= active,
         \A k \in Keys :
           /\ issuer[k].born # Never => issuer'[k].born = issuer[k].born
           /\ issuer'[k].gone # issuer[k].gone => issuer'[k].gone = now
           /\ k < active => issuer'[k].stop = issuer[k].stop
           /\ k >= active /\ k < active' => issuer'[k].stop = now
  PROVE  IInv'
<1>1. Typed /\ CacheIsOld /\ now \in Nat /\ active \in Nat /\ active' \in Nat
  BY TimeIsNat, Numbers DEF IInv, Typed
<1>2. ASSUME NEW keys \in SUBSET Keys, NEW at \in Int, at <= now, WasPublished(keys, at)
      PROVE  WasPublished(keys, at)'
  <2>. SUFFICES ASSUME NEW k \in keys
                PROVE  /\ issuer'[k].born # Never /\ issuer'[k].born <= at
                       /\ issuer'[k].gone = Never \/ issuer'[k].gone >= at
    BY DEF WasPublished
  <2> QED BY <1>1, <1>2 DEF WasPublished
<1>3. CacheIsOld'
  <2>1. cache.keys \in SUBSET Keys /\ cache.readAt \in Int /\ cache.readAt <= now
    BY <1>1 DEF Typed, Cache, CacheIsOld
  <2>2. WasPublished(cache.keys, cache.readAt)'
    <3>1. PICK keys \in SUBSET Keys, at \in Int : keys = cache.keys /\ at = cache.readAt
      BY <2>1
    <3>2. WasPublished(keys, at)'
      BY <1>1, <1>2, <2>1, <3>1 DEF CacheIsOld
    <3> QED BY <3>1, <3>2 DEF WasPublished
  <2> QED BY <1>1, <2>2 DEF CacheIsOld
<1>4. ASSUME NEW v \in Verifiers
      PROVE  TokenIsIssued(v)'
  <2>. SUFFICES ASSUME check[v].step # "idle"
                PROVE  TokenIsIssued(v)'
    BY DEF TokenIsIssued
  <2> DEFINE c == check[v]
  <2>1. c \in Check /\ TokenIsIssued(v)
    BY <1>1 DEF IInv, Typed
  <2>2. c.kid # Forged => c.kid \in Keys /\ c.kid \in Nat
    BY <2>1, Numbers DEF Check
  <2>3. c.expires \in Int
    BY <2>1 DEF Check
  <2>4. c.verdict = "none"
    BY <2>1 DEF TokenIsIssued
  <2>5. ASSUME c.kid # Forged
        PROVE  /\ c.kid <= active'
               /\ c.expires <= now + IssuerOffset + Lifetime
               /\ c.kid < active' => c.expires <= issuer'[c.kid].stop + IssuerOffset + Lifetime
    <3>1. /\ c.kid <= active /\ c.expires <= now + IssuerOffset + Lifetime
          /\ c.kid < active => c.expires <= issuer[c.kid].stop + IssuerOffset + Lifetime
      BY <2>1, <2>5 DEF TokenIsIssued
    <3> QED BY <1>1, <2>2, <2>5, <3>1
  <2> QED BY <2>4, <2>5 DEF TokenIsIssued
<1>5. ASSUME NEW v \in Verifiers
      PROVE  FetchIsLater(v)'
  <2> DEFINE d == document[v]
  <2>1. d \in Document /\ FetchIsLater(v) /\ check[v].kid \in Keys \cup {Forged}
    BY <1>1 DEF IInv, Typed, Check
  <2>2. d.readAt # Never => WasPublished(d.keys, d.readAt)'
    <3>. SUFFICES ASSUME d.readAt # Never
                  PROVE  WasPublished(d.keys, d.readAt)'
      OBVIOUS
    <3>1. PICK keys \in SUBSET Keys, at \in Int : keys = d.keys /\ at = d.readAt
      BY <2>1 DEF Document
    <3>2. WasPublished(keys, at)'
      BY <1>2, <2>1, <3>1 DEF FetchIsLater
    <3> QED BY <3>1, <3>2 DEF WasPublished
  <2>3. \A k \in Keys : issuer[k].gone # Never => issuer'[k].gone # Never
    BY <1>1, Numbers
  <2> QED BY <2>1, <2>2, <2>3 DEF FetchIsLater, Fetching
<1> QED BY <1>1, <1>3, <1>4, <1>5, Parts DEF Typed

LEMMA PublishKeepsIInv ==
  ASSUME IInv, Publish
  PROVE  IInv'
<1>1. Typed /\ IssuerRotates /\ now \in Nat /\ active \in Nat /\ active + 1 \in Keys
  BY TimeIsNat, Numbers DEF IInv, Typed, Publish, Keys
<1>2. PICK n \in Keys : n = active + 1
  BY <1>1
<1>3. /\ issuer[n].born = Never /\ issuer' = [issuer EXCEPT ![n] = [@ EXCEPT !.born = now]]
      /\ UNCHANGED <<now, active, cache, mutex, document, check, outage>>
  BY <1>2 DEF Publish
<1>4. /\ issuer' \in [Keys -> Issuer]
      /\ \A k \in Keys : /\ issuer'[k].born = IF k = n THEN now ELSE issuer[k].born
                         /\ issuer'[k].stop = issuer[k].stop /\ issuer'[k].gone = issuer[k].gone
  BY <1>1, <1>3 DEF Typed, Issuer
<1>5. IssuerRotates'
  BY <1>1, <1>3, <1>4, Numbers DEF IssuerRotates
<1>6. \A k \in Keys : k \in Nat
  BY Numbers
<1>7. active' = active /\ active \in Keys
  BY <1>1, <1>3 DEF Typed
<1> QED BY <1>1, <1>3, <1>4, <1>5, <1>6, <1>7, IssuerStep

LEMMA ActivateKeepsIInv ==
  ASSUME IInv, Activate
  PROVE  IInv'
<1>1. /\ Typed /\ IssuerRotates /\ now \in Nat /\ active \in Nat /\ active \in Keys
      /\ active + 1 \in Keys /\ issuer[active + 1].born # Never
      /\ active' = active + 1
  BY TimeIsNat, Numbers DEF IInv, Typed, Activate, Published
<1>2. /\ issuer' = [issuer EXCEPT ![active] = [@ EXCEPT !.stop = now]]
      /\ UNCHANGED <<now, cache, mutex, document, check, outage>>
  BY DEF Activate
<1>3. /\ issuer' \in [Keys -> Issuer]
      /\ \A k \in Keys : /\ issuer'[k].stop = IF k = active THEN now ELSE issuer[k].stop
                         /\ issuer'[k].born = issuer[k].born /\ issuer'[k].gone = issuer[k].gone
  BY <1>1, <1>2 DEF Typed, Issuer
<1>4. \A k \in Keys : k \in Nat
  BY Numbers
<1>5. \A k \in Keys : k <= active' => k <= active \/ k = active + 1
  BY <1>1, <1>4
<1>6. IssuerRotates'
  BY <1>1, <1>2, <1>3, <1>4, <1>5 DEF IssuerRotates
<1>7. active' \in Keys /\ active' >= active
      /\ \A k \in Keys : k >= active /\ k < active' => k = active
  BY <1>1, <1>4
<1> QED BY <1>1, <1>2, <1>3, <1>4, <1>6, <1>7, IssuerStep

LEMMA RemoveKeepsIInv ==
  ASSUME IInv, NEW n \in Keys, Remove(n)
  PROVE  IInv'
<1>1. /\ Typed /\ IssuerRotates /\ now \in Nat /\ active \in Nat /\ active \in Keys
      /\ n < active /\ now > issuer[n].stop + Lifetime + Skew
  BY TimeIsNat, Numbers DEF IInv, Typed, Remove
<1>2. /\ issuer' = [issuer EXCEPT ![n] = [@ EXCEPT !.gone = now]]
      /\ UNCHANGED <<now, active, cache, mutex, document, check, outage>>
  BY DEF Remove
<1>3. /\ issuer' \in [Keys -> Issuer]
      /\ \A k \in Keys : /\ issuer'[k].gone = IF k = n THEN now ELSE issuer[k].gone
                         /\ issuer'[k].born = issuer[k].born /\ issuer'[k].stop = issuer[k].stop
  BY <1>1, <1>2 DEF Typed, Issuer
<1>4. IssuerRotates'
  BY <1>1, <1>2, <1>3 DEF IssuerRotates
<1>5. \A k \in Keys : k \in Nat
  BY Numbers
<1>6. active' = active
  BY <1>2
<1> QED BY <1>1, <1>2, <1>3, <1>4, <1>5, <1>6, IssuerStep

-----------------------------------------------------------------------------
(* The verifiers                                                           *)

\* A step of a verifier: the issuer and the time stay, and only its own
\* verification moves.
LEMMA VerifierStep ==
  ASSUME IInv, UNCHANGED <<now, active, issuer>>, outage' \in BOOLEAN,
         cache' \in Cache, CacheIsOld',
         mutex' \in Verifiers \cup {Nobody}, document' \in [Verifiers -> Document],
         check' \in [Verifiers -> Check],
         \A u \in Verifiers :
           \/ check'[u] = check[u]
           \/ check'[u].step = "idle"
           \/ check[u].step # "idle" /\ check'[u] = [check[u] EXCEPT !.step = "forced"],
         \A u \in Verifiers : FetchIsLater(u)'
  PROVE  IInv'
<1>1. Typed' /\ IssuerRotates'
  BY IssuerStays DEF IInv, Typed
<1>2. \A u \in Verifiers : TokenIsIssued(u)'
  BY TokensStay
<1> QED BY <1>1, <1>2, Parts

\* A mutex that is free has no request behind it.
LEMMA FreeMutex ==
  ASSUME IInv, mutex = Nobody, UNCHANGED <<mutex, document>>
  PROVE  \A u \in Verifiers : FetchIsLater(u)'
<1>1. ASSUME NEW u \in Verifiers
      PROVE  mutex # u /\ document[u].since = Never /\ document[u].readAt = Never
  BY NoFetch, JwksAssumption DEF Fetching
<1> QED BY <1>1 DEF FetchIsLater, Fetching, Never, Ago

LEMMA UnlockEnds ==
  ASSUME IInv, NEW v \in Verifiers, Fetching(v), Unlock(v)
  PROVE  /\ mutex = v /\ check[v].step # "idle"
         /\ mutex' \in Verifiers \cup {Nobody} /\ document' \in [Verifiers -> Document]
         /\ \A u \in Verifiers : FetchIsLater(u)'
<1>1. mutex = v /\ check[v].step # "idle" /\ document \in [Verifiers -> Document]
  BY DEF IInv, FetchIsLater, Typed
<1>2. NoDocument \in Document /\ NoDocument.since = Never /\ NoDocument.readAt = Never
  BY Numbers DEF NoDocument, Document
<1>3. mutex' = Nobody /\ document' = [document EXCEPT ![v] = NoDocument]
  BY DEF Unlock
<1>4. ASSUME NEW u \in Verifiers
      PROVE  mutex' # u /\ document'[u].since = Never /\ document'[u].readAt = Never
  BY <1>1, <1>2, <1>3, NoFetch, JwksAssumption DEF Fetching
<1>5. \A u \in Verifiers : FetchIsLater(u)'
  BY <1>4 DEF FetchIsLater, Fetching, Never, Ago
<1> QED BY <1>1, <1>2, <1>3, <1>5

LEMMA PresentKeepsIInv ==
  ASSUME IInv, NEW v \in Verifiers, NEW k \in (0..active) \cup {Forged}, Present(v, k)
  PROVE  IInv'
<1>1. /\ Typed /\ IssuerRotates /\ check[v].step = "idle" /\ now \in Nat /\ active \in Nat
      /\ UNCHANGED <<now, active, issuer, cache, mutex, document, outage>>
  BY TimeIsNat, Numbers DEF IInv, Typed, Present
<1>2. k \in Keys \cup {Forged} /\ (k # Forged => k \in Keys /\ k <= active)
  BY <1>1, Numbers DEF Typed, Keys
<1> DEFINE e == IF k = Forged THEN 0 ELSE Expiry(k)
           new == [Idle EXCEPT !.step = "cached", !.kid = k, !.expires = e]
<1>3. /\ e \in Int
      /\ k # Forged => /\ e <= now + IssuerOffset + Lifetime
                       /\ k < active => e <= issuer[k].stop + IssuerOffset + Lifetime
  BY <1>1, <1>2, Numbers DEF Expiry, Typed, Issuer, IssuerRotates
<1>4. check' = [check EXCEPT ![v] = new]
  BY DEF Present
<1> HIDE DEF e
<1>5. /\ new \in Check /\ new.step = "cached" /\ new.verdict = "none"
      /\ new.kid = k /\ new.expires = e
  BY <1>2, <1>3 DEF Check, Idle, Steps, Verdict
<1> HIDE DEF new
<1>6. check' \in [Verifiers -> Check] /\ check'[v] = new
      /\ \A u \in Verifiers \ {v} : check'[u] = check[u]
  BY <1>1, <1>4, <1>5 DEF Typed
<1>7. ASSUME NEW u \in Verifiers
      PROVE  TokenIsIssued(u)'
  <2>1. CASE u = v
    BY <1>1, <1>2, <1>3, <1>5, <1>6, <2>1 DEF TokenIsIssued
  <2>2. CASE u # v
    BY <1>1, <1>6, <2>2 DEF IInv, TokenIsIssued
  <2> QED BY <2>1, <2>2
<1>8. ASSUME NEW u \in Verifiers
      PROVE  FetchIsLater(u)'
  <2>1. \A keys, at : WasPublished(keys, at)' <=> WasPublished(keys, at)
    BY <1>1, IssuerStays
  <2>2. FetchIsLater(u)
    BY DEF IInv
  <2>3. CASE u = v
    <3>1. mutex # v /\ document[v].readAt = Never
      BY <1>1, <2>2, <2>3, NoFetch DEF FetchIsLater
    <3> QED BY <1>1, <2>2, <2>3, <3>1 DEF FetchIsLater, Fetching, Never, Ago
  <2>4. CASE u # v
    BY <1>1, <1>6, <2>2, <2>4 DEF FetchIsLater, Fetching, WasPublished
  <2> QED BY <2>3, <2>4
<1>9. Typed' /\ IssuerRotates' /\ CacheIsOld'
  BY <1>1, <1>6, IssuerStays, CacheStays DEF IInv, Typed
<1> QED BY <1>7, <1>8, <1>9, Parts

LEMMA UseCacheKeepsIInv ==
  ASSUME IInv, NEW v \in Verifiers, UseCache(v)
  PROVE  IInv'
<1>1. check[v].step # "idle" /\ WithKeys(v, cache.keys) /\ mutex = Nobody
      /\ UNCHANGED <<now, active, issuer, cache, mutex, document, outage>>
  BY DEF UseCache, Hit
<1>2. Typed /\ CacheIsOld'
  BY <1>1, CacheStays DEF IInv
<1> QED BY <1>1, <1>2, WithKeysEnds, FreeMutex, VerifierStep DEF Typed

LEMMA StartFetchKeepsIInv ==
  ASSUME IInv, NEW v \in Verifiers, StartFetch(v)
  PROVE  IInv'
<1>1. /\ Typed /\ mutex = Nobody /\ mutex' = v /\ check[v].step # "idle" /\ now \in Nat
      /\ document' = [document EXCEPT ![v] = [@ EXCEPT !.since = now]]
      /\ UNCHANGED <<now, active, issuer, cache, check, outage>>
  BY TimeIsNat DEF IInv, StartFetch
<1>2. /\ document' \in [Verifiers -> Document]
      /\ document'[v].since = now /\ document'[v].readAt = document[v].readAt
      /\ \A u \in Verifiers \ {v} : document'[u] = document[u]
  BY <1>1 DEF Typed, Document
<1>3. \A u \in Verifiers : document[u].since = Never /\ document[u].readAt = Never
  BY <1>1, NoFetch, JwksAssumption DEF Fetching
<1>4. cache \in Cache /\ cache.readAt <= now /\ CacheIsOld'
  BY <1>1, CacheStays DEF IInv, CacheIsOld, Typed, Cache
<1>5. FetchIsLater(v)'
  BY <1>1, <1>2, <1>3, <1>4, Numbers DEF FetchIsLater, Fetching, Never, Ago
<1>6. ASSUME NEW u \in Verifiers \ {v}
      PROVE  FetchIsLater(u)'
  BY <1>1, <1>2, <1>3 DEF FetchIsLater, Fetching, Never, Ago
<1> QED BY <1>1, <1>2, <1>4, <1>5, <1>6, VerifierStep DEF Typed

LEMMA IssuerAnswersKeepsIInv ==
  ASSUME IInv, NEW v \in Verifiers, IssuerAnswers(v)
  PROVE  IInv'
<1>1. /\ Typed /\ IssuerRotates /\ mutex = v /\ now \in Nat /\ active \in Nat
      /\ document' = [document EXCEPT ![v] = [@ EXCEPT !.readAt = now, !.keys = Published]]
      /\ UNCHANGED <<now, active, issuer, cache, mutex, check, outage>>
  BY TimeIsNat, Numbers DEF IInv, IssuerAnswers, FetchIsLater, Typed
<1>2. Published \in SUBSET Keys /\ WasPublished(Published, now)
  BY <1>1 DEF Published, WasPublished, IssuerRotates
<1>3. /\ document' \in [Verifiers -> Document]
      /\ document'[v].since = document[v].since
      /\ document'[v].readAt = now /\ document'[v].keys = Published
      /\ \A u \in Verifiers \ {v} : document'[u] = document[u]
  <2> DEFINE d == [document[v] EXCEPT !.readAt = now, !.keys = Published]
  <2>1. document[v] \in Document /\ document \in [Verifiers -> Document]
    BY <1>1 DEF Typed
  <2>2. d \in Document /\ d.since = document[v].since /\ d.readAt = now /\ d.keys = Published
    <3>1. PICK old \in Document : old = document[v]
      BY <2>1
    <3>2. PICK keys \in SUBSET Keys : keys = Published
      BY <1>2
    <3>3. d = [since |-> old.since, readAt |-> now, keys |-> keys]
      <4>1. old = [since |-> old.since, readAt |-> old.readAt, keys |-> old.keys]
        BY <3>1 DEF Document
      <4>2. PICK s, r, q : old = [since |-> s, readAt |-> r, keys |-> q]
        BY <4>1
      <4>3. d = [[old EXCEPT !.readAt = now] EXCEPT !.keys = keys]
        BY <3>1, <3>2
      <4> HIDE DEF d
      <4>4. [old EXCEPT !.readAt = now] = [since |-> s, readAt |-> now, keys |-> q]
        BY <4>2
      <4>5. d = [since |-> s, readAt |-> now, keys |-> keys]
        BY <4>3, <4>4
      <4> QED BY <4>2, <4>5
    <3> HIDE DEF d
    <3>4. d.since = old.since /\ d.readAt = now /\ d.keys = keys
      BY <3>3
    <3>5. old.since \in Int /\ now \in Int
      BY <1>1, <3>1 DEF Document
    <3>6. d \in Document
      BY <3>3, <3>5 DEF Document
    <3> QED BY <3>1, <3>2, <3>4, <3>6
  <2>3. document' = [document EXCEPT ![v] = d]
    BY <1>1
  <2> HIDE DEF d
  <2> QED BY <2>1, <2>2, <2>3
<1>4. check[v].kid \in Published \cup {Forged} \/ issuer[check[v].kid].gone # Never
  <2>1. check[v].kid \in Keys \cup {Forged} /\ TokenIsIssued(v) /\ check[v].step # "idle"
    BY <1>1 DEF IInv, Typed, Check, FetchIsLater
  <2> QED BY <1>1, <2>1 DEF TokenIsIssued, IssuerRotates, Published
<1>5. FetchIsLater(v)'
  <2>1. WasPublished(document[v].keys, document[v].readAt)'
    BY <1>1, <1>2, <1>3 DEF WasPublished
  <2>2. FetchIsLater(v)
    BY DEF IInv
  <2> QED BY <1>1, <1>3, <1>4, <2>1, <2>2 DEF FetchIsLater, Fetching, Never, Ago
<1>6. ASSUME NEW u \in Verifiers \ {v}
      PROVE  FetchIsLater(u)'
  <2>1. mutex # u /\ document[u].since = Never /\ document[u].readAt = Never
    BY <1>1, NoFetch DEF Fetching
  <2> QED BY <1>1, <1>3, <2>1 DEF FetchIsLater, Fetching, Never, Ago
<1>7. CacheIsOld'
  BY <1>1, CacheStays DEF IInv
<1> QED BY <1>1, <1>3, <1>5, <1>6, <1>7, VerifierStep DEF Typed

\* What a finished fetch brought is a document, and not older than the cache.
LEMMA FetchedDocument ==
  ASSUME IInv, NEW v \in Verifiers, Fetching(v), document[v].readAt # Never
  PROVE  /\ document[v].keys \in SUBSET Keys
         /\ document[v].readAt \in Nat /\ document[v].readAt <= now
         /\ cache.readAt <= document[v].readAt
         /\ now - document[v].readAt <= Timeout
         /\ WasPublished(document[v].keys, document[v].readAt)
<1>1. document[v] \in Document /\ mutex = v /\ FetchIsLater(v) /\ now \in Nat /\ cache \in Cache
  BY TimeIsNat DEF IInv, Typed, FetchIsLater
<1>2. document[v].readAt \in Int /\ cache.readAt \in Nat
  BY <1>1 DEF Document, Cache
<1> QED BY <1>1, <1>2, Numbers DEF FetchIsLater, Document

LEMMA FinishFetchKeepsIInv ==
  ASSUME IInv, NEW v \in Verifiers, FinishFetch(v)
  PROVE  IInv'
<1> DEFINE d == document[v]
<1>1. /\ Typed /\ Fetching(v) /\ d.readAt # Never /\ Unlock(v) /\ WithKeys(v, d.keys)
      /\ cache' = [keys |-> d.keys, fetchedAt |-> now, readAt |-> d.readAt]
      /\ UNCHANGED <<now, active, issuer, outage>> /\ now \in Nat
  BY TimeIsNat DEF IInv, FinishFetch
<1>2. cache' \in Cache /\ cache'.readAt = d.readAt /\ cache'.fetchedAt = now /\ cache'.keys = d.keys
  BY <1>1, FetchedDocument DEF Cache
<1>3. CacheIsOld'
  BY <1>1, <1>2, FetchedDocument DEF CacheIsOld, WasPublished
<1> QED BY <1>1, <1>2, <1>3, UnlockEnds, WithKeysEnds, VerifierStep DEF Typed

LEMMA FailFetchKeepsIInv ==
  ASSUME IInv, NEW v \in Verifiers, FailFetch(v)
  PROVE  IInv'
<1>1. /\ Typed /\ Fetching(v) /\ Unlock(v) /\ CacheIsOld'
      /\ UNCHANGED <<now, active, issuer, cache, outage>>
  BY CacheStays DEF IInv, FailFetch
<1>2. CASE Fallback(v)
  BY <1>1, <1>2, UnlockEnds, WithKeysEnds, VerifierStep DEF FailFetch, Typed
<1>3. CASE ~Fallback(v)
  <2> DEFINE new == [Idle EXCEPT !.verdict = "failed"]
  <2>1. new \in Check /\ new.step = "idle"
    BY Numbers DEF Idle, Check, Steps, Verdict
  <2>2. check' = [check EXCEPT ![v] = new]
    BY <1>3 DEF FailFetch, Done
  <2> HIDE DEF new
  <2>3. check' \in [Verifiers -> Check] /\ check'[v].step = "idle"
        /\ \A u \in Verifiers \ {v} : check'[u] = check[u]
    BY <1>1, <2>1, <2>2 DEF Typed
  <2> QED BY <1>1, <2>3, UnlockEnds, VerifierStep DEF Typed
<1> QED BY <1>2, <1>3

LEMMA TickKeepsIInv ==
  ASSUME IInv, Tick
  PROVE  IInv'
<1>1. /\ Typed /\ now \in Nat /\ now' = now + 1 /\ now' \in Times
      /\ UNCHANGED <<active, issuer, cache, mutex, document, check, outage>>
  BY TimeIsNat, Numbers DEF IInv, Tick, Times
<1>2. Typed' /\ IssuerRotates'
  BY <1>1 DEF IInv, Typed, IssuerRotates, Issuer
<1>3. CacheIsOld'
  BY <1>1 DEF IInv, Typed, Cache, CacheIsOld, WasPublished
<1>4. ASSUME NEW v \in Verifiers
      PROVE  TokenIsIssued(v)'
  <2>1. TokenIsIssued(v) /\ check[v].expires \in Int
    BY <1>1 DEF IInv, Typed, Check
  <2> QED BY <1>1, <2>1, Numbers DEF TokenIsIssued
<1>5. ASSUME NEW v \in Verifiers
      PROVE  FetchIsLater(v)'
  <2>1. FetchIsLater(v) /\ document[v].since \in Int /\ document[v].readAt \in Int
    BY <1>1 DEF IInv, Typed, Document
  <2>2. mutex = v => now < document[v].since + Timeout
    BY <2>1 DEF FetchIsLater, Tick
  <2> QED BY <1>1, <2>1, <2>2, Numbers DEF FetchIsLater, Fetching, WasPublished
<1> QED BY <1>2, <1>3, <1>4, <1>5, Parts

LEMMA StutterKeepsIInv ==
  ASSUME IInv, UNCHANGED vars \/ Recover
  PROVE  IInv'
<1>1. /\ Typed /\ UNCHANGED <<now, active, issuer, cache, mutex, document, check>>
      /\ outage' \in BOOLEAN
  BY DEF IInv, Typed, vars, Recover
<1>2. CacheIsOld' /\ \A u \in Verifiers : FetchIsLater(u)'
  BY <1>1, CacheStays DEF IInv, FetchIsLater, Fetching, WasPublished
<1> QED BY <1>1, <1>2, VerifierStep DEF Typed

-----------------------------------------------------------------------------
(* The theorems                                                            *)

LEMMA InitIInv ==
  ASSUME Init
  PROVE  IInv
<1>1. /\ now = 0 /\ active \in Keys /\ active \in Nat /\ outage = TRUE
      /\ cache = [keys |-> {}, fetchedAt |-> 0, readAt |-> 0] /\ mutex = Nobody
      /\ document = [v \in Verifiers |-> NoDocument]
      /\ check = [v \in Verifiers |-> Idle]
  BY Numbers DEF Init
<1>2. issuer \in [Keys -> Issuer]
  BY Numbers DEF Init, Issuer
<1>3. NoDocument \in Document /\ Idle \in Check
  BY Numbers DEF NoDocument, Document, Idle, Check, Steps, Verdict
<1>4. Typed
  BY <1>1, <1>2, <1>3, Numbers DEF Typed, Times, Cache
<1>5. IssuerRotates
  BY <1>1, Numbers DEF Init, IssuerRotates, Never
<1>6. CacheIsOld
  BY <1>1, Numbers DEF CacheIsOld, WasPublished
<1>7. \A v \in Verifiers : TokenIsIssued(v)
  BY <1>1 DEF TokenIsIssued, Idle
<1>8. \A v \in Verifiers : FetchIsLater(v)
  BY <1>1, JwksAssumption DEF FetchIsLater, Fetching, NoDocument
<1> QED BY <1>4, <1>5, <1>6, <1>7, <1>8 DEF IInv

LEMMA NextKeepsIInv ==
  ASSUME IInv, [Next \/ Recover]_vars
  PROVE  IInv'
<1>1. ASSUME NEW v \in Verifiers, Verify(v)
      PROVE  IInv'
  BY <1>1, UseCacheKeepsIInv, StartFetchKeepsIInv, IssuerAnswersKeepsIInv,
     FinishFetchKeepsIInv, FailFetchKeepsIInv DEF Verify
<1> QED
  BY <1>1, PresentKeepsIInv, PublishKeepsIInv, ActivateKeepsIInv, RemoveKeepsIInv,
     TickKeepsIInv, StutterKeepsIInv DEF Next

\* The cache is one document of the issuer's, and requests come one after another.
THEOREM CacheInvariance == FairSpec => []IInv
<1>1. Init => IInv
  BY InitIInv
<1>2. IInv /\ [Next \/ Recover]_vars => IInv'
  BY NextKeepsIInv
<1> QED BY <1>1, <1>2, PTL DEF FairSpec

\* The cached keys were published together at most a Timeout before the time that
\* is stored with them, and a fetch is under way exactly while the mutex is held.
THEOREM CacheIsSound == FairSpec => []Inv
<1>1. IInv => Inv
  <2>. SUFFICES ASSUME IInv PROVE Inv
    OBVIOUS
  <2>1. TypeOK
    BY TimeIsNat DEF IInv, Typed, Cache, Check, Steps, Verdict, CacheIsOld, FetchIsLater, TypeOK
  <2>2. CacheIsADocument
    BY DEF IInv, CacheIsOld, WasPublished, CacheIsADocument
  <2> QED BY <2>1, <2>2 DEF Inv
<1> QED BY <1>1, CacheInvariance, PTL

LEMMA CacheStepForward ==
  ASSUME IInv, Next \/ Recover
  PROVE  cache'.readAt >= cache.readAt
<1>1. cache.readAt \in Nat
  BY DEF IInv, Typed, Cache
<1>2. ASSUME NEW v \in Verifiers, FinishFetch(v)
      PROVE  cache'.readAt >= cache.readAt
  BY <1>1, <1>2, FetchedDocument DEF FinishFetch
<1>3. cache' = cache \/ \E v \in Verifiers : FinishFetch(v)
  BY DEF Next, Verify, UseCache, StartFetch, IssuerAnswers, FailFetch, Present, Publish,
     Activate, Remove, Tick, Recover
<1> QED BY <1>1, <1>2, <1>3

\* A slow answer never undoes a later fetch.
THEOREM CacheAdvances == FairSpec => CacheMovesForward
<1>1. IInv /\ [Next \/ Recover]_vars => [cache'.readAt >= cache.readAt]_vars
  BY CacheStepForward
<1> QED BY <1>1, CacheInvariance, PTL DEF FairSpec, CacheMovesForward

\* Which steps end a verification.
LEMMA WhoEnds ==
  ASSUME IInv, Next \/ Recover, NEW v \in Verifiers, check[v].step # "idle",
         check'[v].verdict # "none"
  PROVE  \/ UseCache(v) \/ FinishFetch(v) \/ FailFetch(v)
<1>1. check[v].verdict = "none" /\ check \in [Verifiers -> Check]
  BY DEF IInv, TokenIsIssued, Typed
<1>2. check' # check
  BY <1>1
<1>3. \/ \E u \in Verifiers : UseCache(u) \/ FinishFetch(u) \/ FailFetch(u)
      \/ \E u \in Verifiers : \E k : Present(u, k)
  BY <1>2 DEF Next, Verify, StartFetch, IssuerAnswers, Publish, Activate, Remove, Tick, Recover
<1>4. ASSUME NEW u \in Verifiers \ {v}
      PROVE  /\ WithKeys(u, cache.keys) \/ WithKeys(u, document[u].keys) => check'[v] = check[v]
             /\ \A verdict : check' = Done(u, verdict) => check'[v] = check[v]
  BY <1>1 DEF WithKeys, Done
<1>5. ASSUME NEW u \in Verifiers, NEW k
      PROVE  ~Present(u, k)
  BY <1>1, <1>5 DEF Present
<1>6. ASSUME NEW u \in Verifiers \ {v}
      PROVE  ~(UseCache(u) \/ FinishFetch(u) \/ FailFetch(u))
  BY <1>1, <1>4, <1>6 DEF UseCache, FinishFetch, FailFetch
<1> QED BY <1>3, <1>5, <1>6

\* With which keys a verification ends that has found the key of its token.
LEMMA KeysOfVerdict ==
  ASSUME IInv, NEW v \in Verifiers, check[v].step # "idle",
         UseCache(v) \/ FinishFetch(v) \/ FailFetch(v),
         check'[v].verdict \in {"accepted", "refused"}
  PROVE  \/ check[v].kid \in cache.keys /\ Age < MaxStale
         \/ /\ Fetching(v) /\ document[v].readAt # Never
            /\ check[v].kid \in document[v].keys
<1>1. CASE UseCache(v)
  <2>1. Age \in Int
    BY TimeIsNat DEF Age, IInv, Typed, Cache
  <2>2. Age < CacheTTL /\ WithKeys(v, cache.keys)
    BY <1>1 DEF UseCache, Hit
  <2>3. check[v].kid \in cache.keys
    BY <2>2, WithKeysEnds
  <2> QED BY <2>1, <2>2, <2>3, Numbers
<1>2. CASE FinishFetch(v)
  BY <1>2, WithKeysEnds DEF FinishFetch
<1>3. CASE FailFetch(v)
  <2>1. CASE Fallback(v)
    BY <1>3, <2>1, WithKeysEnds DEF FailFetch, Fallback
  <2>2. CASE ~Fallback(v)
    BY <1>3, <2>2 DEF FailFetch, Done, IInv, Typed, Idle
  <2> QED BY <2>1, <2>2
<1> QED BY <1>1, <1>2, <1>3

\* A signature of a removed key verifies for MaxStale and one request at most.
THEOREM RemovedKeysFade == FairSpec => RemovedKeyFades
<1>1. ASSUME IInv, Next \/ Recover, NEW v \in Verifiers,
             Verdicts(v) \in {"accepted", "refused"}, issuer[check[v].kid].gone # Never
      PROVE  now < issuer[check[v].kid].gone + Timeout + MaxStale
  <2> DEFINE k == check[v].kid
  <2>1. check[v].step # "idle" /\ check'[v].verdict \in {"accepted", "refused"}
    BY <1>1 DEF Verdicts
  <2>2. UseCache(v) \/ FinishFetch(v) \/ FailFetch(v)
    BY <1>1, <2>1, WhoEnds
  <2>3. now \in Nat /\ cache \in Cache /\ issuer \in [Keys -> Issuer]
    BY <1>1, TimeIsNat DEF IInv, Typed
  <2>4. CASE k \in cache.keys /\ Age < MaxStale
    <3>1. /\ issuer[k].gone >= cache.readAt /\ cache.fetchedAt - cache.readAt <= Timeout
          /\ cache.fetchedAt \in Nat /\ cache.readAt \in Nat /\ issuer[k].gone \in Int
      BY <1>1, <2>3, <2>4 DEF IInv, CacheIsOld, WasPublished, Cache, Issuer
    <3> QED BY <2>3, <2>4, <3>1, Numbers DEF Age
  <2>5. CASE Fetching(v) /\ document[v].readAt # Never /\ k \in document[v].keys
    <3>1. /\ document[v].readAt \in Nat /\ now - document[v].readAt <= Timeout
          /\ issuer[k].gone >= document[v].readAt /\ k \in Keys
      BY <1>1, <2>5, FetchedDocument DEF WasPublished
    <3>2. issuer[k].gone \in Int
      BY <2>3, <3>1 DEF Issuer
    <3> QED BY <2>3, <3>1, <3>2, Numbers
  <2> QED BY <1>1, <2>1, <2>2, <2>4, <2>5, KeysOfVerdict
<1>2. IInv /\ [Next \/ Recover]_vars =>
        [\A v \in Verifiers : Verdicts(v) \in {"accepted", "refused"} =>
           LET gone == issuer[check[v].kid].gone
           IN  gone # Never => now < gone + Timeout + MaxStale]_vars
  BY <1>1
<1> QED BY <1>2, CacheInvariance, PTL DEF FairSpec, RemovedKeyFades

\* A live token of the issuer's is never taken for one with an unknown key.
THEOREM LiveTokensAreKnown == FairSpec => LiveTokenIsKnown
<1>1. ASSUME IInv, Next \/ Recover, NEW v \in Verifiers,
             Verdicts(v) = "unknown", check[v].kid # Forged
      PROVE  check[v].expires <= now
  <2> DEFINE k == check[v].kid
  <2>1. check[v].step # "idle" /\ check'[v].verdict = "unknown"
    BY <1>1 DEF Verdicts
  <2>2. UseCache(v) \/ FinishFetch(v) \/ FailFetch(v)
    BY <1>1, <2>1, WhoEnds
  <2>3. Fetching(v) /\ document[v].readAt # Never /\ k \notin document[v].keys
    <3>1. CASE UseCache(v)
      BY <1>1, <2>1, <3>1, WithKeysEnds DEF UseCache, Hit
    <3>2. CASE FinishFetch(v)
      BY <1>1, <2>1, <3>2, WithKeysEnds DEF FinishFetch
    <3>3. CASE FailFetch(v)
      <4>1. CASE Fallback(v)
        BY <1>1, <2>1, <3>3, <4>1, WithKeysEnds DEF FailFetch, Fallback
      <4>2. CASE ~Fallback(v)
        BY <1>1, <2>1, <3>3, <4>2 DEF FailFetch, Done, IInv, Typed, Idle
      <4> QED BY <4>1, <4>2
    <3> QED BY <2>2, <3>1, <3>2, <3>3
  <2>4. issuer[k].gone # Never /\ k \in Keys
    BY <1>1, <2>3 DEF IInv, FetchIsLater, Typed, Check
  <2>5. /\ k < active /\ issuer[k].gone <= now
        /\ issuer[k].gone > issuer[k].stop + Lifetime + Skew
    BY <1>1, <2>4 DEF IInv, IssuerRotates
  <2>6. check[v].expires <= issuer[k].stop + IssuerOffset + Lifetime
    BY <1>1, <2>1, <2>5 DEF IInv, TokenIsIssued
  <2>7. /\ check[v].expires \in Int /\ issuer[k].gone \in Int /\ issuer[k].stop \in Int
        /\ now \in Nat
    BY <1>1, <2>4, TimeIsNat DEF IInv, Typed, Check, Issuer
  <2> QED BY <2>5, <2>6, <2>7, Numbers
<1>2. IInv /\ [Next \/ Recover]_vars =>
        [\A v \in Verifiers :
           Verdicts(v) = "unknown" => check[v].kid = Forged \/ check[v].expires <= now]_vars
  BY <1>1
<1> QED BY <1>2, CacheInvariance, PTL DEF FairSpec, LiveTokenIsKnown
=============================================================================
