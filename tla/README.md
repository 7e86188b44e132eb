# linka.plays-metric in TLA+

This directory models the telemetry collector of the LINKa products (Go, `src/`): what it
promises to its clients and to the people whose data it holds, checked with TLC on small
instances and, but for liveness, proved with TLAPS for every value of the constants.

## 1. The system

```
 clients ──HTTP──▶ collector ──HMAC over HTTP──▶ writer ──SQL──▶ ClickHouse ◀──SQL── privacy-worker
                       │                                            ▲   ▲
                  Identity JWKS                       import-legacy ┘   └ migrate
 disk-alert ──SMTP──▶ operator
```

| component | state it keeps | operations | what makes it correct |
|---|---|---|---|
| V2 store (`internal/clickhouse/store_v2.go`, `store_privacy.go`) | batch ledger, record registry, five stream tables, suppressions; `v2Mu` | `InsertV2`, `CreatePrivacyRequest` | one body per batch id and per record id; 202 means durable; nothing is written for a suppressed scope |
| privacy worker (`internal/privacy`, `store_privacy.go`) | request status with attempts, lease, availability; progress per table | list, claim, delete table by table, complete, retry | completed means erased; failed only after the limit; every request settles |
| V1 store (`store.go`, legacy part of `store_privacy.go`) | `events`, `session_summaries`; `v1Mu` | `Insert`, `CreateLegacyPrivacyRequest` | no rows of a suppressed installation; retries harmless |
| fundraising store (`store_fundraising.go`) | its own ledger and events; `fundraisingMu` | `InsertFundraising` | one body per batch id, completed means stored |
| writer service (`internal/writer`) | none | verify HMAC, parse, store, map errors | an answer tells what the store did |
| collector service (`internal/collector`) | none | authenticate, compare scopes, relay, map answers | no success without the writer's; a client's retry is safe |
| tokens (`internal/auth`) | key rings, JWKS cache | issue, renew, verify, rotate | no token of a removed key or of the future; rotation locks nobody out |
| contracts (`internal/contract`, `internal/product`, `internal/jsonstrict`) | none | parse and validate | accepted bodies have the shape the store relies on |
| migrations (`migrations/`) | `schema_migrations` with checksums | `Run` | each migration once, drift refused |
| importer (`cmd/import-legacy`) | position in its input | group, cut, insert | a rerun replays |
| disk alert (`cmd/disk-alert`) | state file | run from a timer | one mail per episode |

Behaviours that are hard to test: ClickHouse offers neither transactions nor unique
constraints, so the stores are sequences of statements any of which may fail, fail after
having been applied, or be the last one of a dying process; the mutexes that order them
exist per process; rows replace each other by version, so a clock decides who wins; deletions
run in another process against the same tables; leases run out under slow mutations; clients
time out and repeat. `PROJECT.json` lists each such hazard at its line.

## 2. The modules

### StoreV2: the writer's V2 store

`StoreV2.tla` models `InsertV2` and `CreatePrivacyRequest` as executed by concurrent handlers.
Every action is one round trip to ClickHouse (`ReadLedger`, `CheckSuppression`, `Reserve`,
`LookupRecords`, `RegisterRecords`, `InsertRows`, `Complete`; `ReadRequest`, `RecordRequest`);
`Begin` is a request that arrives, `Lock` takes `v2Mu`, and every return is `Answer`, which runs
the deferred `Unlock`. A statement may fail without effect (`Fail`), be applied and yet report
an error (the second disjunct of `Then` and its like), or be cut off by `Crash`, which frees the
memory and the mutex of the process and leaves the tables. `EraseTable` is the privacy worker
seen from the store: it empties the stream tables, then the registry, then the ledger of a
scope, each perhaps several times.

| variable | in the code |
|---|---|
| `ledger` | `ingest_batches_v2 FINAL`, the row per batch id: status, body digest, `ingested_at` |
| `registered`, `stored` | the bodies with rows in `record_registry_v2`, in the stream tables |
| `suppressions` | requests in `privacy_suppressions_v2`; `active` is never reset, so neither are they |
| `erased` | how many groups of tables the worker finished, per request |
| `v2Mu`, `pc`, `arg`, `seen` | the mutex, the handler's position, its body, its local ledger row |
| `outage` | statements may fail; cleared for good by `Recover` in the liveness run only |
| `acked` | history: bodies answered 202 |

Abstractions. A body stands for its digest. One product: every query carries an equality on
it. A multi-row INSERT is one block, so a table is the set of bodies whose rows it holds; the
five stream tables differ in columns only and are one set. `Replace` is
`ReplacingMergeTree(ingested_at)` read with `FINAL`. A statement takes effect before its handler
goes on or not at all: an INSERT that ClickHouse applies after its handler gave up is not
modelled.

`IngestPromise.tla` says what a client may rely on, without statements, mutexes or crashes:
claim, hold, finish, repeat, mute, erase. `StoreV2Promise.tla` gives the refinement mapping and
the property `KeepsIngestPromise`. `StoreV2Inv.tla` holds the inductive invariant,
`MCStoreV2.tla` the instance for TLC.

### PrivacyWorker: the deletion worker

`PrivacyWorker.tla` models `RunOnce` and the statements of `store_privacy.go` it makes:
`PendingPrivacyRequests`, the claim (`ReadClaim`, `MarkClaim`: a read, then an INSERT), the loop
over the tables (`DeletionProgress`, `StartTable`, `Mutate`, `FinishTable`, `RequeueTable`),
`CompletePrivacyRequest`, `RetryPrivacyRequest`. The attempts of a job are those of the listing
plus one, those of the claim the ones of the fresh read plus one, as in the code. Rows replace
each other by `Version`, which is `privacyStatusVersion`. `Ingest` is the store adding rows: it
adds none of a recorded request's scope, which is what `NoWriteAfterSuppression` of `StoreV2`
provides. `faults` counts the faults of the whole history against the bound `MaxFaults`; `met` charges each to
the request under whose job it occurred, and the attempts of a request are held against its own. Time is
reduced to `due`: whether `available_at` or `lease_until` of the surviving row
has passed; `Elapse` lets it pass.

`PrivacyWorkerInv.tla` holds its inductive invariant, `MCPrivacyWorker.tla` the instance.

### ErasurePromise: what store and worker assume of each other

`StoreV2` is checked with a worker that clears tables in order (`EraseTable`); `PrivacyWorker` with a
store that adds nothing of a recorded scope (`Ingest`). `ErasurePromise.tla` states both assumptions as
one abstract machine: a recorded scope gains nothing, its tables are cleared one after the other with the
batch ledger last, and it is reported when all are clear. `StoreV2Erasure.tla` and
`PrivacyWorkerErasure.tla` map each module onto it; both runs check `KeepsErasurePromise`, so neither
assumption is left unsupported.

### StoreV1 and FundraisingStore: the two other stores

`StoreV1.tla` models `Insert` (events, then summaries, no ledger, no registry),
`CreateLegacyPrivacyRequest` under both mutexes (`LockV1`, then `LockV2`), `CreatePrivacyRequest` as far
as it shares the request ids, and the worker's deletion of the two V1 tables. `rows` holds per table the
bodies whose rows it has, so half a batch is a body in one table and not in the other.

`FundraisingStore.tla` models `InsertFundraising`. Here an INSERT may outlive its caller: it waits in
`late` and lands at any later moment (`Land`), also after the mutex has gone to another handler. `time` is
what has gone by and `Now` what the writer's wall clock reads, which versions the ledger's rows: it is ahead
by `skew`, and `SetClock` sets it back and forth by up to `MaxBack`. A caller that gives up on a statement has
waited for `MinWait` at least. `MaxLate` bounds, per batch, the reservations that outlive their callers;
other INSERTs may do so at will.

### Gateway: client, collector and writer

`Gateway.tla` composes the handlers of `internal/collector`, the HTTP client between the services and the
handlers of `internal/writer` over a store that keeps the promises of the other modules. A `slot` is one
request in flight with two positions: `front` is the collector's handler, `back` the writer's, and either
may end or give up without the other. The checks of an endpoint are a sequence in the order of the code,
the first that fails answers (`CollectorBatches` and its like); the windows on `sent_at` and `requested_at`
and the age of a service signature are asked by each service's own clock (`Offset`). `owner` and `kept` are
the store, `heard` what clients were told. A `crowd` is the set of requests that clients make. Two answers
say nothing of the request (`Unspoken`): the collector's 502, and the 400 `invalid_body` of a service to which
the body was not read to its end (`InvalidBody`; a body that is too large answers 413). The other refusals are
about the body, but not about its other attempts: after a 502 the first attempt may still be at work in the
writer when the repeated body is refused, and may be stored yet. The properties say no more than that.

### JwksCache and TokenKeys: keys over time

`JwksCache.tla` models `Keys` and `Verify` of `identity_jwt.go` with the issuer's rotation around them
(`Publish`, `Activate`, `Remove`): a fetch runs for up to `Timeout`, holds the mutex, may fail, and answers
with what was published at some moment in between; an unknown key id forces a fetch; a failed fetch falls
back on a cache younger than `MaxStale`. The collector starts before a rotation or in the middle of one.

`TokenKeys.tla` models the HMAC key rings (active and previous) of installation and product tokens and of
service and writer signatures, over the operator's edits (`Rotate`) and the restarts that take them over,
with the endpoints that issue and renew, and with signed requests under way. `Own` is the set of families with
secrets of their own; `HMACKeyring` gives another family the active secret of its `Fallback`: product tokens
and subject keys that of the installation tokens, service signatures that of the V1 writer. The subject keys of
an installation are derived with the subject secret that the collector was started with (`SubjectKey`).

### MigrationRunner, SplitStatements, DiskAlert, ImportBatches: the operator's tools

`MigrationRunner.tla` models `Run` over the ClickHouse backend: the ledger is read once, each statement is
one step, DDL is not transactional, runs are cut short anywhere (`Crash`) and several runners of several
releases overlap. Statements belong to an edition, a version with the checksum of its file, so an
edited migration runs statements of its own. The schema is, per object, the edition that made it and those
that altered it; `InOrder` is the schema that one undisturbed run leaves.

The other three are functions of an input, written as recursive functions of the position in it.
`SplitStatements.tla` is the scanner of `splitStatements` after each character (`Scanned`), against files put
together of lexemes and read one lexeme at a time (`Reading`); its field `coming` stands for `escaped` and for
the `index++` that takes two characters at once. `DiskAlert.tla` is one run of `cmd/disk-alert` as a step of a
history, failing at any of six places (`Fates`). `ImportBatches.tla` is `consume`, `flush` and `buildBatch` of
the importer after each line (`Progress`); the import may end at a line it cannot decode, at one that is out
of its group, and at any batch the store does not take (`fails`), which may be stored all the same. `OperatorTools.tla` composes the four and states the three
properties of the functions.

### StrictJson: a recursion as a stack

`StrictJson.tla` is `validateValue` of `internal/jsonstrict`. Its calls under way are a sequence of frames, each
with what it asks the decoder for next and the keys it has seen, and `Walked` is the state of that stack after
each token; the depth of a call is its place in the sequence. The reference is a definition of unambiguous
objects that knows no stack: it counts the brackets before a token (`Level`) and takes the last one that opened
the level as its container (`Parent`). `GatewayBodies.tla` composes it with `Gateway` and states the property:
the walk passes exactly these objects. It is a property of the walk. The typed decode that follows it
(`decode.go:26-34`) belongs to `encoding/json` and is not modelled: it refuses fields the contract does not know
and values of the wrong type, and it matches names without regard to case. Nor do all bodies pass the walk: V2,
privacy, donations and product tokens do, V1 events and the tokens of installations are only decoded.

## 3. The runs

| run | question | instance |
|---|---|---|
| `store_safety` | do ids stay unique, acknowledgements durable, suppressions and deletions effective, and does the store implement both its promises? | 2 handlers, 1 process, 3 bodies, 3 privacy requests, clock values 1 and 2 in any order |
| `store_liveness` | does every reservation get resolved? | 2 handlers, 2 bodies that share a record, 1 opt-out |
| `store_importer` | what if the importer runs beside the writer? | 2 processes; violated, see below |
| `worker` | is completion honest and final, are attempts spent on faults only, does every request settle? | 1 worker, 3 requests, 2 tables, LIMIT 2, 2 attempts, 2 faults |
| `v1` | does a store without a ledger keep what it acknowledged? | 2 handlers, 2 bodies, a legacy and a scoped request under one id |
| `fundraising` | is a donation batch that of one body, and whole? | 2 handlers, 2 bodies of one id, 1 late reservation, any other late statements, callers wait 2 ms, clock set by up to 1 ms, 6 ms |
| `fundraising_late` | and with two late reservations? | violated, see below |
| `gateway_safety` | does an answer ever say more than what was stored? | 2 in flight, clocks one unit apart, 3 crowds of 3 requests; slots symmetric |
| `gateway_liveness` | is every client told something final, and does the walk pass exactly the unambiguous bodies? | 1 in flight, 3 requests; all bodies of up to 7 tokens, depth 2 |
| `jwks` | what does a rotation do to tokens of either key? | 2 verifiers, 2 keys, times 0 to 4 |
| `keys` | does a rotation lock anybody out? | 1 client, 2 rotations, tokens or signatures, all 6 choices of secrets that fall back, times 0 to 5 |
| `migrations` | do migrations survive cuts and overlap; is a file split where SQL splits it; does the alert follow the disk; does a repeated import give the same batches? | 2 runners, 3 releases, one of them an edited form of another, 2 cuts; files of up to 4 lexemes; histories of up to 4 runs; inputs of up to 4 lines, stopped at any line or batch |

Why these bounds are enough to meet the interesting cases. In the store's runs `first` and `reuse` carry
one batch id, `first` and `overlap` one record id, `reuse` and `overlap` one subject, and the deletion
covers `first` by subject and `overlap` by person: every pair of bodies collides in some way, and each
handler may repeat any body for ever. Two clock values give a clock that stands still, advances or
goes back between reservation and completion. Two handlers are the pair that races; further
handlers wait for the same mutex. In the worker's run two tables give a crash between them, two
attempts a retry and a failure for good, LIMIT 2 keeps the third request waiting. `MaxFaults` bounds
faults, `MaxClaims` the claims of a request; the latter is never met, since attempts are bounded by
faults plus one. In `jwks` the bound on time lets a removed key be used past `MaxStale`, were the cache
ever renewed without an answer; in `keys` it lets both rotations end and the tokens die. In `fundraising` a
caller waits for 2 ms and the clock is set by 1 ms, the smallest values that satisfy the hypothesis of section
4 with a clock that does move; 6 ms are three statements given up. `MaxLate`,
`MaxCrashes`, `MaxTime`, `LastKey`, `MaxLines`, `MaxLexemes`, `MaxRuns` and `MaxTokens` are bounds
likewise. The pure functions are
evaluated on every input within their bounds; what is said of them (`ImportsAreRepeats`,
`WalkIsExact`, `FilesAreStatements`, `EpisodesAreMailed`) depends on no variable and is stated of the
initial states. `keys` stops at
`MaxTime` and does not check for deadlock.

Each module's `Inv` joins its type invariant with the invariants that relate its variables at all times;
properties about one hazard each stand by themselves.

Fairness. `FairSpec` of the three stores assumes that failures stop (`Recover`), that a handler past its
mutex goes on (its calls have deadlines), that `sync.Mutex` does not pass over a waiting goroutine for
ever (its starvation mode), and that a client repeats its body. `FairSpec` of `PrivacyWorker` assumes
that the process is scheduled (its ticker calls `RunOnce` again and again) and that time passes; faults
are finitely many by `MaxFaults`. `Gateway` assumes that failures stop, that time passes, that both
services go on with a request (their timeouts see to it) and that clients repeat it; `JwksCache` that the
issuer's server comes back and no verifier waits for ever at the mutex; `TokenKeys` that each process is
restarted once its environment has changed; `MigrationRunner` that a run goes on and that the operator
starts every release again, since nothing in the code does.

### What the runs found

`store_importer` is a divergence between `docs/legacy-import.md:3`, which promises the importer's
writes the same suppression checks as live telemetry, and the code, where the check and the write
are held together by a mutex of one process. In ten steps the importer passes the check, the writer
records a suppression of the same scope, and the importer inserts rows of it. `docs/telemetry-v2.md:35`
asks for one active writer; the importer's runbook runs it as a second one.

`fundraising_late` is a bug of `store_fundraising.go:21`: two handlers with different bodies of one batch id
both give up on their reservation, ClickHouse applies both afterwards, and each body's retry is resumed.
The table then holds donations of both under one id, and nobody was answered 409.

Remarks met while modelling that no run checks:

- `runner.go:106` notices the drift of a recorded migration when its turn comes, after pending migrations
  of lower versions have been executed; `runner_test.go:50` tests the case in which there are none.
- `docs/api.md:82` has a client repeat its privacy request until it is completed, while the repeated body is
  refused once its `requested_at` is more than 24 hours old (`contract/v1/privacy.go:51`).
- `contract/v1/validate.go:501` decodes without `jsonstrict`: V1 bodies with repeated keys are accepted, which
  `docs/privacy.md:7` excludes for both contracts.
- `jsonstrict` compares keys letter for letter and the decode behind it does not: a body with `batch_id` and
  `Batch_ID` passes both, and the later of the two is taken.
- An import that stops because its input is not grouped has written the batch before the offending line;
  the regrouped input cuts another batch there, whose records are registered already: the importer then
  stops with a conflict (`cmd/import-legacy/main.go:177-188`).
- A migration that was executed and not recorded, and then edited, leaves what its old file did: the new one is
  executed on top, and nothing undoes the old one. `SameAsUndisturbed` excepts the objects it touched.
- Where product tokens fall back to the installation secret (`cmd/collector/main.go:107`), a rotation of that
  secret refuses every product token at once: the fallback has no previous key (`keyring.go:23-25`), and an id
  other than `default` set for one would not match the tokens. `TokenLives` excepts them. Where the subject
  secret falls back and the product keys do not, an old and a new product token of one installation, both
  accepted, name two subjects; `SubjectIsStable` says nothing of that deployment. `deploy/staging.env.example`
  sets all three.

## 4. The proofs

Each `*_proofs` module names an inductive invariant, proves one lemma per action, and draws the
properties of the runs from it. All results hold for any number of handlers, workers, verifiers or
runners, any bodies, batches, requests, keys and releases, and any value of the bounds. TLC has found
each inductive invariant to hold on the instances of section 3 before it was proved.

| module | what is proved | under |
|---|---|---|
| `StoreV2_proofs` | type invariant, the five safety invariants, `NoWriteAfterSuppression`, `LedgerMovesForward`; the store implements `IngestPromise` and `ErasurePromise` | `SingleProcess` |
| `PrivacyWorker_proofs` | `CompletedIsErased`, `FinishedTableIsErased` for any number of workers; `Inv`, `SettledIsFinal`, the worker implements `ErasurePromise` | `SingleWorker` for the latter three |
| `StoreV1_proofs` | `Inv`, `AckedIsStored`, `NoWriteAfterSuppression` | |
| `FundraisingStore_proofs` | `Inv`, `OneBodyPerBatch`, `AckedIsStored` | `OneLate`, `WaitsOutlastClock` |
| `Gateway_proofs` | `Inv`, `AcceptedIsKept`, `RefusalsAreTrue`; `WalkIsExact` for bodies of any length and any depth | |
| `JwksCache_proofs` | `Inv`, `CacheMovesForward`, `RemovedKeyFades`, `LiveTokenIsKnown` | |
| `TokenKeys_proofs` | `Inv`, `TokenLives`, `SignedIsAccepted` | |
| `OperatorTools_proofs` | `Inv` and `SameAsUndisturbed` of the migrations; `FilesAreStatements`, `EpisodesAreMailed`, `ImportsAreRepeats` for files, histories and inputs of any length | `OneReplacer` for the first two, `OneCreator` for the second |

### The hypotheses

- `SingleProcess`, `SingleWorker`: one writer and one privacy worker, as `docker-compose.yml` deploys them and
  `docs/telemetry-v2.md:35` and `:45` ask. Without the first, `NoWriteAfterSuppression` is false
  (`store_importer`). Of several workers (`store_privacy.go:137` does not exclude them) only
  `CompletedIsErased` and `FinishedTableIsErased` are known, from their theorem; no run has two.
- `OneLate`: of each batch id at most one reservation outlives its caller. Without it `OneBodyPerBatch` is
  false (`fundraising_late`).
- `WaitsOutlastClock`: whoever gives up on an INSERT has waited for longer than the wall clock is ever set back
  (`MaxBack < MinWait`). Two reservations of a batch are then never versioned against the order in which
  they were sent. It is an assumption about the deployment and not about the code: a context that is
  cancelled at once, or a step of the clock, may break it, and TLC then needs only one late reservation
  to break `Inv` (with `MinWait` = `MaxBack` = 1, say).
- `OneReplacer`: no object is replaced (`CREATE OR REPLACE`) by two versions, which is so of the fifteen
  migrations, of which only 015 replaces anything, two views once each. Editions of one version count as
  one, here and below. Without it `RecordedIsDone` is false:
  a slow runner replaces the object by the older version after another has recorded the newer one.
- `OneCreator`: no object is created by two versions, which is so of the fifteen migrations. Without it the
  schema depends on the release that came first, and `SameAsUndisturbed` is false of an upgrade.

The assumptions of the modules on their constants are what a proof needed and TLC evaluates: among them
that a stale cache may be used for some time (`MaxStale > 0`), that installation tokens are studied together with
the product tokens they are exchanged for, and the types of the functions that describe a
`Gateway`'s requests, none of which clashes with itself.

### The arguments

`StoreV2`. A handler between two statements holds the one mutex, so what it read is still true (`KnowsAt`):
its batch is reserved by its own body and by the very row it saw, its scope is not suppressed, its records
clash with nobody's, and, later on, its rows are in the registry and in the stream tables. Only the worker's
deletions move the tables meanwhile, and only for suppressed scopes, which the handler's is not.
`stored ⊆ registered`, every registered body owns the ledger row of its batch, no record id is registered
twice; `OneBodyPerBatch` and `OneBodyPerRecord` follow, and neither is inductive alone. A deletion that
finished k groups of tables left nothing of its scope in them. Every step maps to a step of each promise or
to a stutter.

`PrivacyWorker`. Each step is `Sound`: it unrecords no request, adds nothing to a table that is already empty
of a recorded scope, and marks only what is erased. Hence what a worker knows of the tables behind it
(`WorkerKnows`) survives the steps of all others, without any mutual exclusion between workers. What
concerns statuses and attempts does need one worker: then no other statement comes between those of a
request, the rows a worker read are those it replaces, versions only grow, and the attempts of the listing,
of the claim and of the row differ by the one that is under way (`SoleInvariance`). Every attempt but that one
has met a fault of its own request: the row's attempts do not exceed `met` while nobody works on it, and a
worker that requeues or retries has met one in this very attempt.

`StoreV1`. There is no ledger to read back: a handler past the check holds `v1Mu`, its installation is not
suppressed as long as it does, and it has inserted every part that its position says. A recorded deletion
clears `events` and `session_summaries` in this order and nobody adds to them any more.

`FundraisingStore`. The mutex does not order statements that outlive their callers; the clock does. A
reservation that is still to come is older than the time gone by, because its caller has waited for longer
than the clock may be ahead (`WaitsOutlastClock`), hence older than whatever the clock will read; once the
batch has another reservation it is older than that one too, so `Replace` ignores it. Late events and completions
were sent under a reservation that still holds. The delicate case is the handler that has read no row and is
about to reserve while the late reservation lands: the invariant says that then nothing else of the batch
is late and no events are in, and that its own reservation will replace the landed one.

`Gateway`. The type invariant, that every request stored passed all checks of its endpoint in both services,
that the writer works only for requests that passed the collector, and that its reply, as the collector will
map it, is true of `owner` and `kept` (`Truth`). What is true of them stays true: an owner is never replaced,
and what is kept is given up for a suppression only.

`JwksCache`. The document a fetch will answer with is one the issuer published since the fetch began, at most
`Timeout` ago; the holder of the mutex is the verifier whose fetch is under way; the time stored with the
cache is not ahead of the clock, and nothing is renewed by a failure. `RemovedKeyFades` adds the intervals
up, `LiveTokenIsKnown` uses that a key is published before it is active and removed after its tokens died.

`TokenKeys`. No process is more than one change behind the operator (`OneBehind`), who changes a ring only when
all have taken over the last change and the tokens signed before it are dead; so a live token's key is the
active or the previous one of the ring that verifies it. A ring that fell back is that of its fallback as the
process knows it, without a previous key (`FallenBack`); so a product token that is accepted there was signed
with the secret from which its installation's subject is derived now (`NamesItsSubject`).

`MigrationRunner`. Every statement but CREATE OR REPLACE only adds to the schema (`StatementsOnlyAdd`), so
what a runner has executed of its edition is still there when it records it. `SameAsUndisturbed`
needs the converse too: whatever an object has, some edition that says so gave it (`HasAuthors`), and an
edition that is recorded left all it says (`RecordedIsLeft`). When everything is recorded the two agree, object
by object, with what `InOrder` says.

The functions over data. The library's induction theorems take an operator and cannot be used, so
`SetInduction` says the same of a set of naturals, by its least counterexample, and each formula is the set of
the indices at which it holds. A recursive function is a CHOOSE: `RecursionHasASolution` builds a function that
satisfies such an equation up to any index, hence the chosen one does, and from then on it is a
sequence of states with one step from each to the next, about which an invariant is proved as about a machine:

- `DiskAlert`: when the file says `alerted` there was a mail since which no successful run has found room on the
  disk; when it does not, room was found after every mail of a successful run (`Remembers`).
- `ImportBatches`: the closed batches are a prefix of the lines, the open one is the lines after it, all of one
  subject, and the closed subjects are those of earlier lines (`ImportInv`). Imports of inputs with a common
  beginning agree on it (`SameLinesSameProgress`), and batches are only added. Imports of one input that fail
  at different batches agree until the first of them ends (`AlikeUntilFailure`), so a failure only takes
  batches off the end (`FailuresOnlyStop`).
- `SplitStatements`: after each lexeme the scanner is in the text and has kept what SQL means by all before it,
  except that the last quote of a literal may have been taken for an escape together with the first one of the
  literal next to it (`AtLexeme`). One lemma per lexeme follows it through the characters.

- `StrictJson`: the k-th call of the stack is the container open at level k, and knows the keys read in it
  (`Nested`); the last one asks for a key when an even number of tokens stand in its container (`Waits`), and all
  that closed did so evenly. What was read is unambiguous (`GoodTo`), and a refused token makes the body ambiguous
  whatever follows it (`WalkIs`): nothing stands in a container after it closes (`NothingInsideAfter`), so a
  missing value is never made up for.

### What the proofs changed

The refusals of `Gateway` were first written as a CASE whose guards overlap. TLC takes the first arm,
TLA+ does not order them, and the proof of `RefusalsAreTrue` failed for it; the order of the code's tests is
now an IF. `overdue` of `FundraisingStore` counted every late statement; the proof showed that only late
reservations matter, and the model now allows any number of others. `SameAsUndisturbed` was first said of
moments at which no runner is at work; the proof does not need them to be idle, so it is now said of every
moment at which all versions are recorded. `InOrder` was a fold over the statements and is a closed form now,
and `StrictJson`, once RECURSIVE over the calls of `validateValue`, is a state machine over their stack.

### Only model-checked

- Liveness: `ReservationResolved` of both stores, `HalfBatchResolved`, `EveryRequestSettles`, `EveryoneIsTold`,
  `VerificationEnds`, `RequestsGetThrough`, `MigratesInTheEnd`. Fairness is beyond the prover.

Every safety property that a passing run checks is a theorem.

## 5. Plan

1. Statements that outlive their handler in `StoreV2` and `StoreV1`, as `FundraisingStore` has them, with the
   hypothesis under which the proofs carry over.
2. The composition: what `Gateway` assumes of its store (`owner`, `kept`) as an implementation of `IngestPromise`.

## 6. Not modelled

- The property tables of the contracts (`contract/v1/validate.go`, the record checks of
  `contract/v2/parse.go`, `product/registry.go`): closed lists of names and ranges without state. A model
  would repeat them. Their windows, which meet two clocks, are in `Gateway`.
- HTTP helpers, configuration parsing, logging and server start-up: no state that two steps share.
- The DataLens views: relational queries over single rows, which the models abstract to sets of bodies.
- `IssueScope` of the product tokens, which nothing calls; the cryptography, which is taken as ideal.
- A statement of `StoreV2` or `StoreV1` that ClickHouse applies after its handler gave up (hazard at
  `store_v2.go:122`); a count of attempts beyond 16 bits.
