------------------------- MODULE OperatorTools_proofs -------------------------
(***************************************************************************)
(* Proofs about the operator's tools.                                      *)
(*                                                                         *)
(* MigrationRunner, for any migrations, releases and number of runners,    *)
(* cut short any number of times: every statement but CREATE OR REPLACE    *)
(* only adds to the schema, so what one runner has executed is still there *)
(* when it records the version, whatever the others execute in between.    *)
(*                                                                         *)
(* DiskAlert, ImportBatches and SplitStatements compute over data: any     *)
(* number of timer ticks, lines or lexemes.  Their recursive functions are *)
(* first shown to satisfy their equations at every index, then an          *)
(* invariant of the index is carried from each one to the next.            *)
(***************************************************************************)
EXTENDS OperatorTools, WellFoundedInduction, TLAPS

-----------------------------------------------------------------------------
(* Induction over the length of a sequence.  A set of naturals stands for  *)
(* the formula, and its least counterexample for the induction.            *)

LEMMA MinIsLeast ==
  ASSUME NEW S \in SUBSET Nat, S # {}
  PROVE  Min(S) \in S /\ \A y \in S : Min(S) <= y
<1> DEFINE R == OpToRel(<, Nat)
<1>1. IsWellFoundedOn(R, Nat)
  BY NatLessThanWellFounded
<1>2. \A x, y \in Nat : y < x => <<y, x>> \in R
  BY DEF OpToRel
<1> HIDE DEF R
<1>3. PICK x \in S : \A y \in S : <<y, x>> \notin R
  BY <1>1, WFMin, Zenon
<1>4. \A y \in S : x <= y
  <2> TAKE y \in S
  <2>1. x \in Nat /\ y \in Nat /\ ~(y < x)
    BY <1>2, <1>3
  <2> QED BY <2>1
<1>5. Min(S) = CHOOSE y \in S : \A z \in S : y <= z
  BY DEF Min
<1>6. (CHOOSE y \in S : \A z \in S : y <= z) \in S
      /\ \A z \in S : (CHOOSE y \in S : \A w \in S : y <= w) <= z
  BY <1>4
<1> QED BY <1>5, <1>6

LEMMA SetInduction ==
  ASSUME NEW S \in SUBSET Nat, 0 \in S, \A n \in S : n + 1 \in S
  PROVE  S = Nat
<1> SUFFICES ASSUME S # Nat PROVE FALSE
  OBVIOUS
<1> DEFINE missing == Nat \ S
<1>1. missing \in SUBSET Nat /\ missing # {}
  OBVIOUS
<1>2. PICK n \in missing : \A m \in missing : n <= m
  <2> HIDE DEF missing
  <2>1. Min(missing) \in missing /\ \A m \in missing : Min(missing) <= m
    BY <1>1, MinIsLeast
  <2> QED BY <2>1
<1>3. n # 0 /\ n - 1 \in Nat /\ n - 1 \notin missing
  BY <1>2
<1>4. (n - 1) + 1 \in S
  BY <1>3
<1> QED BY <1>2, <1>3, <1>4

\* A recursion over the positions of a sequence has a function that satisfies it.
Solves(h, base, last, F) == h[0] = base /\ \A n \in 1..last : h[n] = F[<<h[n - 1], n>>]

LEMMA RecursionHasASolution ==
  ASSUME NEW S, NEW base \in S, NEW last \in Nat, NEW F \in [S \X (1..last) -> S]
  PROVE  \E h \in [0..last -> S] : Solves(h, base, last, F)
<1> DEFINE T == {k \in Nat : k <= last => \E h \in [0..k -> S] : Solves(h, base, k, F)}
<1>1. 0 \in T
  <2> DEFINE h == [i \in 0..0 |-> base]
  <2>1. h \in [0..0 -> S] /\ Solves(h, base, 0, F)
    BY DEF Solves
  <2> QED BY <2>1
<1>2. ASSUME NEW k \in T
      PROVE  k + 1 \in T
  <2> SUFFICES ASSUME k + 1 <= last
               PROVE  \E g \in [0..(k + 1) -> S] : Solves(g, base, k + 1, F)
    OBVIOUS
  <2>1. PICK h \in [0..k -> S] : Solves(h, base, k, F)
    OBVIOUS
  <2> DEFINE g == [i \in 0..(k + 1) |-> IF i <= k THEN h[i] ELSE F[<<h[k], k + 1>>]]
  <2>2. g \in [0..(k + 1) -> S]
    OBVIOUS
  <2>3. \A i \in 0..k : g[i] = h[i]
    OBVIOUS
  <2>4. g[k + 1] = F[<<h[k], k + 1>>]
    OBVIOUS
  <2> HIDE DEF g
  <2>5. g[0] = base
    BY <2>1, <2>3 DEF Solves
  <2>6. ASSUME NEW n \in 1..(k + 1)
        PROVE  g[n] = F[<<g[n - 1], n>>]
    <3>1. CASE n = k + 1
      <4>1. n - 1 = k /\ g[n - 1] = h[k]
        BY <2>3, <3>1
      <4> QED BY <2>4, <3>1, <4>1
    <3>2. CASE n # k + 1
      <4>1. n \in 1..k /\ n \in 0..k /\ n - 1 \in 0..k
        BY <3>2
      <4>2. h[n] = F[<<h[n - 1], n>>]
        BY <2>1, <4>1 DEF Solves
      <4>3. g[n] = h[n] /\ g[n - 1] = h[n - 1]
        BY <2>3, <4>1
      <4> QED BY <4>2, <4>3
    <3> QED BY <3>1, <3>2
  <2> QED BY <2>2, <2>5, <2>6 DEF Solves
<1> HIDE DEF T
<1>3. T = Nat
  <2>1. T \in SUBSET Nat
    BY DEF T
  <2>2. \A n \in T : n + 1 \in T
    BY <1>2
  <2> QED BY <1>1, <2>1, <2>2, SetInduction, Zenon
<1>4. last \in T
  BY <1>3
<1> QED BY <1>4 DEF T

\* What holds of the first value, and of each one if it holds of the value before,
\* holds of all of them.
LEMMA StaysInside ==
  ASSUME NEW S, NEW last \in Nat, NEW h, h[0] \in S,
         \A n \in 1..last : h[n - 1] \in S => h[n] \in S
  PROVE  \A n \in 0..last : h[n] \in S
<1> DEFINE T == {n \in Nat : n <= last => h[n] \in S}
<1>1. 0 \in T
  OBVIOUS
<1>2. ASSUME NEW n \in T, n + 1 <= last
      PROVE  h[n + 1] \in S
  <2>1. n + 1 \in 1..last /\ (n + 1) - 1 = n
    BY <1>2
  <2> QED BY <1>2, <2>1
<1>3. T \in SUBSET Nat /\ \A n \in T : n + 1 \in T
  BY <1>2
<1> HIDE DEF T
<1>4. T = Nat
  BY <1>1, <1>3, SetInduction, Zenon
<1> QED BY <1>4 DEF T

-----------------------------------------------------------------------------
(* The migrations                                                          *)

\* An object is replaced by one version at most.  If it were by two, a slow runner
\* could replace it by the older one after another runner has recorded the newer.
OneReplacer ==
  \A o \in Objects : \A v, w \in Authors(Editions, "replace", o) : v[1] = w[1]

\* An object is created by one version at most.  If it were by two, which of them has
\* made it would depend on which release came first.
OneCreator ==
  \A o \in Objects : \A v, w \in Authors(Editions, "create", o) : v[1] = w[1]

Schemas == [Objects -> [base : Editions \cup {NoEdition}, columns : SUBSET Editions]]

\* Whatever made, replaced or altered an object is an edition that says so.
HasAuthors(o) ==
  /\ schema[o].base \in {NoEdition} \cup Authors(Editions, "create", o) \cup Authors(Editions, "replace", o)
  /\ schema[o].columns \subseteq Authors(Editions, "alter", o)

\* A statement's effect is there, and a replacement is by no other version.
Left(e, statement) ==
  /\ Present(e, statement)
  /\ statement.kind = "replace" => schema[statement.object].base[1] = e[1]

\* What the ledger records has left its effects.
RecordedIsLeft ==
  \A e \in Recorded : \A i \in DOMAIN Statements[e] : Left(e, Statements[e][i])

Checksums == {NoChecksum} \cup UNION {Range(release) : release \in Releases}
Records == [step : {"idle", "prepared", "loop", "ok", "failed"}, release : Releases \cup {<<>>},
            applied : [Versions -> Checksums], at : Versions \cup {0}, statement : Nat]

StateIsTyped ==
  /\ schema \in Schemas /\ \A o \in Objects : HasAuthors(o)
  /\ ledger \in [Versions -> Checksums]
  /\ \A v \in Versions : ledger[v] \in {NoChecksum} \cup {r[v] : r \in {x \in Releases : v \in DOMAIN x}}
  /\ runner \in [Runners -> Records]
  /\ crashes \in 0..MaxCrashes

\* What a runner has executed of its version is there, whoever has executed since.
RunnerIsSound(r) ==
  LET v == runner[r].at
  IN  /\ runner[r].step \in {"prepared", "loop"} => runner[r].release \in Releases
      /\ v = 0 => runner[r].statement = 1
      /\ v # 0 =>
           /\ runner[r].step = "loop" /\ v \in DOMAIN runner[r].release
           /\ runner[r].statement \in 1..(Len(Script(r)) + 1)
           /\ \A i \in 1..(runner[r].statement - 1) : Left(Edition(r), Script(r)[i])

IInv ==
  /\ StateIsTyped /\ RecordedIsLeft /\ NoRollback
  /\ \A r \in Runners : RunnerIsSound(r)

-----------------------------------------------------------------------------
(* The operators                                                           *)

LEMMA ScriptsAreTyped ==
  ASSUME NEW e \in Editions
  PROVE  /\ e = <<e[1], e[2]>> /\ e[1] \in Nat \ {0} /\ e[1] \in Versions /\ e[2] # NoChecksum
         /\ Len(Statements[e]) \in Nat /\ DOMAIN Statements[e] = 1..Len(Statements[e])
         /\ \A i \in DOMAIN Statements[e] :
              Statements[e][i] \in [kind : Effects, object : Objects]
<1>1. e = <<e[1], e[2]>> /\ e[1] \in Nat \ {0} /\ e[2] # NoChecksum
  BY MigrationAssumption
<1>2. Statements[e] \in Seq([kind : Effects, object : Objects])
  BY MigrationAssumption
<1>3. e[1] \in Versions
  BY DEF Versions
<1> HIDE DEF Editions
<1> DEFINE S == [kind : Effects, object : Objects]
           q == Statements[e]
<1>4. q \in Seq(S)
  BY <1>2
<1> HIDE DEF S, q
<1>5. Len(q) \in Nat /\ DOMAIN q = 1..Len(q) /\ \A i \in DOMAIN q : q[i] \in S
  BY <1>4
<1> QED BY <1>1, <1>3, <1>5 DEF S, q

LEMMA VersionsAreTyped == Versions \subseteq Nat \ {0}
BY MigrationAssumption DEF Versions

LEMMA ReleasesAreTyped ==
  ASSUME NEW release \in Releases \cup Shipped
  PROVE  /\ DOMAIN release \subseteq Versions
         /\ \A v \in DOMAIN release : <<v, release[v]>> \in Editions /\ release[v] # NoChecksum
         /\ release \in Releases => \A v \in DOMAIN release : release[v] \in Checksums
<1>1. ASSUME NEW v \in DOMAIN release
      PROVE  <<v, release[v]>> \in Editions /\ release[v] # NoChecksum /\ v \in Versions
  <2>1. <<v, release[v]>> \in Editions
    BY MigrationAssumption DEF EditionsOf
  <2>2. PICK e \in Editions : e = <<v, release[v]>>
    BY <2>1
  <2>3. e[1] = v /\ e[2] = release[v]
    BY <2>2
  <2> QED BY <2>1, <2>3, ScriptsAreTyped
<1>2. release \in Releases => \A v \in DOMAIN release : release[v] \in Checksums
  BY DEF Checksums, Range
<1> QED BY <1>1, <1>2

LEMMA NextVersionIsOneOfTheRelease ==
  ASSUME NEW release \in Releases, NEW applied, NEW after
  PROVE  NextVersion(release, applied, after) \in DOMAIN release \cup {0}
<1> DEFINE next == {v \in DOMAIN release : v > after /\ applied[v] # release[v]}
<1>1. next \in SUBSET Nat
  BY ReleasesAreTyped, VersionsAreTyped
<1>2. CASE next = {}
  BY <1>2 DEF NextVersion
<1>3. CASE next # {}
  <2>1. Min(next) \in next
    BY <1>1, <1>3, MinIsLeast
  <2> QED BY <1>3, <2>1 DEF NextVersion
<1> QED BY <1>2, <1>3

LEMMA StatementsHaveAuthors ==
  ASSUME NEW e \in Editions, NEW i \in DOMAIN Statements[e]
  PROVE  e \in Authors(Editions, Statements[e][i].kind, Statements[e][i].object)
<1> DEFINE s == Statements[e][i]
<1>1. s = [kind |-> s.kind, object |-> s.object]
  BY ScriptsAreTyped
<1>2. s \in Range(Statements[e])
  BY DEF Range
<1> HIDE DEF s
<1> QED BY <1>1, <1>2 DEF Authors, s

\* The other way round.
LEMMA AuthorsHaveStatements ==
  ASSUME NEW kind \in Effects, NEW o \in Objects, NEW e \in Authors(Editions, kind, o)
  PROVE  /\ e \in Editions
         /\ \E i \in DOMAIN Statements[e] : Statements[e][i].kind = kind /\ Statements[e][i].object = o
<1>1. e \in Editions /\ [kind |-> kind, object |-> o] \in Range(Statements[e])
  BY DEF Authors
<1>2. PICK i \in DOMAIN Statements[e] : Statements[e][i] = [kind |-> kind, object |-> o]
  BY <1>1 DEF Range
<1> QED BY <1>1, <1>2

LEMMA ReplacersAreOne ==
  ASSUME OneReplacer,
         NEW e \in Editions, NEW i \in DOMAIN Statements[e],
         NEW d \in Editions, NEW j \in DOMAIN Statements[d],
         Statements[e][i].kind = "replace", Statements[d][j].kind = "replace",
         Statements[e][i].object = Statements[d][j].object
  PROVE  e[1] = d[1]
<1>1. Statements[e][i].object \in Objects
  BY ScriptsAreTyped
<1>2. e \in Authors(Editions, "replace", Statements[e][i].object)
  BY StatementsHaveAuthors
<1>3. d \in Authors(Editions, "replace", Statements[e][i].object)
  BY StatementsHaveAuthors
<1> QED BY <1>1, <1>2, <1>3 DEF OneReplacer

\* A statement leaves its effect, and takes nothing away that another one has left.
LEMMA StatementsOnlyAdd ==
  ASSUME OneReplacer, schema \in Schemas, \A o \in Objects : HasAuthors(o),
         NEW e \in Editions, NEW i \in DOMAIN Statements[e],
         ~Fails(schema, Statements[e][i]),
         schema' = Apply(schema, e, Statements[e][i])
  PROVE  /\ schema' \in Schemas /\ \A o \in Objects : HasAuthors(o)'
         /\ Left(e, Statements[e][i])'
         /\ \A d \in Editions : \A j \in DOMAIN Statements[d] :
              Left(d, Statements[d][j]) => Left(d, Statements[d][j])'
<1> DEFINE s == Statements[e][i]
           o == s.object
<1>1. s \in [kind : Effects, object : Objects] /\ o \in Objects /\ e[1] \in Nat \ {0} /\ e # NoEdition
  BY ScriptsAreTyped DEF NoEdition
<1>2. schema[o] \in [base : Editions \cup {NoEdition}, columns : SUBSET Editions]
  BY <1>1 DEF Schemas
<1>3. e \in Authors(Editions, s.kind, o)
  BY StatementsHaveAuthors
<1>4. CASE s.kind = "create" /\ schema[o].base # NoEdition
  <2>1. schema' = schema
    BY <1>4 DEF Apply
  <2>2. Left(e, s)'
    BY <1>4, <2>1 DEF Left, Present
  <2>3. \A p \in Objects : HasAuthors(p)'
    BY <2>1 DEF HasAuthors
  <2>4. \A d \in Editions : \A j \in DOMAIN Statements[d] :
          Left(d, Statements[d][j]) => Left(d, Statements[d][j])'
    BY <2>1 DEF Left, Present
  <2> QED BY <2>1, <2>2, <2>3, <2>4
<1>5. CASE s.kind = "alter"
  <2>1. schema' = [schema EXCEPT ![o].columns = @ \cup {e}]
    BY <1>5 DEF Apply
  <2>2. schema[o].base # NoEdition
    BY <1>5 DEF Fails
  <2>3. schema' \in Schemas
    BY <1>1, <1>2, <2>1 DEF Schemas
  <2>4. /\ \A p \in Objects : schema'[p].base = schema[p].base
        /\ \A p \in Objects : schema[p].columns \subseteq schema'[p].columns
        /\ \A p \in Objects : p # o => schema'[p].columns = schema[p].columns
        /\ schema'[o].columns = schema[o].columns \cup {e}
    BY <1>1, <1>2, <2>1 DEF Schemas
  <2>5. Left(e, s)'
    BY <1>1, <1>5, <2>2, <2>4 DEF Left, Present
  <2>6. ASSUME NEW d \in Editions, NEW j \in DOMAIN Statements[d], Left(d, Statements[d][j])
        PROVE  Left(d, Statements[d][j])'
    <3>1. Statements[d][j] \in [kind : Effects, object : Objects]
      BY ScriptsAreTyped
    <3> QED BY <2>4, <2>6, <3>1 DEF Left, Present, Effects
  <2>7. ASSUME NEW p \in Objects
        PROVE  HasAuthors(p)'
    <3>1. HasAuthors(p)
      OBVIOUS
    <3>2. schema'[p].columns \subseteq Authors(Editions, "alter", p)
      <4>1. CASE p = o
        BY <1>5, <1>3, <2>4, <3>1, <4>1 DEF HasAuthors
      <4>2. CASE p # o
        BY <2>4, <3>1, <4>2 DEF HasAuthors
      <4> QED BY <4>1, <4>2
    <3> QED BY <2>4, <3>1, <3>2 DEF HasAuthors
  <2> QED BY <2>3, <2>5, <2>6, <2>7
<1>6. CASE s.kind = "replace" \/ (s.kind = "create" /\ schema[o].base = NoEdition)
  <2>1. schema' = [schema EXCEPT ![o].base = e]
    BY <1>6 DEF Apply
  <2>2. schema' \in Schemas
    BY <1>1, <1>2, <2>1 DEF Schemas
  <2>3. /\ \A p \in Objects : p # o => schema'[p] = schema[p]
        /\ schema'[o].base = e /\ schema'[o].columns = schema[o].columns
    BY <1>1, <1>2, <2>1 DEF Schemas
  <2>4. Left(e, s)'
    <3>1. schema'[o].base # NoEdition /\ schema'[o].base[1] >= e[1]
      BY <1>1, <2>3
    <3> QED BY <1>6, <2>3, <3>1 DEF Left, Present
  <2>5. ASSUME NEW d \in Editions, NEW j \in DOMAIN Statements[d], Left(d, Statements[d][j])
        PROVE  Left(d, Statements[d][j])'
    <3> DEFINE q == Statements[d][j]
    <3>1. q \in [kind : Effects, object : Objects] /\ d[1] \in Nat \ {0}
      BY ScriptsAreTyped
    <3>2. CASE q.object # o
      BY <2>3, <2>5, <3>1, <3>2 DEF Left, Present, Effects
    <3>3. CASE q.object = o /\ q.kind \in {"create", "alter"}
      BY <1>1, <2>3, <2>5, <3>1, <3>3 DEF Left, Present
    <3>4. CASE q.object = o /\ q.kind = "replace"
      <4>1. schema[o].base[1] = d[1]
        BY <2>5, <3>4 DEF Left
      <4>2. s.kind = "replace"
        BY <1>6, <3>1, <4>1 DEF NoEdition
      <4>3. d[1] = e[1]
        BY <3>4, <4>2, ReplacersAreOne
      <4>4. schema'[o].base[1] >= d[1]
        BY <1>1, <2>3, <4>3
      <4> QED BY <2>3, <3>4, <4>3, <4>4 DEF Left, Present
    <3> QED BY <3>1, <3>2, <3>3, <3>4 DEF Effects
  <2>6. ASSUME NEW p \in Objects
        PROVE  HasAuthors(p)'
    <3>1. HasAuthors(p)
      OBVIOUS
    <3>2. CASE p = o
      BY <1>6, <1>3, <2>3, <3>1, <3>2 DEF HasAuthors
    <3>3. CASE p # o
      BY <2>3, <3>1, <3>3 DEF HasAuthors
    <3> QED BY <3>2, <3>3
  <2> QED BY <2>2, <2>4, <2>5, <2>6
<1> QED BY <1>1, <1>4, <1>5, <1>6 DEF Effects

-----------------------------------------------------------------------------
(* The steps                                                               *)

\* The schema has what it had.
Grows ==
  /\ schema' \in Schemas /\ \A o \in Objects : HasAuthors(o)'
  /\ \A d \in Editions : \A j \in DOMAIN Statements[d] :
       Left(d, Statements[d][j]) => Left(d, Statements[d][j])'

LEMMA UnchangedGrows ==
  ASSUME schema \in Schemas, \A o \in Objects : HasAuthors(o), UNCHANGED schema
  PROVE  Grows
BY DEF Grows, Left, Present, HasAuthors

\* The others are not affected by a step of r.
LEMMA OthersGoOn ==
  ASSUME IInv, Grows, NEW r \in Runners,
         runner' \in [Runners -> Records], \A q \in Runners \ {r} : runner'[q] = runner[q],
         RunnerIsSound(r)',
         Looping(r)' => \A v \in Versions \ DOMAIN runner'[r].release :
                          runner'[r].applied[v] = NoChecksum
  PROVE  NoRollback' /\ \A q \in Runners : RunnerIsSound(q)'
<1>1. NoRollback'
  BY DEF IInv, NoRollback, Looping
<1>2. ASSUME NEW q \in Runners \ {r}
      PROVE  RunnerIsSound(q)'
  <2>1. RunnerIsSound(q) /\ runner'[q] = runner[q]
    BY <1>2 DEF IInv
  <2> DEFINE v == runner[q].at
  <2>2. CASE v = 0
    BY <2>1, <2>2 DEF RunnerIsSound
  <2>3. CASE v # 0
    <3>1. Edition(q) \in Editions /\ runner[q].statement \in 1..(Len(Script(q)) + 1)
      <4>1. v \in DOMAIN runner[q].release /\ runner[q].release \in Releases
        BY <2>1, <2>3 DEF RunnerIsSound
      <4> QED BY <2>1, <2>3, <4>1, ReleasesAreTyped DEF RunnerIsSound, Edition
    <3>2. PICK e \in Editions : e = Edition(q)
      BY <3>1
    <3>3. Edition(q)' = e /\ Script(q) = Statements[e] /\ Script(q)' = Statements[e]
      BY <2>1, <3>2 DEF Edition, Script
    <3>4. \A i \in 1..(runner[q].statement - 1) : i \in DOMAIN Statements[e]
      BY <3>1, <3>3, ScriptsAreTyped
    <3>5. \A i \in 1..(runner[q].statement - 1) : Left(e, Statements[e][i])
      BY <2>1, <2>3, <3>2, <3>3 DEF RunnerIsSound
    <3>6. \A i \in 1..(runner[q].statement - 1) : Left(e, Statements[e][i])'
      BY <3>4, <3>5 DEF Grows
    <3> QED BY <2>1, <2>3, <3>1, <3>3, <3>6 DEF RunnerIsSound
  <2> QED BY <2>2, <2>3
<1> QED BY <1>1, <1>2

LEMMA LedgerHolds ==
  ASSUME IInv, Grows, UNCHANGED ledger
  PROVE  RecordedIsLeft'
BY DEF IInv, RecordedIsLeft, Recorded, Grows

\* A run that ends leaves nothing behind that is not sound.
LEMMA StoppedIsSound ==
  ASSUME IInv, NEW r \in Runners, NEW how \in {"idle", "ok", "failed"}, Stop(r, how)
  PROVE  /\ runner' \in [Runners -> Records] /\ \A q \in Runners \ {r} : runner'[q] = runner[q]
         /\ RunnerIsSound(r)' /\ ~Looping(r)'
<1>1. Stopped(how) \in Records
  BY DEF Stopped, Records, NoLedger, Checksums
<1>2. runner' = [runner EXCEPT ![r] = Stopped(how)] /\ runner \in [Runners -> Records]
  BY DEF Stop, IInv, StateIsTyped
<1>3. runner' \in [Runners -> Records] /\ \A q \in Runners \ {r} : runner'[q] = runner[q]
  BY <1>1, <1>2
<1>4. runner'[r] = Stopped(how)
  BY <1>2
<1>5. RunnerIsSound(r)' /\ ~Looping(r)'
  BY <1>4 DEF RunnerIsSound, Looping, Stopped
<1> QED BY <1>3, <1>5

LEMMA StopKeepsIInv ==
  ASSUME IInv, NEW r \in Runners, NEW how \in {"idle", "ok", "failed"}, Stop(r, how),
         Grows, UNCHANGED ledger, crashes' \in 0..MaxCrashes
  PROVE  IInv'
<1>1. NoRollback' /\ \A q \in Runners : RunnerIsSound(q)'
  BY StoppedIsSound, OthersGoOn
<1>2. RecordedIsLeft'
  BY LedgerHolds
<1>3. StateIsTyped'
  BY StoppedIsSound DEF IInv, StateIsTyped, Grows
<1> QED BY <1>1, <1>2, <1>3 DEF IInv

LEMMA StartKeepsIInv ==
  ASSUME IInv, NEW r \in Runners, NEW release \in Releases, Start(r, release)
  PROVE  IInv'
<1> DEFINE rec == [Stopped("prepared") EXCEPT !.release = release]
<1>1. /\ rec \in Records /\ rec.step = "prepared" /\ rec.release = release /\ rec.at = 0
      /\ rec.statement = 1
  BY DEF Stopped, Records, NoLedger, Checksums
<1>2. runner' = [runner EXCEPT ![r] = rec] /\ runner \in [Runners -> Records]
  BY DEF Start, IInv, StateIsTyped
<1> HIDE DEF rec
<1>3. /\ runner' \in [Runners -> Records] /\ \A q \in Runners \ {r} : runner'[q] = runner[q]
      /\ runner'[r] = rec
  BY <1>1, <1>2
<1>4. RunnerIsSound(r)' /\ ~Looping(r)'
  BY <1>1, <1>3 DEF RunnerIsSound, Looping
<1>5. Grows
  BY UnchangedGrows DEF Start, IInv, StateIsTyped
<1>6. NoRollback' /\ \A q \in Runners : RunnerIsSound(q)'
  BY <1>3, <1>4, <1>5, OthersGoOn
<1>7. RecordedIsLeft'
  BY <1>5, LedgerHolds DEF Start
<1>8. StateIsTyped'
  BY <1>3, <1>5 DEF Start, IInv, StateIsTyped, Grows
<1> QED BY <1>6, <1>7, <1>8 DEF IInv

\* A runner inside a version: the version is one of its release, and its statement
\* one of the version's or the end.
LEMMA PendingIsTyped ==
  ASSUME IInv, NEW r \in Runners, Pending(r)
  PROVE  /\ runner[r] \in Records /\ runner[r].release \in Releases
         /\ runner[r].at \in DOMAIN runner[r].release /\ runner[r].at \in Versions
         /\ Edition(r) \in Editions
         /\ runner[r].statement \in 1..(Len(Script(r)) + 1)
<1>1. runner[r] \in Records /\ RunnerIsSound(r) /\ Looping(r) /\ runner[r].at # 0
  BY DEF IInv, StateIsTyped, Pending
<1>2. runner[r].release \in Releases /\ runner[r].at \in DOMAIN runner[r].release
  BY <1>1 DEF RunnerIsSound, Looping
<1> QED BY <1>1, <1>2, ReleasesAreTyped DEF RunnerIsSound, Edition

LEMMA ExecutionGrows ==
  ASSUME OneReplacer, IInv, NEW r \in Runners, Pending(r),
         runner[r].statement <= Len(Script(r)), ~Fails(schema, Current(r)),
         schema' = Apply(schema, Edition(r), Current(r))
  PROVE  /\ Grows
         /\ \A e \in Editions : \A i \in DOMAIN Statements[e] :
              e = Edition(r) /\ i = runner[r].statement => Left(e, Statements[e][i])'
<1>1. PICK e \in Editions : e = Edition(r)
  BY PendingIsTyped
<1>2. PICK i \in DOMAIN Statements[e] : i = runner[r].statement
  BY <1>1, PendingIsTyped, ScriptsAreTyped DEF Script
<1>3. schema \in Schemas /\ \A o \in Objects : HasAuthors(o)
  BY DEF IInv, StateIsTyped
<1>4. ~Fails(schema, Statements[e][i]) /\ schema' = Apply(schema, e, Statements[e][i])
  BY <1>1, <1>2 DEF Current, Script
<1>5. /\ schema' \in Schemas /\ \A o \in Objects : HasAuthors(o)'
      /\ Left(e, Statements[e][i])'
      /\ \A d \in Editions : \A j \in DOMAIN Statements[d] :
           Left(d, Statements[d][j]) => Left(d, Statements[d][j])'
  BY <1>2, <1>3, <1>4, StatementsOnlyAdd
<1> QED BY <1>1, <1>2, <1>5 DEF Grows

LEMMA RecordingIsHonest ==
  ASSUME IInv, NEW r \in Runners, Pending(r), runner[r].statement > Len(Script(r)),
         UNCHANGED schema,
         ledger' = [ledger EXCEPT ![runner[r].at] = runner[r].release[runner[r].at]]
  PROVE  /\ ledger' \in [Versions -> Checksums]
         /\ \A v \in Versions :
              ledger'[v] \in {NoChecksum} \cup {q[v] : q \in {x \in Releases : v \in DOMAIN x}}
         /\ RecordedIsLeft'
<1> DEFINE v == runner[r].at
           release == runner[r].release
<1>1. v \in Versions /\ v \in DOMAIN release /\ release \in Releases /\ Edition(r) \in Editions
  BY PendingIsTyped
<1>2. release[v] \in Checksums
  BY <1>1, ReleasesAreTyped
<1>3. ledger \in [Versions -> Checksums]
  BY DEF IInv, StateIsTyped
<1>4. /\ ledger' \in [Versions -> Checksums] /\ ledger'[v] = release[v]
      /\ \A w \in Versions \ {v} : ledger'[w] = ledger[w]
  BY <1>1, <1>2, <1>3
<1>5. \A w \in Versions :
        ledger'[w] \in {NoChecksum} \cup {q[w] : q \in {x \in Releases : w \in DOMAIN x}}
  BY <1>1, <1>4 DEF IInv, StateIsTyped
<1>6. ASSUME NEW e \in Editions, ledger'[e[1]] = e[2], NEW i \in DOMAIN Statements[e]
      PROVE  Left(e, Statements[e][i])'
  <2>1. e = <<e[1], e[2]>> /\ e[1] \in Versions
    BY ScriptsAreTyped
  <2>2. Left(e, Statements[e][i])
    <3>1. CASE e[1] = v
      <4>1. RunnerIsSound(r) /\ v # 0
        BY DEF IInv, Pending
      <4>2. e = Edition(r)
        BY <1>4, <1>6, <2>1, <3>1 DEF Edition
      <4>3. i \in 1..(runner[r].statement - 1)
        BY <4>2, PendingIsTyped, ScriptsAreTyped DEF Script
      <4> QED BY <4>1, <4>2, <4>3 DEF RunnerIsSound, Script
    <3>2. CASE e[1] # v
      BY <1>4, <1>6, <2>1, <3>2 DEF IInv, RecordedIsLeft, Recorded
    <3> QED BY <3>1, <3>2
  <2> QED BY <2>2 DEF Left, Present
<1> QED BY <1>4, <1>5, <1>6 DEF RecordedIsLeft, Recorded

LEMMA ReadLedgerKeepsIInv ==
  ASSUME IInv, NEW r \in Runners, ReadLedger(r)
  PROVE  IInv'
<1>1. Grows
  BY UnchangedGrows DEF ReadLedger, IInv, StateIsTyped
<1>2. CASE Unknown(runner[r].release)
  BY <1>1, <1>2, StopKeepsIInv DEF ReadLedger, IInv, StateIsTyped
<1>3. CASE ~Unknown(runner[r].release)
  <2> DEFINE release == runner[r].release
             next == NextVersion(release, ledger, 0)
  <2>1. /\ runner' = [runner EXCEPT ![r].step = "loop", ![r].applied = ledger, ![r].at = next]
        /\ UNCHANGED <<schema, ledger, crashes>> /\ runner[r].step = "prepared"
    BY <1>3 DEF ReadLedger
  <2>2. runner \in [Runners -> Records] /\ runner[r] \in Records /\ ledger \in [Versions -> Checksums]
    BY DEF IInv, StateIsTyped
  <2>3. release \in Releases /\ runner[r].at = 0
    BY <2>1 DEF IInv, RunnerIsSound
  <2>4. next \in DOMAIN release \cup {0} /\ next \in Versions \cup {0}
    BY <2>3, NextVersionIsOneOfTheRelease, ReleasesAreTyped
  <2>5. \A v \in Versions \ DOMAIN release : ledger[v] = NoChecksum
    BY <1>3 DEF Unknown
  <2>6. /\ runner' \in [Runners -> Records] /\ \A q \in Runners \ {r} : runner'[q] = runner[q]
        /\ runner'[r].release = release /\ runner'[r].applied = ledger
        /\ runner'[r].at = next /\ runner'[r].statement = runner[r].statement
        /\ runner'[r].step = "loop"
    <3> HIDE DEF next
    <3> DEFINE one == [runner[r] EXCEPT !.step = "loop"]
               two == [one EXCEPT !.applied = ledger]
               rec == [two EXCEPT !.at = next]
    <3>1. /\ one \in Records /\ one.step = "loop"
          /\ one.release = release /\ one.statement = runner[r].statement
      BY <2>2 DEF Records
    <3> HIDE DEF one
    <3>2. /\ two \in Records /\ two.step = "loop" /\ two.applied = ledger
          /\ two.release = release /\ two.statement = runner[r].statement
      BY <2>2, <3>1 DEF Records
    <3> HIDE DEF two
    <3>3. /\ rec \in Records /\ rec.step = "loop" /\ rec.applied = ledger /\ rec.at = next
          /\ rec.release = release /\ rec.statement = runner[r].statement
      BY <2>4, <3>2 DEF Records
    <3> HIDE DEF rec
    <3>4. runner' = [runner EXCEPT ![r] = rec]
      BY <2>1, <2>2 DEF rec, two, one
    <3> QED BY <2>2, <3>3, <3>4
  <2>7. RunnerIsSound(r)'
    <3>1. runner[r].statement = 1
      BY <2>3 DEF IInv, RunnerIsSound
    <3>2. next # 0 => Len(Statements[<<next, release[next]>>]) \in Nat
      BY <2>3, <2>4, ReleasesAreTyped, ScriptsAreTyped
    <3>3. Script(r)' = Statements[<<next, release[next]>>]
      BY <2>6 DEF Script, Edition
    <3> HIDE DEF next
    <3>4. /\ next # 0 => next \in DOMAIN release
          /\ next # 0 => Len(Script(r)') \in Nat
      BY <2>4, <3>2, <3>3
    <3> QED BY <2>3, <2>6, <3>1, <3>4 DEF RunnerIsSound
  <2>8. NoRollback' /\ \A q \in Runners : RunnerIsSound(q)'
    BY <1>1, <2>5, <2>6, <2>7, OthersGoOn
  <2>9. RecordedIsLeft' /\ StateIsTyped'
    BY <1>1, <2>1, <2>6, LedgerHolds DEF IInv, StateIsTyped, Grows
  <2> QED BY <2>8, <2>9 DEF IInv
<1> QED BY <1>2, <1>3

LEMMA ExecuteKeepsIInv ==
  ASSUME OneReplacer, IInv, NEW r \in Runners, Execute(r)
  PROVE  IInv'
<1>1. Pending(r) /\ runner[r].statement <= Len(Script(r)) /\ UNCHANGED <<ledger, crashes>>
  BY DEF Execute
<1>2. CASE Fails(schema, Current(r))
  <2>1. Stop(r, "failed") /\ UNCHANGED schema
    BY <1>2 DEF Execute
  <2> QED BY <1>1, <2>1, UnchangedGrows, StopKeepsIInv DEF IInv, StateIsTyped
<1>3. CASE ~Fails(schema, Current(r))
  <2>1. /\ schema' = Apply(schema, Edition(r), Current(r))
        /\ runner' = [runner EXCEPT ![r].statement = @ + 1]
    BY <1>3 DEF Execute
  <2>2. /\ Grows
        /\ \A e \in Editions : \A i \in DOMAIN Statements[e] :
             e = Edition(r) /\ i = runner[r].statement => Left(e, Statements[e][i])'
    BY <1>1, <1>3, <2>1, ExecutionGrows
  <2>3. /\ runner' \in [Runners -> Records] /\ \A q \in Runners \ {r} : runner'[q] = runner[q]
        /\ runner'[r].step = runner[r].step /\ runner'[r].release = runner[r].release
        /\ runner'[r].applied = runner[r].applied /\ runner'[r].at = runner[r].at
        /\ runner'[r].statement = runner[r].statement + 1
    <3> DEFINE rec == [runner[r] EXCEPT !.statement = @ + 1]
    <3>1. runner \in [Runners -> Records] /\ runner[r] \in Records
      BY DEF IInv, StateIsTyped
    <3>2. /\ rec \in Records /\ rec.step = runner[r].step /\ rec.release = runner[r].release
          /\ rec.applied = runner[r].applied /\ rec.at = runner[r].at
          /\ rec.statement = runner[r].statement + 1
      BY <3>1 DEF Records
    <3>3. runner' = [runner EXCEPT ![r] = rec]
      BY <2>1
    <3> HIDE DEF rec
    <3> QED BY <3>1, <3>2, <3>3
  <2>4. RunnerIsSound(r)'
    <3>1. RunnerIsSound(r) /\ runner[r].at # 0
      BY <1>1 DEF IInv, Pending
    <3>2. PICK e \in Editions, n \in Nat : e = Edition(r) /\ n = runner[r].statement
      BY <1>1, PendingIsTyped
    <3>3. n \in 1..Len(Statements[e]) /\ Len(Statements[e]) \in Nat
      BY <1>1, <3>2, PendingIsTyped, ScriptsAreTyped DEF Script
    <3>4. \A i \in 1..n : i \in DOMAIN Statements[e]
      BY <3>3, ScriptsAreTyped
    <3>5. \A i \in 1..(n - 1) : Left(e, Statements[e][i])
      BY <3>1, <3>2 DEF RunnerIsSound, Script
    <3>6. \A i \in 1..n : Left(e, Statements[e][i])'
      BY <2>2, <3>2, <3>3, <3>4, <3>5 DEF Grows
    <3>7. Edition(r)' = e /\ Script(r)' = Statements[e]
      BY <2>3, <3>2 DEF Edition, Script
    <3>8. runner[r].at \in DOMAIN runner[r].release /\ runner[r].step = "loop" /\ runner[r].release \in Releases
      BY <3>1 DEF RunnerIsSound
    <3>9. runner'[r].statement = n + 1 /\ n + 1 \in 1..(Len(Statements[e]) + 1) /\ (n + 1) - 1 = n
      BY <2>3, <3>2, <3>3
    <3> QED BY <2>3, <3>1, <3>6, <3>7, <3>8, <3>9 DEF RunnerIsSound
  <2>5. NoRollback' /\ \A q \in Runners : RunnerIsSound(q)'
    BY <2>2, <2>3, <2>4, OthersGoOn DEF IInv, NoRollback, Looping
  <2>6. RecordedIsLeft' /\ StateIsTyped'
    BY <1>1, <2>2, <2>3, LedgerHolds DEF IInv, StateIsTyped, Grows
  <2> QED BY <2>5, <2>6 DEF IInv
<1> QED BY <1>2, <1>3

LEMMA RecordKeepsIInv ==
  ASSUME IInv, NEW r \in Runners, Record(r)
  PROVE  IInv'
<1> DEFINE release == runner[r].release
           next == NextVersion(release, runner[r].applied, runner[r].at)
<1>1. /\ Pending(r) /\ runner[r].statement > Len(Script(r)) /\ UNCHANGED <<schema, crashes>>
      /\ ledger' = [ledger EXCEPT ![runner[r].at] = runner[r].release[runner[r].at]]
      /\ runner' = [runner EXCEPT ![r].statement = 1, ![r].at = next]
  BY DEF Record
<1>2. /\ ledger' \in [Versions -> Checksums]
      /\ \A v \in Versions :
           ledger'[v] \in {NoChecksum} \cup {q[v] : q \in {x \in Releases : v \in DOMAIN x}}
      /\ RecordedIsLeft'
  BY <1>1, RecordingIsHonest
<1>3. runner[r] \in Records /\ release \in Releases /\ runner \in [Runners -> Records]
  BY <1>1, PendingIsTyped DEF IInv, StateIsTyped
<1>4. next \in DOMAIN release \cup {0} /\ next \in Versions \cup {0}
  BY <1>3, NextVersionIsOneOfTheRelease, ReleasesAreTyped
<1>5. /\ runner' \in [Runners -> Records] /\ \A q \in Runners \ {r} : runner'[q] = runner[q]
      /\ runner'[r].step = runner[r].step /\ runner'[r].release = release
      /\ runner'[r].applied = runner[r].applied /\ runner'[r].at = next
      /\ runner'[r].statement = 1
  <2> HIDE DEF next
  <2> DEFINE one == [runner[r] EXCEPT !.statement = 1]
             rec == [one EXCEPT !.at = next]
  <2>1. /\ one \in Records /\ one.step = runner[r].step /\ one.release = release
        /\ one.applied = runner[r].applied /\ one.statement = 1
    BY <1>3 DEF Records
  <2> HIDE DEF one
  <2>2. /\ rec \in Records /\ rec.step = runner[r].step /\ rec.release = release
        /\ rec.applied = runner[r].applied /\ rec.statement = 1 /\ rec.at = next
    BY <1>4, <2>1 DEF Records
  <2> HIDE DEF rec
  <2>3. runner' = [runner EXCEPT ![r] = rec]
    BY <1>1, <1>3 DEF rec, one
  <2> QED BY <1>3, <2>2, <2>3
<1>6. RunnerIsSound(r)'
  <2>1. next # 0 => Len(Statements[<<next, release[next]>>]) \in Nat
    BY <1>3, <1>4, ReleasesAreTyped, ScriptsAreTyped
  <2>2. runner[r].step = "loop"
    BY <1>1 DEF Pending, Looping
  <2>3. Script(r)' = Statements[<<next, release[next]>>]
    BY <1>5 DEF Script, Edition
  <2> HIDE DEF next
  <2>4. /\ next # 0 => next \in DOMAIN release
        /\ next # 0 => Len(Script(r)') \in Nat
    BY <1>4, <2>1, <2>3
  <2> QED BY <1>3, <1>5, <2>2, <2>4 DEF RunnerIsSound
<1>7. Grows
  BY <1>1, UnchangedGrows DEF IInv, StateIsTyped
<1>8. NoRollback' /\ \A q \in Runners : RunnerIsSound(q)'
  BY <1>5, <1>6, <1>7, OthersGoOn DEF IInv, NoRollback, Looping
<1>9. StateIsTyped'
  BY <1>1, <1>2, <1>5, <1>7 DEF IInv, StateIsTyped, Grows
<1> QED BY <1>2, <1>8, <1>9 DEF IInv

LEMMA CrashKeepsIInv ==
  ASSUME OneReplacer, IInv, NEW r \in Runners, Crash(r)
  PROVE  IInv'
<1>1. Stop(r, "failed") /\ crashes' \in 0..MaxCrashes
  BY MigrationAssumption DEF Crash, IInv, StateIsTyped
<1>2. schema \in Schemas /\ \A o \in Objects : HasAuthors(o)
  BY DEF IInv, StateIsTyped
<1>3. CASE UNCHANGED <<schema, ledger>>
  BY <1>1, <1>2, <1>3, UnchangedGrows, StopKeepsIInv
<1>4. CASE /\ Pending(r) /\ UNCHANGED ledger
           /\ runner[r].statement <= Len(Script(r)) /\ ~Fails(schema, Current(r))
           /\ schema' = Apply(schema, Edition(r), Current(r))
  BY <1>1, <1>4, ExecutionGrows, StopKeepsIInv
<1>5. CASE /\ Pending(r) /\ runner[r].statement > Len(Script(r)) /\ UNCHANGED schema
           /\ ledger' = [ledger EXCEPT ![runner[r].at] = runner[r].release[runner[r].at]]
  <2>1. Grows
    BY <1>2, <1>5, UnchangedGrows
  <2>2. /\ ledger' \in [Versions -> Checksums]
        /\ \A v \in Versions :
             ledger'[v] \in {NoChecksum} \cup {q[v] : q \in {x \in Releases : v \in DOMAIN x}}
        /\ RecordedIsLeft'
    BY <1>5, RecordingIsHonest
  <2>3. NoRollback' /\ \A q \in Runners : RunnerIsSound(q)'
    BY <1>1, <2>1, StoppedIsSound, OthersGoOn
  <2>4. StateIsTyped'
    BY <1>1, <2>1, <2>2, StoppedIsSound DEF IInv, StateIsTyped, Grows
  <2> QED BY <2>2, <2>3, <2>4 DEF IInv
<1> QED BY <1>3, <1>4, <1>5 DEF Crash

\* The newest and the oldest of some editions are among them.
LEMMA ExtremesAreMembers ==
  ASSUME NEW S \in SUBSET Editions, S # {}
  PROVE  /\ (\A d, e \in S : d[1] = e[1]) => Newest(S) \in S
         /\ Oldest(S) \in S
<1>1. \A e \in S : e[1] \in Nat
  BY MigrationAssumption
<1>2. ASSUME \A d, e \in S : d[1] = e[1]
      PROVE  Newest(S) \in S
  <2>1. \E e \in S : \A d \in S : e[1] >= d[1]
    BY <1>1, <1>2
  <2> QED BY <2>1 DEF Newest
<1>3. Oldest(S) \in S
  <2> DEFINE versions == {e[1] : e \in S}
  <2>1. versions \in SUBSET Nat /\ versions # {}
    BY <1>1
  <2>2. Min(versions) \in versions /\ \A y \in versions : Min(versions) <= y
    BY <2>1, MinIsLeast
  <2>3. PICK e \in S : e[1] = Min(versions)
    BY <2>2
  <2>4. \A d \in S : d[1] \in versions
    OBVIOUS
  <2> HIDE DEF versions
  <2>5. \E x \in S : \A d \in S : x[1] <= d[1]
    BY <2>2, <2>3, <2>4
  <2> QED BY <2>5 DEF Oldest
<1> QED BY <1>2, <1>3

\* What the entrypoint has left behind has the editions of its release as authors.
LEMMA PreparedHasAuthors ==
  ASSUME OneReplacer, NEW release, EditionsOf(release) \subseteq Editions,
         schema = InOrder(release)
  PROVE  schema \in Schemas /\ \A o \in Objects : HasAuthors(o)
<1> DEFINE editions == EditionsOf(release)
<1>1. ASSUME NEW o \in Objects
      PROVE  /\ schema[o] \in [base : Editions \cup {NoEdition}, columns : SUBSET Editions]
             /\ HasAuthors(o)
  <2> DEFINE made == Authors(editions, "create", o)
             replaced == Authors(editions, "replace", o)
             base == IF replaced # {} THEN Newest(replaced)
                     ELSE IF made # {} THEN Oldest(made) ELSE NoEdition
  <2>1. schema[o] = [base |-> base, columns |-> Authors(editions, "alter", o)]
    BY DEF InOrder
  <2>2. \A kind : Authors(editions, kind, o) \subseteq Authors(Editions, kind, o)
    BY DEF Authors
  <2>3. \A kind : Authors(Editions, kind, o) \subseteq Editions
    BY DEF Authors
  <2>4. base \in {NoEdition} \cup Authors(Editions, "create", o) \cup Authors(Editions, "replace", o)
    <3>1. CASE replaced # {}
      <4>1. replaced \in SUBSET Editions /\ \A d, e \in replaced : d[1] = e[1]
        BY <2>2, <2>3 DEF OneReplacer
      <4>2. Newest(replaced) \in replaced
        BY <3>1, <4>1, ExtremesAreMembers
      <4> QED BY <2>2, <3>1, <4>2
    <3>2. CASE replaced = {} /\ made # {}
      <4>1. made \in SUBSET Editions
        BY <2>2, <2>3
      <4>2. Oldest(made) \in made
        BY <3>2, <4>1, ExtremesAreMembers
      <4> QED BY <2>2, <3>2, <4>2
    <3>3. CASE replaced = {} /\ made = {}
      BY <3>3
    <3> QED BY <3>1, <3>2, <3>3
  <2> HIDE DEF base
  <2>5. Authors(editions, "alter", o) \subseteq Editions /\ base \in Editions \cup {NoEdition}
    BY <2>2, <2>3, <2>4
  <2> QED BY <2>1, <2>2, <2>4, <2>5 DEF HasAuthors
<1>2. DOMAIN schema = Objects /\ schema = [o \in Objects |-> schema[o]]
  BY DEF InOrder
<1>3. schema \in Schemas
  BY <1>1, <1>2 DEF Schemas
<1> QED BY <1>1, <1>3

LEMMA InitEstablishesIInv ==
  ASSUME OneReplacer, Init
  PROVE  IInv
<1>1. schema \in Schemas /\ \A o \in Objects : HasAuthors(o)
  <2>1. CASE schema = NoSchema
    BY <2>1 DEF NoSchema, Schemas, HasAuthors
  <2>2. CASE schema # NoSchema
    <3>1. PICK release \in Shipped : schema = InOrder(release)
      BY <2>2 DEF Init
    <3>2. EditionsOf(release) \subseteq Editions
      BY MigrationAssumption
    <3> QED BY <3>1, <3>2, PreparedHasAuthors
  <2> QED BY <2>1, <2>2
<1>2. Stopped("idle") \in Records
  BY DEF Stopped, Records, NoLedger, Checksums
<1>3. /\ ledger = NoLedger /\ crashes = 0 /\ runner = [r \in Runners |-> Stopped("idle")]
  BY DEF Init
<1>4. StateIsTyped
  BY <1>1, <1>2, <1>3, MigrationAssumption DEF StateIsTyped, NoLedger, Checksums
<1>5. RecordedIsLeft
  BY <1>3, ScriptsAreTyped DEF RecordedIsLeft, Recorded, NoLedger
<1>6. \A r \in Runners : RunnerIsSound(r) /\ ~Looping(r)
  BY <1>3 DEF RunnerIsSound, Looping, Stopped
<1> QED BY <1>4, <1>5, <1>6 DEF IInv, NoRollback

LEMMA NextKeepsIInv ==
  ASSUME OneReplacer, IInv, [Next]_vars
  PROVE  IInv'
<1>1. ASSUME NEW r \in Runners, Drift(r) \/ Finish(r)
      PROVE  IInv'
  <2>1. \E how \in {"ok", "failed"} : Stop(r, how) /\ UNCHANGED <<schema, ledger, crashes>>
    BY <1>1 DEF Drift, Finish
  <2> QED BY <2>1, UnchangedGrows, StopKeepsIInv DEF IInv, StateIsTyped
<1>2. ASSUME NEW r \in Runners, Run(r)
      PROVE  IInv'
  BY <1>1, <1>2, ReadLedgerKeepsIInv, ExecuteKeepsIInv, RecordKeepsIInv DEF Run
<1>3. CASE UNCHANGED vars
  <2>1. UNCHANGED schema /\ UNCHANGED ledger /\ UNCHANGED runner /\ UNCHANGED crashes
    BY <1>3 DEF vars
  <2>2. Grows
    BY <2>1, UnchangedGrows DEF IInv, StateIsTyped
  <2>3. StateIsTyped'
    BY <2>1, <2>2 DEF IInv, StateIsTyped, Grows
  <2>4. RecordedIsLeft'
    BY <2>1, <2>2, LedgerHolds
  <2>5. NoRollback'
    BY <2>1 DEF IInv, NoRollback, Looping
  <2>6. ASSUME NEW r \in Runners
        PROVE  RunnerIsSound(r)'
    <3>1. RunnerIsSound(r)
      BY DEF IInv
    <3> QED BY <2>1, <3>1 DEF RunnerIsSound, Left, Present, Edition, Script
  <2> QED BY <2>3, <2>4, <2>5, <2>6 DEF IInv
<1> QED BY <1>2, <1>3, CrashKeepsIInv, StartKeepsIInv DEF Next

-----------------------------------------------------------------------------
\* The inductive invariant: what a runner has executed of its version stays.
THEOREM MigrationInvariance ==
  ASSUME OneReplacer
  PROVE  Spec => []IInv
<1>1. Init => IInv
  BY InitEstablishesIInv
<1>2. IInv /\ [Next]_vars => IInv'
  BY NextKeepsIInv
<1> QED BY <1>1, <1>2, PTL DEF Spec

\* The database has what its ledger says, however many runners of however many
\* releases were cut short or overlapped, and no older one runs past a newer one.
THEOREM LedgerIsHonest ==
  ASSUME OneReplacer
  PROVE  Spec => []Inv
<1>1. IInv => Inv
  <2> SUFFICES ASSUME IInv PROVE TypeOK
    BY DEF IInv, Inv, RecordedIsLeft, RecordedIsDone, Left
  <2>1. \A o \in Objects :
          schema[o].base \in Editions \cup {NoEdition} /\ schema[o].columns \subseteq Editions
    BY DEF IInv, StateIsTyped, Schemas
  <2>2. ASSUME NEW r \in Runners
        PROVE  /\ runner[r].step \in {"idle", "prepared", "loop", "ok", "failed"}
               /\ runner[r].at \in Versions \cup {0}
               /\ runner[r].at # 0 => runner[r].statement \in 1..(Len(Script(r)) + 1)
    BY DEF IInv, StateIsTyped, RunnerIsSound, Records
  <2> QED BY <2>1, <2>2 DEF TypeOK, IInv, StateIsTyped
<1> QED BY <1>1, MigrationInvariance, PTL

\* When everything is recorded, whatever ran, in whatever order and by however many
\* runners, the schema is the one that a single undisturbed run makes.
THEOREM SchemaIsUndisturbed ==
  ASSUME OneReplacer, OneCreator
  PROVE  Spec => []SameAsUndisturbed
<1>1. IInv => SameAsUndisturbed
  <2> SUFFICES ASSUME IInv, \A v \in Versions : ledger[v] # NoChecksum,
                      NEW o \in Objects, Traces(o) \subseteq Recorded
               PROVE  schema[o] = InOrder([v \in Versions |-> ledger[v]])[o]
    BY DEF SameAsUndisturbed
  <2> DEFINE whole == [v \in Versions |-> ledger[v]]
             made == Authors(Recorded, "create", o)
             replaced == Authors(Recorded, "replace", o)
             altered == Authors(Recorded, "alter", o)
             base == IF replaced # {} THEN Newest(replaced)
                     ELSE IF made # {} THEN Oldest(made) ELSE NoEdition
  <2>1. schema \in Schemas /\ HasAuthors(o)
    BY DEF IInv, StateIsTyped
  <2>2. \A e \in Recorded : \A i \in DOMAIN Statements[e] : Left(e, Statements[e][i])
    BY DEF IInv, RecordedIsLeft
  <2>3. EditionsOf(whole) = Recorded
    <3>1. ASSUME NEW v \in Versions
          PROVE  <<v, ledger[v]>> \in Recorded
      <4>1. PICK release \in Releases : v \in DOMAIN release /\ ledger[v] = release[v]
        BY DEF IInv, StateIsTyped
      <4>2. <<v, ledger[v]>> \in Editions
        BY <4>1, ReleasesAreTyped
      <4> QED BY <4>2 DEF Recorded
    <3>2. ASSUME NEW e \in Recorded
          PROVE  e[1] \in Versions /\ e = <<e[1], whole[e[1]]>>
      <4>1. e \in Editions /\ ledger[e[1]] = e[2]
        BY DEF Recorded
      <4> QED BY <4>1, ScriptsAreTyped
    <3> QED BY <3>1, <3>2 DEF EditionsOf
  <2>4. InOrder(whole)[o] = [base |-> base, columns |-> altered]
    <3> HIDE DEF whole
    <3> QED BY <2>3 DEF InOrder
  <2>5. Recorded \subseteq Editions /\ \A d, e \in Recorded : d[1] = e[1] => d = e
    <3>1. ASSUME NEW d \in Recorded, NEW e \in Recorded, d[1] = e[1]
          PROVE  d = e
      <4>1. d \in Editions /\ e \in Editions /\ d[2] = e[2]
        BY <3>1 DEF Recorded
      <4>2. d = <<d[1], d[2]>> /\ e = <<e[1], e[2]>>
        BY <4>1, ScriptsAreTyped
      <4> QED BY <3>1, <4>1, <4>2
    <3> QED BY <3>1 DEF Recorded
  <2>6. \A kind : /\ Authors(Recorded, kind, o) = Authors(Editions, kind, o) \cap Recorded
                  /\ Authors(Recorded, kind, o) \subseteq Recorded
    BY <2>5 DEF Authors
  <2>7. /\ schema[o].columns \subseteq Recorded
        /\ schema[o].base = NoEdition \/ schema[o].base \in Recorded
    BY DEF Traces
  <2>8. ASSUME NEW kind \in Effects, NEW e \in Authors(Recorded, kind, o)
        PROVE  \E i \in DOMAIN Statements[e] :
                 Statements[e][i].kind = kind /\ Statements[e][i].object = o /\ Left(e, Statements[e][i])
    <3>1. e \in Authors(Editions, kind, o) /\ e \in Recorded
      BY <2>6
    <3> QED BY <2>2, <3>1, AuthorsHaveStatements
  <2>9. schema[o].columns = altered
    <3>1. ASSUME NEW e \in altered
          PROVE  e \in schema[o].columns
      BY <2>8 DEF Left, Present, Effects
    <3>2. schema[o].columns \subseteq Authors(Editions, "alter", o)
      BY <2>1 DEF HasAuthors
    <3> QED BY <2>6, <2>7, <3>1, <3>2
  <2>10. schema[o].base = base
    <3>1. CASE replaced # {}
      <4>1. PICK e \in replaced : TRUE
        BY <3>1
      <4>2. schema[o].base[1] = e[1]
        BY <2>8 DEF Left, Effects
      <4>3. e \in Recorded /\ \A d \in replaced : d = e
        BY <2>5, <2>6 DEF OneReplacer
      <4>4. e[1] # 0
        BY <2>5, <4>3, ScriptsAreTyped
      <4>5. schema[o].base = e
        BY <2>5, <2>7, <4>2, <4>3, <4>4 DEF NoEdition
      <4>6. Newest(replaced) = e
        <5>1. replaced \in SUBSET Editions /\ \A d, f \in replaced : d[1] = f[1]
          BY <2>5, <2>6, <4>3
        <5> HIDE DEF replaced
        <5>2. Newest(replaced) \in replaced
          BY <3>1, <5>1, ExtremesAreMembers
        <5> QED BY <4>3, <5>2
      <4> QED BY <3>1, <4>5, <4>6
    <3>2. CASE replaced = {} /\ made # {}
      <4>1. PICK e \in made : TRUE
        BY <3>2
      <4>2. schema[o].base # NoEdition
        BY <2>8 DEF Left, Present, Effects
      <4>3. e \in Recorded /\ \A d \in made : d = e
        BY <2>5, <2>6 DEF OneCreator
      <4>4. schema[o].base \in made
        BY <2>1, <2>6, <2>7, <3>2, <4>2 DEF HasAuthors
      <4>5. Oldest(made) \in made
        <5>1. made \in SUBSET Editions
          BY <2>5, <2>6
        <5> HIDE DEF made
        <5> QED BY <3>2, <5>1, ExtremesAreMembers
      <4>6. base = Oldest(made)
        BY <3>2
      <4> QED BY <4>3, <4>4, <4>5, <4>6
    <3>3. CASE replaced = {} /\ made = {}
      <4>1. schema[o].base = NoEdition
        BY <2>1, <2>6, <2>7, <3>3 DEF HasAuthors
      <4> QED BY <3>3, <4>1
    <3> QED BY <3>1, <3>2, <3>3
  <2> HIDE DEF base, altered, whole
  <2>11. schema[o] = [base |-> base, columns |-> altered]
    BY <2>1, <2>9, <2>10 DEF Schemas
  <2> QED BY <2>4, <2>11 DEF whole
<1> QED BY <1>1, MigrationInvariance, PTL

-----------------------------------------------------------------------------
(* The disk alert                                                          *)

RunsOfAlert == [over : BOOLEAN, mailed : BOOLEAN, ok : BOOLEAN,
                file : {"missing", "empty", "ok", "alerted"}]

LEMMA CheckIsTyped ==
  ASSUME NEW file \in {"missing", "empty", "ok", "alerted"}, NEW tick \in Ticks
  PROVE  Check(file, tick) \in RunsOfAlert
<1>1. tick.over \in BOOLEAN /\ tick.fate \in Fates
  BY DEF Ticks
<1>2. \A f \in {"missing", "empty", "ok", "alerted"}, mailed, ok \in BOOLEAN :
        Ended(f, tick, mailed, ok) \in RunsOfAlert
  BY <1>1 DEF Ended, RunsOfAlert
<1>3. \A state \in {"ok", "alerted"}, mailed \in BOOLEAN :
        Save(file, tick, mailed, state) \in RunsOfAlert
  <2> TAKE state \in {"ok", "alerted"}, mailed \in BOOLEAN
  <2>1. CASE tick.fate = "write"
    BY <1>2, <2>1 DEF Save
  <2>2. CASE tick.fate = "torn"
    BY <1>2, <2>2 DEF Save
  <2>3. CASE tick.fate \notin {"write", "torn"}
    BY <1>2, <2>3 DEF Save
  <2> QED BY <2>1, <2>2, <2>3
<1>4. Alert(file, tick) \in RunsOfAlert
  BY <1>2, <1>3 DEF Alert
<1> QED BY <1>1, <1>2, <1>3, <1>4 DEF Check

\* Every run follows from the one before it.
FollowsTicks(run, ticks) ==
  run = [n \in 0..Len(ticks) |-> IF n = 0 THEN NoRun ELSE Check(run[n - 1].file, ticks[n])]

LEMMA HistoryFollowsTicks ==
  ASSUME NEW ticks \in Seq(Ticks)
  PROVE  /\ History(ticks) \in [0..Len(ticks) -> RunsOfAlert]
         /\ History(ticks)[0] = NoRun
         /\ \A n \in 1..Len(ticks) :
              History(ticks)[n] = Check(History(ticks)[n - 1].file, ticks[n])
<1> DEFINE last == Len(ticks)
           F == [p \in RunsOfAlert \X (1..last) |-> Check(p[1].file, ticks[p[2]])]
<1>1. last \in Nat /\ \A n \in 1..last : ticks[n] \in Ticks
  OBVIOUS
<1>2. F \in [RunsOfAlert \X (1..last) -> RunsOfAlert]
  <2>1. ASSUME NEW p \in RunsOfAlert \X (1..last)
        PROVE  Check(p[1].file, ticks[p[2]]) \in RunsOfAlert
    <3>1. p[1].file \in {"missing", "empty", "ok", "alerted"}
      BY DEF RunsOfAlert
    <3> QED BY <1>1, <3>1, CheckIsTyped
  <2> QED BY <2>1
<1>3. \A x \in RunsOfAlert, n \in 1..last : F[<<x, n>>] = Check(x.file, ticks[n])
  OBVIOUS
<1>4. NoRun \in RunsOfAlert
  BY DEF NoRun, RunsOfAlert
<1> HIDE DEF F, last
<1>5. PICK h \in [0..last -> RunsOfAlert] :
        h[0] = NoRun /\ \A n \in 1..last : h[n] = F[<<h[n - 1], n>>]
  <2>1. PICK h \in [0..last -> RunsOfAlert] : Solves(h, NoRun, last, F)
    BY <1>1, <1>2, <1>4, RecursionHasASolution
  <2> QED BY <2>1 DEF Solves
<1>6. \A n \in 1..last : h[n] = Check(h[n - 1].file, ticks[n])
  <2> TAKE n \in 1..last
  <2>1. n - 1 \in 0..last
    BY <1>1
  <2> QED BY <1>3, <1>5, <2>1
<1>7. h = [n \in 0..last |-> IF n = 0 THEN NoRun ELSE Check(h[n - 1].file, ticks[n])]
  <2> DEFINE g == [n \in 0..last |-> IF n = 0 THEN NoRun ELSE Check(h[n - 1].file, ticks[n])]
  <2>1. ASSUME NEW n \in 0..last
        PROVE  h[n] = g[n]
    <3>1. n = 0 \/ n \in 1..last
      BY <1>1
    <3> QED BY <1>5, <1>6, <3>1
  <2>2. h = [n \in 0..last |-> h[n]] /\ g = [n \in 0..last |-> g[n]]
    BY <1>5
  <2> HIDE DEF g
  <2>3. h = g
    BY <2>1, <2>2
  <2> QED BY <2>3 DEF g
<1>8. \E run : FollowsTicks(run, ticks)
  BY <1>7, Zenon DEF FollowsTicks, last
<1>9. FollowsTicks(History(ticks), ticks)
  <2>1. History(ticks) = CHOOSE run : FollowsTicks(run, ticks)
    BY DEF History, FollowsTicks
  <2>2. FollowsTicks(CHOOSE run : FollowsTicks(run, ticks), ticks)
    BY <1>8, Zenon
  <2> QED BY <2>1, <2>2
<1> DEFINE H == History(ticks)
<1> HIDE DEF H
<1>10. H = [n \in 0..last |-> IF n = 0 THEN NoRun ELSE Check(H[n - 1].file, ticks[n])]
  BY <1>9, Zenon DEF FollowsTicks, H, last
<1>11. /\ DOMAIN H = 0..last /\ H[0] = NoRun
       /\ \A n \in 1..last : H[n] = Check(H[n - 1].file, ticks[n])
  <2>1. 0 \in 0..last /\ \A n \in 1..last : n \in 0..last /\ n # 0
    BY <1>1
  <2> QED BY <1>10, <2>1
<1>12. H \in [0..last -> RunsOfAlert]
  <2>1. ASSUME NEW n \in 1..last, H[n - 1] \in RunsOfAlert
        PROVE  H[n] \in RunsOfAlert
    <3>1. H[n - 1].file \in {"missing", "empty", "ok", "alerted"}
      BY <2>1 DEF RunsOfAlert
    <3> QED BY <1>1, <1>11, <3>1, CheckIsTyped
  <2>2. \A n \in 0..last : H[n] \in RunsOfAlert
    BY <1>1, <1>4, <1>11, <2>1, StaysInside
  <2>3. H = [n \in 0..last |-> H[n]]
    BY <1>10
  <2> QED BY <2>2, <2>3
<1> QED BY <1>11, <1>12 DEF H, last

\* What one run does, told by the state file it finds.
LEMMA CheckObeysTheFile ==
  ASSUME NEW file \in {"missing", "empty", "ok", "alerted"}, NEW tick \in Ticks,
         NEW run, run = Check(file, tick)
  PROVE  /\ run.mailed => file # "alerted"
         /\ run.over /\ run.ok /\ ~run.mailed => file = "alerted"
         /\ run.file = "alerted" /\ ~run.mailed => file = "alerted" /\ (run.ok => run.over)
         /\ run.file # "alerted" => ~(run.mailed /\ run.ok) /\ (file = "alerted" => ~run.over)
<1>1. tick.over \in BOOLEAN /\ tick.fate \in Fates
  BY DEF Ticks
<1>2. CASE tick.fate = "read"
  <2>1. run = Ended(file, tick, FALSE, FALSE)
    BY <1>2 DEF Check
  <2> QED BY <2>1 DEF Ended
<1>3. CASE tick.fate # "read" /\ file = "alerted" /\ tick.over
  <2>1. run = Ended(file, tick, FALSE, TRUE)
    BY <1>3 DEF Check
  <2> QED BY <1>3, <2>1 DEF Ended
<1>4. CASE tick.fate # "read" /\ file # "alerted" /\ ~tick.over
  <2>1. run = Ended(file, tick, FALSE, TRUE)
    BY <1>1, <1>4 DEF Check
  <2> QED BY <1>4, <2>1 DEF Ended
<1>5. CASE tick.fate # "read" /\ file = "alerted" /\ ~tick.over
  <2>1. run = Save(file, tick, FALSE, "ok")
    BY <1>1, <1>5 DEF Check
  <2>2. CASE tick.fate = "write"
    BY <1>5, <2>1, <2>2 DEF Save, Ended
  <2>3. CASE tick.fate = "torn"
    BY <1>5, <2>1, <2>3 DEF Save, Ended
  <2>4. CASE tick.fate \notin {"write", "torn"}
    BY <1>5, <2>1, <2>4 DEF Save, Ended
  <2> QED BY <2>2, <2>3, <2>4
<1>6. CASE tick.fate # "read" /\ file # "alerted" /\ tick.over
  <2>1. run = Alert(file, tick)
    BY <1>1, <1>6 DEF Check
  <2>2. CASE tick.fate \in {"mail", "mailed"}
    BY <1>6, <2>1, <2>2 DEF Alert, Ended
  <2>3. CASE tick.fate = "write"
    BY <1>6, <2>1, <2>3 DEF Alert, Save, Ended
  <2>4. CASE tick.fate = "torn"
    BY <1>6, <2>1, <2>4 DEF Alert, Save, Ended
  <2>5. CASE tick.fate \notin {"mail", "mailed", "write", "torn"}
    <3>1. run = Ended("alerted", tick, TRUE, tick.fate # "late")
      BY <2>1, <2>5 DEF Alert, Save
    <3> QED BY <1>6, <3>1 DEF Ended
  <2> QED BY <2>2, <2>3, <2>4, <2>5
<1> QED BY <1>1, <1>2, <1>3, <1>4, <1>5, <1>6

\* What the state file remembers after the first n runs: a mail that no run has
\* outlived that saw the disk below the threshold and ended well; and what it has
\* forgotten since the last mail whose run ended well: a run below the threshold.
Remembers(run, n) ==
  IF run[n].file = "alerted"
  THEN \E j \in 1..n : run[j].mailed /\ \A k \in (j + 1)..n : run[k].ok => run[k].over
  ELSE \A i \in 1..n : run[i].mailed /\ run[i].ok => \E k \in i..n : ~run[k].over

LEMMA TheFileRemembers ==
  ASSUME NEW ticks \in Seq(Ticks)
  PROVE  \A n \in 0..Len(ticks) : Remembers(History(ticks), n)
<1> DEFINE last == Len(ticks)
           H == History(ticks)
           T == {n \in Nat : n <= last => Remembers(H, n)}
<1>1. /\ last \in Nat /\ H \in [0..last -> RunsOfAlert] /\ H[0] = NoRun
      /\ \A n \in 1..last : ticks[n] \in Ticks /\ H[n] = Check(H[n - 1].file, ticks[n])
  BY HistoryFollowsTicks
<1> HIDE DEF last, H
<1>2. 0 \in T
  BY <1>1 DEF Remembers, NoRun
<1>3. ASSUME NEW m \in T, m + 1 <= last
      PROVE  Remembers(H, m + 1)
  <2>1. PICK n \in 1..last : n = m + 1
    BY <1>1, <1>3
  <2>2. m \in 0..last /\ m = n - 1 /\ Remembers(H, m)
    BY <1>1, <1>3, <2>1
  <2>3. H[m].file \in {"missing", "empty", "ok", "alerted"} /\ H[n] \in RunsOfAlert
    BY <1>1, <2>2 DEF RunsOfAlert
  <2>4. /\ H[n].file = "alerted" /\ ~H[n].mailed => H[m].file = "alerted" /\ (H[n].ok => H[n].over)
        /\ H[n].file # "alerted" => ~(H[n].mailed /\ H[n].ok) /\ (H[m].file = "alerted" => ~H[n].over)
        /\ H[n].mailed => H[m].file # "alerted"
    BY <1>1, <2>2, <2>3, CheckObeysTheFile
  <2>5. CASE H[n].file = "alerted" /\ H[n].mailed
    <3>1. H[n].mailed /\ \A k \in (n + 1)..n : H[k].ok => H[k].over
      BY <2>5
    <3>2. n \in 1..n
      BY <2>1
    <3> QED BY <2>1, <2>5, <3>1, <3>2 DEF Remembers
  <2>6. CASE H[n].file = "alerted" /\ ~H[n].mailed
    <3>1. PICK j \in 1..m : H[j].mailed /\ \A k \in (j + 1)..m : H[k].ok => H[k].over
      BY <2>2, <2>4, <2>6 DEF Remembers
    <3>2. \A k \in (j + 1)..n : H[k].ok => H[k].over
      <4> TAKE k \in (j + 1)..n
      <4>1. k \in (j + 1)..m \/ k = n
        BY <2>1, <2>2, <3>1
      <4> QED BY <2>4, <2>6, <3>1, <4>1
    <3>3. j \in 1..n
      BY <2>1, <2>2
    <3> QED BY <2>1, <2>6, <3>1, <3>2, <3>3 DEF Remembers
  <2>7. CASE H[n].file # "alerted"
    <3> SUFFICES ASSUME NEW i \in 1..n, H[i].mailed, H[i].ok
                 PROVE  \E k \in i..n : ~H[k].over
      BY <2>1, <2>7 DEF Remembers
    <3>1. i \in 1..m
      BY <2>1, <2>2, <2>4, <2>7
    <3>2. CASE H[m].file = "alerted"
      <4>1. n \in i..n /\ ~H[n].over
        BY <2>1, <2>4, <2>7, <3>2
      <4> QED BY <4>1
    <3>3. CASE H[m].file # "alerted"
      <4>1. PICK k \in i..m : ~H[k].over
        BY <2>2, <3>1, <3>3 DEF Remembers
      <4>2. k \in i..n
        BY <2>1, <2>2
      <4> QED BY <4>1, <4>2
    <3> QED BY <3>2, <3>3
  <2> QED BY <2>5, <2>6, <2>7
<1>4. T \in SUBSET Nat /\ \A n \in T : n + 1 \in T
  BY <1>3
<1> HIDE DEF T
<1>5. T = Nat
  BY <1>2, <1>4, SetInduction, Zenon
<1> QED BY <1>1, <1>5 DEF T, last, H

\* The disk alert, over any number of runs each of which fails anywhere: it is silent
\* about a full disk only after a mail of this episode, and repeats a mail within an
\* episode only when the run that sent the first one failed.
THEOREM AlertFollowsEpisodes == Spec => []EpisodesAreMailed
<1>1. ASSUME NEW log \in Logs
      PROVE  /\ \A i \in DOMAIN log :
                  log[i].over /\ log[i].ok /\ ~log[i].mailed =>
                    \E j \in 1..(i - 1) :
                      log[j].mailed /\ \A k \in (j + 1)..i : log[k].ok => log[k].over
             /\ \A i, j \in DOMAIN log :
                  i < j /\ log[i].mailed /\ log[j].mailed /\ (\A k \in i..j : log[k].over)
                    => ~log[i].ok
  <2>1. PICK ticks \in BoundedSeq(Ticks, MaxRuns) :
          log = [n \in DOMAIN ticks |-> History(ticks)[n]]
    BY DEF Logs
  <2>2. ticks \in Seq(Ticks)
    BY <2>1, DiskAlertAssumption DEF BoundedSeq, SeqOf
  <2> DEFINE last == Len(ticks)
             H == History(ticks)
  <2>3. /\ last \in Nat /\ H \in [0..last -> RunsOfAlert]
        /\ \A n \in 1..last : ticks[n] \in Ticks /\ H[n] = Check(H[n - 1].file, ticks[n])
        /\ DOMAIN log = 1..last /\ \A n \in 1..last : log[n] = H[n]
        /\ \A n \in 0..last : Remembers(H, n)
    BY <2>1, <2>2, HistoryFollowsTicks, TheFileRemembers
  <2> HIDE DEF last, H
  <2>4. ASSUME NEW n \in 1..last
        PROVE  /\ n - 1 \in 0..last /\ Remembers(H, n - 1)
               /\ H[n].mailed => H[n - 1].file # "alerted"
               /\ H[n].over /\ H[n].ok /\ ~H[n].mailed => H[n - 1].file = "alerted"
    <3>1. n - 1 \in 0..last
      BY <2>3
    <3>2. H[n - 1].file \in {"missing", "empty", "ok", "alerted"}
      BY <2>3, <3>1 DEF RunsOfAlert
    <3> QED BY <2>3, <3>1, <3>2, CheckObeysTheFile
  <2>5. ASSUME NEW i \in 1..last, H[i].over, H[i].ok, ~H[i].mailed
        PROVE  \E j \in 1..(i - 1) : H[j].mailed /\ \A k \in (j + 1)..i : H[k].ok => H[k].over
    <3>1. PICK j \in 1..(i - 1) :
            H[j].mailed /\ \A k \in (j + 1)..(i - 1) : H[k].ok => H[k].over
      BY <2>4, <2>5 DEF Remembers
    <3>2. \A k \in (j + 1)..i : k \in (j + 1)..(i - 1) \/ k = i
      BY <2>3
    <3> QED BY <2>5, <3>1, <3>2
  <2>6. ASSUME NEW i \in 1..last, NEW j \in 1..last, i < j, H[i].mailed, H[j].mailed,
               \A k \in i..j : H[k].over
        PROVE  ~H[i].ok
    <3>1. i \in 1..(j - 1) /\ \A k \in i..(j - 1) : k \in i..j
      BY <2>3, <2>6
    <3> QED BY <2>4, <2>6, <3>1 DEF Remembers
  <2>7. ASSUME NEW i \in 1..last
        PROVE  /\ log[i] = H[i]
               /\ \A j \in 1..(i - 1) : log[j] = H[j] /\ \A k \in (j + 1)..i : log[k] = H[k]
               /\ \A j \in 1..last : \A k \in i..j : log[k] = H[k]
    BY <2>3
  <2>8. \A i \in DOMAIN log :
          log[i].over /\ log[i].ok /\ ~log[i].mailed =>
            \E j \in 1..(i - 1) :
              log[j].mailed /\ \A k \in (j + 1)..i : log[k].ok => log[k].over
    <3> TAKE i \in DOMAIN log
    <3> HAVE log[i].over /\ log[i].ok /\ ~log[i].mailed
    <3>1. PICK j \in 1..(i - 1) : H[j].mailed /\ \A k \in (j + 1)..i : H[k].ok => H[k].over
      BY <2>3, <2>5
    <3> QED BY <2>3, <2>7, <3>1
  <2>9. \A i, j \in DOMAIN log :
          i < j /\ log[i].mailed /\ log[j].mailed /\ (\A k \in i..j : log[k].over) => ~log[i].ok
    <3> TAKE i, j \in DOMAIN log
    <3> HAVE i < j /\ log[i].mailed /\ log[j].mailed /\ (\A k \in i..j : log[k].over)
    <3>1. i \in 1..last /\ j \in 1..last /\ log[i] = H[i] /\ log[j] = H[j]
      BY <2>3
    <3>2. \A k \in i..j : H[k].over
      BY <2>7, <3>1
    <3> QED BY <2>6, <3>1, <3>2
  <2> QED BY <2>8, <2>9
<1>2. MailsFollowEpisodes
  BY <1>1, Zenon DEF MailsFollowEpisodes, SilenceIsJustified, OneMailPerEpisode
<1>3. EpisodesAreMailed
  BY <1>2 DEF EpisodesAreMailed
<1> QED BY <1>3, PTL

-----------------------------------------------------------------------------
(* The import of legacy events                                             *)

LEMMA SameElements ==
  ASSUME NEW T, NEW u \in Seq(T), NEW v \in Seq(T), Len(u) = Len(v), \A i \in 1..Len(u) : u[i] = v[i]
  PROVE  u = v
OBVIOUS

\* Sequences put together from the left.
Gathers(h, seqs) == h[0] = <<>> /\ \A n \in 1..Len(seqs) : h[n] = h[n - 1] \o seqs[n]

Flattens(f, seqs) == f = [i \in 1..Len(seqs) |-> IF i = 1 THEN seqs[i] ELSE f[i - 1] \o seqs[i]]

LEMMA SequencesGather ==
  ASSUME NEW T, NEW seqs \in Seq(Seq(T))
  PROVE  \E h \in [0..Len(seqs) -> Seq(T)] : Gathers(h, seqs)
<1> DEFINE last == Len(seqs)
           S == Seq(T)
           F == [p \in S \X (1..last) |-> p[1] \o seqs[p[2]]]
<1>1. last \in Nat /\ <<>> \in S /\ \A n \in 1..last : seqs[n] \in S
  OBVIOUS
<1>2. \A x, y \in S : x \o y \in S
  OBVIOUS
<1> HIDE DEF S, last
<1>3. F \in [S \X (1..last) -> S]
  BY <1>1, <1>2
<1>4. \A x \in S, n \in 1..last : F[<<x, n>>] = x \o seqs[n]
  OBVIOUS
<1> HIDE DEF F
<1>5. PICK h \in [0..last -> S] : Solves(h, <<>>, last, F)
  BY <1>1, <1>3, RecursionHasASolution
<1>6. \A n \in 1..last : h[n] = h[n - 1] \o seqs[n]
  <2> TAKE n \in 1..last
  <2>1. n - 1 \in 0..last
    BY <1>1
  <2> QED BY <1>4, <1>5, <2>1 DEF Solves
<1>7. Gathers(h, seqs)
  BY <1>5, <1>6 DEF Gathers, Solves, last
<1> QED BY <1>7 DEF S, last

LEMMA FlatteningGathers ==
  ASSUME NEW T, NEW seqs \in Seq(Seq(T)), NEW h \in [0..Len(seqs) -> Seq(T)], Gathers(h, seqs)
  PROVE  FlattenSeq(seqs) = h[Len(seqs)]
<1> DEFINE last == Len(seqs)
           S == Seq(T)
<1>1. last \in Nat /\ \A n \in 1..last : seqs[n] \in S
  OBVIOUS
<1>2. h \in [0..last -> S] /\ h[0] = <<>> /\ \A n \in 1..last : h[n] = h[n - 1] \o seqs[n]
  BY DEF Gathers
<1>3. \A s \in S : <<>> \o s = s
  OBVIOUS
<1>4. last = 0 => seqs = <<>>
  OBVIOUS
<1>5. FlattenSeq(seqs) = IF last = 0 THEN seqs ELSE (CHOOSE f : Flattens(f, seqs))[last]
  BY DEF FlattenSeq, Flattens
<1>6. \A f : Flattens(f, seqs) <=> f = [i \in 1..last |-> IF i = 1 THEN seqs[i] ELSE f[i - 1] \o seqs[i]]
  BY DEF Flattens
<1> HIDE DEF S, last
<1>7. CASE last = 0
  <2>1. FlattenSeq(seqs) = h[last]
    BY <1>2, <1>7, <1>4, <1>5
  <2> QED BY <2>1 DEF last
<1>8. CASE last # 0
  <2> DEFINE g == [i \in 1..last |-> h[i]]
  <2>2. ASSUME NEW i \in 1..last
        PROVE  h[i] = IF i = 1 THEN seqs[i] ELSE g[i - 1] \o seqs[i]
    <3>1. CASE i = 1
      <4>1. h[1] = h[0] \o seqs[1] /\ seqs[1] \in S
        <5>1. 1 \in 1..last /\ 1 - 1 = 0
          BY <3>1
        <5> QED BY <1>1, <1>2, <5>1
      <4> QED BY <1>2, <1>3, <3>1, <4>1
    <3>2. CASE i # 1
      <4>1. g[i - 1] = h[i - 1]
        BY <1>1, <3>2
      <4> QED BY <1>2, <3>2, <4>1
    <3> QED BY <3>1, <3>2
  <2>3. Flattens(g, seqs)
    <3> DEFINE e == [i \in 1..last |-> IF i = 1 THEN seqs[i] ELSE g[i - 1] \o seqs[i]]
    <3>1. \A i \in 1..last : g[i] = e[i]
      BY <2>2
    <3>2. g = [i \in 1..last |-> g[i]] /\ e = [i \in 1..last |-> e[i]]
      OBVIOUS
    <3> HIDE DEF e, g
    <3>3. g = e
      BY <3>1, <3>2
    <3> QED BY <1>6, <3>3, Zenon DEF e
  <2> DEFINE f == CHOOSE f : Flattens(f, seqs)
  <2>4. Flattens(f, seqs)
    BY <2>3, Zenon
  <2>5. FlattenSeq(seqs) = f[last]
    BY <1>8, <1>5
  <2> HIDE DEF f
  <2>6. f = [i \in 1..last |-> IF i = 1 THEN seqs[i] ELSE f[i - 1] \o seqs[i]]
    BY <2>4, <1>6, Zenon
  <2> HIDE DEF g
  <2> DEFINE N == {n \in Nat : n \in 1..last => f[n] = h[n]}
  <2>7. 0 \in N
    OBVIOUS
  <2>8. ASSUME NEW n \in N, n + 1 \in 1..last
        PROVE  f[n + 1] = h[n + 1]
    <3>1. PICK i \in 1..last : i = n + 1
      BY <2>8
    <3>2. CASE n = 0
      <4>1. i = 1 /\ i - 1 = 0
        BY <3>1, <3>2
      <4>2. f[i] = seqs[i] /\ h[i] = h[0] \o seqs[i]
        BY <1>2, <2>6, <4>1
      <4>3. h[i] = seqs[i]
        BY <1>1, <1>2, <1>3, <4>2
      <4> QED BY <3>1, <4>2, <4>3
    <3>3. CASE n # 0
      <4>1. i # 1 /\ i - 1 = n /\ n \in 1..last
        BY <1>1, <3>1, <3>3
      <4>2. f[n] = h[n]
        BY <4>1
      <4>3. f[i] = f[n] \o seqs[i] /\ h[i] = h[n] \o seqs[i]
        BY <1>2, <2>6, <4>1
      <4>4. f[i] = h[i]
        BY <4>2, <4>3
      <4> QED BY <3>1, <4>4
    <3> QED BY <3>2, <3>3
  <2>9. N \in SUBSET Nat /\ \A n \in N : n + 1 \in N
    BY <2>8
  <2> HIDE DEF N
  <2>10. N = Nat
    BY <2>7, <2>9, SetInduction, Zenon
  <2>11. f[last] = h[last]
    BY <1>1, <1>8, <2>10 DEF N
  <2> QED BY <2>5, <2>11 DEF last
<1> QED BY <1>7, <1>8

LEMMA FlatteningAppends ==
  ASSUME NEW T, NEW seqs \in Seq(Seq(T)), NEW s \in Seq(T)
  PROVE  /\ FlattenSeq(seqs) \in Seq(T)
         /\ FlattenSeq(Append(seqs, s)) = FlattenSeq(seqs) \o s
<1> DEFINE all == Append(seqs, s)
           last == Len(seqs)
<1>1. /\ last \in Nat /\ all \in Seq(Seq(T)) /\ Len(all) = last + 1 /\ all[last + 1] = s
      /\ \A n \in 1..last : all[n] = seqs[n]
  OBVIOUS
<1> HIDE DEF all
<1>2. PICK h \in [0..Len(all) -> Seq(T)] : Gathers(h, all)
  BY <1>1, SequencesGather
<1> DEFINE g == [n \in 0..last |-> h[n]]
<1>3. g \in [0..last -> Seq(T)] /\ \A n \in 0..last : g[n] = h[n]
  BY <1>1, <1>2
<1>4. Gathers(g, seqs)
  <2>1. g[0] = <<>>
    BY <1>1, <1>2, <1>3 DEF Gathers
  <2>2. ASSUME NEW n \in 1..last
        PROVE  g[n] = g[n - 1] \o seqs[n]
    <3>1. n \in 1..Len(all) /\ n \in 0..last /\ n - 1 \in 0..last
      BY <1>1
    <3> HIDE DEF g
    <3>2. h[n] = h[n - 1] \o all[n]
      BY <1>2, <3>1 DEF Gathers
    <3> QED BY <1>1, <1>3, <3>1, <3>2
  <2> QED BY <2>1, <2>2 DEF Gathers
<1> HIDE DEF g
<1>5. FlattenSeq(seqs) = g[last]
  BY <1>3, <1>4, FlatteningGathers
<1>6. FlattenSeq(all) = h[last + 1]
  BY <1>1, <1>2, FlatteningGathers
<1>7. h[last + 1] = h[last] \o s
  <2>1. last + 1 \in 1..Len(all) /\ (last + 1) - 1 = last
    BY <1>1
  <2> QED BY <1>1, <1>2, <2>1 DEF Gathers
<1>8. g[last] = h[last] /\ g[last] \in Seq(T)
  BY <1>1, <1>3
<1> QED BY <1>5, <1>6, <1>7, <1>8 DEF all

Subjects == {SubjectOf[line] : line \in Lines}
Importers(fails) ==
  [ok : BOOLEAN, read : Nat, current : Seq(Lines), closed : SUBSET Subjects,
   batches : Seq(Seq(Lines)), fails : {fails}]

LEMMA FlushingIsTyped ==
  ASSUME NEW fails \in Nat, NEW i \in Importers(fails), NEW j, j = Flush(i)
  PROVE  /\ j \in Importers(fails) /\ j.read = i.read /\ j.closed = i.closed
         /\ j.batches = Append(i.batches, i.current)
         /\ Len(i.batches) + 1 = fails => ~j.ok
         /\ Len(i.batches) + 1 # fails => j.ok = i.ok /\ j.current = <<>>
<1> DEFINE Batches == Seq(Seq(Lines))
           Gathered == Seq(Lines)
           flushed == Append(i.batches, i.current)
<1>1. i.batches \in Batches /\ i.current \in Gathered /\ <<>> \in Gathered /\ i.fails = fails
  BY DEF Importers
<1>2. flushed \in Batches /\ Len(flushed) = Len(i.batches) + 1
  BY <1>1
<1> HIDE DEF Batches, Gathered, flushed
<1> DEFINE given == [i EXCEPT !.batches = flushed]
<1>3. /\ given \in Importers(fails) /\ given.ok = i.ok /\ given.read = i.read
      /\ given.current = i.current /\ given.closed = i.closed /\ given.batches = flushed
  BY <1>2 DEF Importers, Batches
<1>4. j = IF Len(flushed) = fails THEN [given EXCEPT !.ok = FALSE] ELSE [given EXCEPT !.current = <<>>]
  BY <1>1, <1>3 DEF Flush, given, flushed
<1> HIDE DEF given
<1>5. CASE Len(flushed) = fails
  <2>1. j = [given EXCEPT !.ok = FALSE]
    BY <1>4, <1>5
  <2>2. /\ j \in Importers(fails) /\ ~j.ok /\ j.read = given.read /\ j.closed = given.closed
        /\ j.batches = given.batches
    BY <1>3, <2>1 DEF Importers
  <2> QED BY <1>2, <1>3, <1>5, <2>2 DEF flushed
<1>6. CASE Len(flushed) # fails
  <2>1. j = [given EXCEPT !.current = <<>>]
    BY <1>4, <1>6
  <2>2. /\ j \in Importers(fails) /\ j.ok = given.ok /\ j.read = given.read
        /\ j.current = <<>> /\ j.closed = given.closed /\ j.batches = given.batches
    BY <1>1, <1>3, <2>1 DEF Importers, Gathered
  <2> QED BY <1>2, <1>3, <1>6, <2>2 DEF flushed
<1> QED BY <1>5, <1>6

\* A line goes on with the batch that is being gathered, or is the first of a new one.
GoesOn(i, key) == i.current = <<>> \/ (key = CurrentKey(i) /\ Len(i.current) < MaxImportBatch)

LEMMA FlushBeforeIsTyped ==
  ASSUME NEW fails \in Nat, NEW i \in Importers(fails), NEW line \in Lines,
         NEW j, j = FlushBefore(i, SubjectOf[line])
  PROVE  /\ j \in Importers(fails) /\ j.read = i.read
         /\ GoesOn(i, SubjectOf[line]) => j = i
         /\ ~GoesOn(i, SubjectOf[line]) =>
              i.current # <<>> /\ j.batches = Append(i.batches, i.current)
         /\ ~GoesOn(i, SubjectOf[line]) /\ Len(i.batches) + 1 = fails => ~j.ok
         /\ ~GoesOn(i, SubjectOf[line]) /\ i.ok /\ Len(i.batches) + 1 # fails =>
              /\ j.ok /\ j.current = <<>>
              /\ SubjectOf[line] = CurrentKey(i) => j.closed = i.closed
              /\ SubjectOf[line] # CurrentKey(i) => j.closed = i.closed \cup {CurrentKey(i)}
<1> DEFINE key == SubjectOf[line]
           goes == GoesOn(i, key)
           full == Len(i.batches) + 1 = fails
           f == Flush(i)
           closed == f.closed \cup {CurrentKey(i)}
<1>1. j = IF goes THEN i ELSE IF ~f.ok \/ key = CurrentKey(i) THEN f
          ELSE [f EXCEPT !.closed = closed]
  BY DEF GoesOn, FlushBefore
<1>2. /\ f \in Importers(fails) /\ f.read = i.read /\ f.closed = i.closed
      /\ f.batches = Append(i.batches, i.current)
      /\ full => ~f.ok
      /\ ~full => f.ok = i.ok /\ f.current = <<>>
  BY FlushingIsTyped
<1>3. ~goes => i.current # <<>>
  BY DEF GoesOn
<1>4. i.current \in Seq(Lines)
  BY DEF Importers
<1> HIDE DEF goes, f, full
<1>5. CASE goes
  BY <1>1, <1>5 DEF goes
<1>6. CASE ~goes /\ (~f.ok \/ key = CurrentKey(i))
  <2>1. j = f
    BY <1>1, <1>6
  <2> QED BY <1>2, <1>3, <1>6, <2>1 DEF goes, full
<1>7. CASE ~goes /\ f.ok /\ key # CurrentKey(i)
  <2>1. j = [f EXCEPT !.closed = closed]
    BY <1>1, <1>7
  <2>2. Head(i.current) \in Lines
    BY <1>3, <1>4, <1>7
  <2>3. closed \in SUBSET Subjects
    BY <1>2, <2>2 DEF CurrentKey, Subjects, Importers
  <2>4. closed = i.closed \cup {CurrentKey(i)}
    BY <1>2
  <2> HIDE DEF closed
  <2>5. /\ j \in Importers(fails) /\ j.ok = f.ok /\ j.read = f.read /\ j.current = f.current
        /\ j.closed = closed /\ j.batches = f.batches
    BY <1>2, <2>1, <2>3 DEF Importers
  <2> QED BY <1>2, <1>3, <1>7, <2>4, <2>5 DEF goes, full
<1> QED BY <1>5, <1>6, <1>7

\* No batch is number 0.
LEMMA FlushingSucceeds ==
  ASSUME NEW i \in Importers(0), i.ok, NEW j, j = Flush(i)
  PROVE  /\ j \in Importers(0) /\ j.ok /\ j.read = i.read /\ j.current = <<>>
         /\ j.closed = i.closed /\ j.batches = Append(i.batches, i.current)
<1>1. PICK fails \in Nat : fails = 0
  OBVIOUS
<1>2. i \in Importers(fails) /\ Len(i.batches) + 1 # fails
  BY <1>1 DEF Importers
<1>3. /\ j \in Importers(fails) /\ j.read = i.read /\ j.closed = i.closed
      /\ j.batches = Append(i.batches, i.current)
      /\ Len(i.batches) + 1 # fails => j.ok = i.ok /\ j.current = <<>>
  BY <1>2, FlushingIsTyped
<1> QED BY <1>1, <1>2, <1>3

LEMMA FlushingBeforeSucceeds ==
  ASSUME NEW i \in Importers(0), i.ok, NEW line \in Lines,
         NEW j, j = FlushBefore(i, SubjectOf[line])
  PROVE  /\ j \in Importers(0) /\ j.ok /\ j.read = i.read
         /\ GoesOn(i, SubjectOf[line]) => j = i
         /\ ~GoesOn(i, SubjectOf[line]) =>
              /\ i.current # <<>> /\ j.current = <<>> /\ j.batches = Append(i.batches, i.current)
              /\ SubjectOf[line] = CurrentKey(i) => j.closed = i.closed
              /\ SubjectOf[line] # CurrentKey(i) => j.closed = i.closed \cup {CurrentKey(i)}
<1>1. PICK fails \in Nat : fails = 0
  OBVIOUS
<1>2. i \in Importers(fails) /\ Len(i.batches) + 1 # fails
  BY <1>1 DEF Importers
<1> DEFINE goes == GoesOn(i, SubjectOf[line])
           len == Len(i.batches) + 1
<1>3. /\ j \in Importers(fails) /\ j.read = i.read /\ (goes => j = i)
      /\ ~goes => i.current # <<>> /\ j.batches = Append(i.batches, i.current)
  BY <1>2, FlushBeforeIsTyped
<1>4. ~goes /\ i.ok /\ len # fails =>
        /\ j.ok /\ j.current = <<>>
        /\ SubjectOf[line] = CurrentKey(i) => j.closed = i.closed
        /\ SubjectOf[line] # CurrentKey(i) => j.closed = i.closed \cup {CurrentKey(i)}
  BY <1>2, FlushBeforeIsTyped
<1> QED BY <1>1, <1>2, <1>3, <1>4

Passed(i) == [i EXCEPT !.read = @ + 1]

LEMMA PassingIsTyped ==
  ASSUME NEW fails \in Nat, NEW i \in Importers(fails), NEW j, j = Passed(i)
  PROVE  /\ j \in Importers(fails) /\ j.ok = i.ok /\ j.read = i.read + 1
         /\ j.current = i.current /\ j.closed = i.closed /\ j.batches = i.batches
<1>1. i.read + 1 \in Nat
  BY DEF Importers
<1> QED BY <1>1 DEF Passed, Importers

\* A line that is decoded passes, ends a batch if it has to, and is gathered.
LEMMA ConsumeIsTyped ==
  ASSUME NEW fails \in Nat, NEW i \in Importers(fails), NEW line \in Lines,
         NEW j, j = FlushBefore(Passed(i), SubjectOf[line]), NEW k, k = Consume(i, line)
  PROVE  /\ k \in Importers(fails)
         /\ ~i.ok => k = i
         /\ i.ok /\ line \notin Sound =>
              ~k.ok /\ k.read = i.read /\ k.current = i.current /\ k.batches = i.batches
         /\ i.ok /\ line \in Sound /\ ~j.ok => k = j
         /\ i.ok /\ line \in Sound /\ j.ok /\ SubjectOf[line] \in j.closed =>
              ~k.ok /\ k.read = j.read /\ k.current = j.current /\ k.batches = j.batches
         /\ i.ok /\ line \in Sound /\ j.ok /\ SubjectOf[line] \notin j.closed =>
              /\ k.ok /\ k.read = j.read /\ k.current = Append(j.current, line)
              /\ k.closed = j.closed /\ k.batches = j.batches
<1>0. Passed(i) \in Importers(fails)
  BY PassingIsTyped
<1>1. j \in Importers(fails)
  BY <1>0, FlushBeforeIsTyped
<1>2. CASE ~i.ok
  BY <1>2 DEF Consume
<1>3. CASE i.ok /\ line \notin Sound
  <2>1. k = [i EXCEPT !.ok = FALSE]
    BY <1>3 DEF Consume
  <2> QED BY <1>3, <2>1 DEF Importers
<1>4. CASE i.ok /\ line \in Sound
  <2>1. k = IF ~j.ok THEN j
            ELSE IF SubjectOf[line] \in j.closed THEN [j EXCEPT !.ok = FALSE]
            ELSE [j EXCEPT !.current = Append(@, line)]
    BY <1>4 DEF Consume, Gather, Passed
  <2>2. CASE ~j.ok
    <3>1. k = j
      BY <2>1, <2>2
    <3> QED BY <1>1, <1>4, <2>2, <3>1
  <2>3. CASE j.ok /\ SubjectOf[line] \in j.closed
    <3>1. k = [j EXCEPT !.ok = FALSE]
      BY <2>1, <2>3
    <3>2. /\ k \in Importers(fails) /\ ~k.ok /\ k.read = j.read /\ k.current = j.current
          /\ k.batches = j.batches
      BY <1>1, <3>1 DEF Importers
    <3> QED BY <1>4, <2>3, <3>2
  <2>4. CASE j.ok /\ SubjectOf[line] \notin j.closed
    <3> DEFINE Gathered == Seq(Lines)
               longer == Append(j.current, line)
    <3>1. k = [j EXCEPT !.current = longer]
      BY <2>1, <2>4
    <3>2. longer \in Gathered
      BY <1>1 DEF Importers
    <3> HIDE DEF Gathered, longer
    <3>3. /\ k \in Importers(fails) /\ k.ok = j.ok /\ k.read = j.read /\ k.current = longer
          /\ k.closed = j.closed /\ k.batches = j.batches
      BY <1>1, <3>1, <3>2 DEF Importers, Gathered
    <3> QED BY <1>4, <2>4, <3>3 DEF longer
  <2> QED BY <2>2, <2>3, <2>4
<1> QED BY <1>2, <1>3, <1>4

FollowsLines(after, input, fails) ==
  after = [n \in 0..Len(input) |-> IF n = 0 THEN NewImporter(fails) ELSE Consume(after[n - 1], input[n])]

LEMMA ProgressFollowsLines ==
  ASSUME NEW input \in Seq(Lines), NEW fails \in Nat
  PROVE  /\ Progress(input, fails) \in [0..Len(input) -> Importers(fails)]
         /\ Progress(input, fails)[0] = NewImporter(fails)
         /\ \A n \in 1..Len(input) : Progress(input, fails)[n] = Consume(Progress(input, fails)[n - 1], input[n])
<1> DEFINE last == Len(input)
           F == [p \in Importers(fails) \X (1..last) |-> Consume(p[1], input[p[2]])]
           P == Progress(input, fails)
<1>1. last \in Nat /\ \A n \in 1..last : input[n] \in Lines
  OBVIOUS
<1>2. \A i \in Importers(fails), n \in 1..last : Consume(i, input[n]) \in Importers(fails)
  BY <1>1, ConsumeIsTyped
<1>3. /\ F \in [Importers(fails) \X (1..last) -> Importers(fails)]
      /\ \A i \in Importers(fails), n \in 1..last : F[<<i, n>>] = Consume(i, input[n])
  BY <1>2
<1>4. NewImporter(fails) \in Importers(fails)
  BY DEF NewImporter, Importers
<1>5. \A after : FollowsLines(after, input, fails) <=>
        after = [n \in 0..last |-> IF n = 0 THEN NewImporter(fails) ELSE Consume(after[n - 1], input[n])]
  BY DEF FollowsLines
<1>6. P = CHOOSE after : FollowsLines(after, input, fails)
  BY DEF Progress, FollowsLines
<1> HIDE DEF F, last, P
<1>7. PICK h \in [0..last -> Importers(fails)] : Solves(h, NewImporter(fails), last, F)
  BY <1>1, <1>3, <1>4, RecursionHasASolution
<1>8. \A n \in 1..last : h[n] = Consume(h[n - 1], input[n])
  <2> TAKE n \in 1..last
  <2>1. n - 1 \in 0..last
    BY <1>1
  <2> QED BY <1>3, <1>7, <2>1 DEF Solves
<1>9. FollowsLines(h, input, fails)
  <2> DEFINE g == [n \in 0..last |-> IF n = 0 THEN NewImporter(fails) ELSE Consume(h[n - 1], input[n])]
  <2>1. ASSUME NEW n \in 0..last
        PROVE  h[n] = g[n]
    <3>1. n = 0 \/ n \in 1..last
      BY <1>1
    <3> QED BY <1>7, <1>8, <3>1 DEF Solves
  <2>2. h = [n \in 0..last |-> h[n]] /\ g = [n \in 0..last |-> g[n]]
    OBVIOUS
  <2> HIDE DEF g
  <2>3. h = g
    BY <2>1, <2>2
  <2> QED BY <1>5, <2>3, Zenon DEF g
<1>10. P = [n \in 0..last |-> IF n = 0 THEN NewImporter(fails) ELSE Consume(P[n - 1], input[n])]
  <2>1. FollowsLines(CHOOSE after : FollowsLines(after, input, fails), input, fails)
    BY <1>9, Zenon
  <2> QED BY <1>5, <1>6, <2>1, Zenon
<1>11. P[0] = NewImporter(fails) /\ \A n \in 1..last : P[n] = Consume(P[n - 1], input[n])
  <2>1. 0 \in 0..last /\ \A n \in 1..last : n \in 0..last /\ n # 0
    BY <1>1
  <2> QED BY <1>10, <2>1
<1>12. P \in [0..last -> Importers(fails)]
  <2>1. \A n \in 1..last : P[n - 1] \in Importers(fails) => P[n] \in Importers(fails)
    BY <1>2, <1>11
  <2>2. \A n \in 0..last : P[n] \in Importers(fails)
    BY <1>1, <1>4, <1>11, <2>1, StaysInside
  <2>3. P = [n \in 0..last |-> P[n]]
    BY <1>10
  <2> QED BY <2>2, <2>3
<1> QED BY <1>11, <1>12 DEF P, last

\* A batch is a run of lines of one subject, not longer than a batch may be.
BatchesAreGood(batches) ==
  \A m \in DOMAIN batches :
    /\ Len(batches[m]) \in 1..MaxImportBatch
    /\ \A a, b \in Range(batches[m]) : SubjectOf[a] = SubjectOf[b]

HeadsDiffer(batches) ==
  \A m, k \in DOMAIN batches : Head(batches[m]) = Head(batches[k]) => m = k

\* The batches hold the first p lines.
Hold(batches, input, p) ==
  /\ FlattenSeq(batches) = SubSeq(input, 1, p)
  /\ \A m \in DOMAIN batches : \E k \in 1..p : Head(batches[m]) = input[k]

\* What is being gathered is the end of the first n lines, all of the last one's subject.
Gathering(current, input, n) ==
  /\ Len(current) <= n /\ Len(current) <= MaxImportBatch
  /\ n > 0 => Len(current) > 0
  /\ \A k \in 1..Len(current) :
       /\ current[k] = input[n - Len(current) + k]
       /\ SubjectOf[current[k]] = SubjectOf[input[n]]

\* The first n lines are sound and grouped, and all subjects but the last one's closed.
Accepted(closed, input, n) ==
  /\ \A k \in 1..n : input[k] \in Sound
  /\ \A k \in 1..n : SubjectOf[input[k]] # SubjectOf[input[n]] => SubjectOf[input[k]] \in closed
  /\ \A s \in closed : s # SubjectOf[input[n]] /\ \E k \in 1..n : SubjectOf[input[k]] = s
  /\ \A a, b, c \in 1..n :
       a < b /\ b < c /\ SubjectOf[input[a]] = SubjectOf[input[c]]
         => SubjectOf[input[b]] = SubjectOf[input[a]]

Acceptable(input) == Range(input) \subseteq Sound /\ Grouped(input)

\* The importer after n lines, none of whose batches failed.
ImportInv(i, input, n) ==
  /\ BatchesAreGood(i.batches)
  /\ IsInjective(input) => HeadsDiffer(i.batches)
  /\ i.ok => /\ Hold(i.batches, input, n - Len(i.current))
             /\ Gathering(i.current, input, n) /\ Accepted(i.closed, input, n)
  /\ ~i.ok => ~Acceptable(input)

\* A batch that is written leaves all lines in batches.
LEMMA FlushHoldsAll ==
  ASSUME NEW input \in Seq(Lines), NEW n \in 1..Len(input),
         NEW batches \in Seq(Seq(Lines)), NEW current \in Seq(Lines), current # <<>>,
         BatchesAreGood(batches), IsInjective(input) => HeadsDiffer(batches),
         Gathering(current, input, n), Hold(batches, input, n - Len(current)),
         NEW all, all = Append(batches, current)
  PROVE  /\ BatchesAreGood(all) /\ Hold(all, input, n)
         /\ IsInjective(input) => HeadsDiffer(all)
<1> DEFINE g == Len(current)
           last == Len(batches)
           p == n - g
<1>1. /\ g \in Nat /\ g > 0 /\ p \in 0..n /\ last \in Nat /\ n \in Nat /\ n <= Len(input)
      /\ Len(input) \in Nat
  BY DEF Gathering
<1>2. /\ DOMAIN all = 1..(last + 1) /\ DOMAIN batches = 1..last /\ all[last + 1] = current
      /\ \A m \in 1..last : all[m] = batches[m]
  OBVIOUS
<1>3. Head(current) = input[p + 1] /\ p + 1 \in 1..n
  <2>1. 1 \in 1..g /\ Head(current) = current[1]
    BY <1>1
  <2>2. current[1] = input[p + 1]
    BY <1>1, <2>1 DEF Gathering
  <2> QED BY <1>1, <2>1, <2>2
<1>4. BatchesAreGood(all)
  <2>1. g \in 1..MaxImportBatch
    BY <1>1, ImportAssumption DEF Gathering
  <2>2. \A a, b \in Range(current) : SubjectOf[a] = SubjectOf[b]
    <3>1. \A a \in Range(current) : SubjectOf[a] = SubjectOf[input[n]]
      <4> TAKE a \in Range(current)
      <4>1. PICK k \in 1..g : a = current[k]
        BY DEF Range
      <4> QED BY <4>1 DEF Gathering
    <3> QED BY <3>1
  <2>3. ASSUME NEW m \in DOMAIN all
        PROVE  /\ Len(all[m]) \in 1..MaxImportBatch
               /\ \A a, b \in Range(all[m]) : SubjectOf[a] = SubjectOf[b]
    <3>1. CASE m = last + 1
      <4>1. all[m] = current
        BY <1>2, <3>1
      <4> QED BY <2>1, <2>2, <4>1
    <3>2. CASE m # last + 1
      <4>1. m \in 1..last
        BY <1>1, <1>2, <3>2
      <4>2. all[m] = batches[m] /\ m \in DOMAIN batches
        BY <1>2, <4>1
      <4> QED BY <4>2 DEF BatchesAreGood
    <3> QED BY <3>1, <3>2
  <2> QED BY <2>3 DEF BatchesAreGood
<1>5. ASSUME NEW m \in DOMAIN all
      PROVE  \/ m = last + 1 /\ Head(all[m]) = input[p + 1]
             \/ m \in 1..last /\ all[m] = batches[m] /\ \E k \in 1..p : Head(all[m]) = input[k]
  <2>1. CASE m = last + 1
    BY <1>2, <1>3, <2>1
  <2>2. CASE m # last + 1
    <3>1. m \in 1..last
      BY <1>1, <1>2, <2>2
    <3>2. all[m] = batches[m] /\ m \in DOMAIN batches
      BY <1>2, <3>1
    <3> QED BY <3>1, <3>2 DEF Hold
  <2> QED BY <2>1, <2>2
<1>6. ASSUME NEW m \in DOMAIN all
      PROVE  \E k \in 1..n : Head(all[m]) = input[k]
  <2>1. \A k \in 1..p : k \in 1..n
    BY <1>1
  <2> QED BY <1>3, <1>5, <2>1
<1>7. FlattenSeq(all) = SubSeq(input, 1, n)
  <2>1. FlattenSeq(all) = FlattenSeq(batches) \o current
    BY FlatteningAppends
  <2>2. FlattenSeq(batches) = SubSeq(input, 1, p)
    BY DEF Hold
  <2>3. SubSeq(input, 1, p) \o current = SubSeq(input, 1, n)
    <3> DEFINE left == SubSeq(input, 1, p)
               right == SubSeq(input, 1, n)
               both == left \o current
    <3>1. left \in Seq(Lines) /\ Len(left) = p /\ \A k \in 1..p : left[k] = input[k]
      BY <1>1
    <3>2. right \in Seq(Lines) /\ Len(right) = n /\ \A k \in 1..n : right[k] = input[k]
      BY <1>1
    <3> HIDE DEF left, right
    <3>3. /\ both \in Seq(Lines) /\ Len(both) = n
          /\ \A k \in 1..p : both[k] = left[k]
          /\ \A k \in (p + 1)..n : both[k] = current[k - p]
      BY <1>1, <3>1
    <3> HIDE DEF both
    <3>4. ASSUME NEW k \in 1..n
          PROVE  both[k] = right[k]
      <4>1. CASE k <= p
        <5>1. k \in 1..p
          BY <1>1, <4>1
        <5> QED BY <3>1, <3>2, <3>3, <5>1
      <4>2. CASE k > p
        <5> DEFINE q == k - p
        <5>1. q \in 1..g
          BY <1>1, <4>2
        <5>2. k \in (p + 1)..n /\ n - g + q = k
          BY <1>1, <4>2, <5>1
        <5>3. current[q] = input[n - g + q]
          BY <5>1 DEF Gathering
        <5>4. both[k] = current[q]
          BY <3>3, <5>1, <5>2
        <5> QED BY <3>2, <5>2, <5>3, <5>4
      <4> QED BY <1>1, <4>1, <4>2
    <3>5. Len(both) = Len(right) /\ \A k \in 1..Len(both) : both[k] = right[k]
      BY <3>2, <3>3, <3>4
    <3>6. both = right
      BY <3>2, <3>3, <3>5, SameElements
    <3> QED BY <3>6 DEF both, left, right
  <2> QED BY <2>1, <2>2, <2>3
<1>8. ASSUME IsInjective(input)
      PROVE  HeadsDiffer(all)
  <2>1. \A k \in 1..p : input[k] # input[p + 1]
    <3> TAKE k \in 1..p
    <3>1. k \in DOMAIN input /\ p + 1 \in DOMAIN input /\ k # p + 1
      BY <1>1, <1>3
    <3> QED BY <1>8, <3>1 DEF IsInjective
  <2>2. ASSUME NEW m \in DOMAIN all, NEW k \in DOMAIN all, Head(all[m]) = Head(all[k])
        PROVE  m = k
    <3>1. CASE m = last + 1 \/ k = last + 1
      BY <1>1, <1>5, <2>1, <2>2, <3>1
    <3>2. CASE m # last + 1 /\ k # last + 1
      <4>1. m \in DOMAIN batches /\ k \in DOMAIN batches /\ Head(batches[m]) = Head(batches[k])
        BY <1>2, <1>5, <2>2, <3>2
      <4> QED BY <1>8, <4>1 DEF HeadsDiffer
    <3> QED BY <3>1, <3>2
  <2> QED BY <2>2 DEF HeadsDiffer
<1> QED BY <1>4, <1>6, <1>7, <1>8 DEF Hold

\* What is left of the importer when it is ready for line n: all batches that end
\* before it are written, and all subjects but this line's closed.
ReadyFor(j, input, n) ==
  /\ BatchesAreGood(j.batches) /\ (IsInjective(input) => HeadsDiffer(j.batches))
  /\ Hold(j.batches, input, n - 1 - Len(j.current))
  /\ Len(j.current) <= n - 1 /\ Len(j.current) < MaxImportBatch
  /\ \A k \in 1..Len(j.current) :
       /\ j.current[k] = input[n - 1 - Len(j.current) + k]
       /\ SubjectOf[j.current[k]] = SubjectOf[input[n]]
  /\ \A k \in 1..(n - 1) : SubjectOf[input[k]] # SubjectOf[input[n]] => SubjectOf[input[k]] \in j.closed
  /\ \A s \in j.closed : \E k \in 1..(n - 1) : SubjectOf[input[k]] = s
  /\ n - 1 > 0 /\ SubjectOf[input[n]] \in j.closed => SubjectOf[input[n]] # SubjectOf[input[n - 1]]
  /\ \A k \in 1..(n - 1) :
       SubjectOf[input[k]] # SubjectOf[input[n - 1]] => SubjectOf[input[k]] \in j.closed

LEMMA FlushMakesReady ==
  ASSUME NEW input \in Seq(Lines), NEW n \in 1..Len(input),
         NEW i \in Importers(0), ImportInv(i, input, n - 1), i.ok,
         NEW j, j = FlushBefore(i, SubjectOf[input[n]])
  PROVE  j \in Importers(0) /\ j.ok /\ ReadyFor(j, input, n)
<1> DEFINE p == n - 1
           g == Len(i.current)
           key == SubjectOf[input[n]]
<1>1. /\ input[n] \in Lines /\ n \in Nat /\ p \in Nat /\ g \in Nat /\ i.current \in Seq(Lines)
      /\ i.batches \in Seq(Seq(Lines)) /\ Len(input) \in Nat /\ n <= Len(input)
      /\ MaxImportBatch \in Nat /\ MaxImportBatch > 0
  BY ImportAssumption DEF Importers
<1>2. /\ BatchesAreGood(i.batches) /\ (IsInjective(input) => HeadsDiffer(i.batches))
      /\ Hold(i.batches, input, p - g) /\ Gathering(i.current, input, p)
      /\ Accepted(i.closed, input, p)
  BY DEF ImportInv
<1>3. /\ j \in Importers(0) /\ j.ok /\ j.read = i.read
      /\ GoesOn(i, key) => j = i
      /\ ~GoesOn(i, key) =>
           /\ i.current # <<>> /\ j.current = <<>> /\ j.batches = Append(i.batches, i.current)
           /\ key = CurrentKey(i) => j.closed = i.closed
           /\ key # CurrentKey(i) => j.closed = i.closed \cup {CurrentKey(i)}
  <2>1. input[n] \in Lines
    BY <1>1
  <2>2. j \in Importers(0) /\ j.ok /\ j.read = i.read
    BY <2>1, FlushingBeforeSucceeds
  <2>3. GoesOn(i, key) => j = i
    BY <2>1, FlushingBeforeSucceeds
  <2>4. ~GoesOn(i, key) => i.current # <<>> /\ j.current = <<>>
    BY <2>1, FlushingBeforeSucceeds
  <2>5. ~GoesOn(i, key) => j.batches = Append(i.batches, i.current)
    BY <2>1, FlushingBeforeSucceeds
  <2>6. ~GoesOn(i, key) =>
           /\ key = CurrentKey(i) => j.closed = i.closed
           /\ key # CurrentKey(i) => j.closed = i.closed \cup {CurrentKey(i)}
    BY <2>1, FlushingBeforeSucceeds
  <2> QED BY <2>2, <2>3, <2>4, <2>5, <2>6
<1>4. p > 0 => /\ i.current # <<>> /\ CurrentKey(i) = SubjectOf[input[p]]
  <2> SUFFICES ASSUME p > 0 PROVE i.current # <<>> /\ CurrentKey(i) = SubjectOf[input[p]]
    OBVIOUS
  <2>1. g > 0
    BY <1>2 DEF Gathering
  <2>2. 1 \in 1..g /\ i.current # <<>> /\ Head(i.current) = i.current[1]
    BY <1>1, <2>1
  <2>3. SubjectOf[i.current[1]] = SubjectOf[input[p]]
    BY <1>2, <2>2 DEF Gathering
  <2> QED BY <2>2, <2>3 DEF CurrentKey
<1>5. p = 0 => i.current = <<>> /\ i.closed = {}
  <2> SUFFICES ASSUME p = 0 PROVE i.current = <<>> /\ i.closed = {}
    OBVIOUS
  <2>1. g = 0
    BY <1>1, <1>2 DEF Gathering
  <2>2. \A s \in i.closed : FALSE
    BY <1>2 DEF Accepted
  <2> QED BY <1>1, <2>1, <2>2
<1>6. /\ \A k \in 1..p : SubjectOf[input[k]] # SubjectOf[input[p]] => SubjectOf[input[k]] \in i.closed
      /\ \A s \in i.closed : s # SubjectOf[input[p]] /\ \E k \in 1..p : SubjectOf[input[k]] = s
  BY <1>2 DEF Accepted
<1>7. /\ \A k \in 1..p : SubjectOf[input[k]] # key => SubjectOf[input[k]] \in j.closed
      /\ \A s \in j.closed : \E k \in 1..p : SubjectOf[input[k]] = s
      /\ p > 0 /\ key \in j.closed => key # SubjectOf[input[p]]
      /\ \A k \in 1..p : SubjectOf[input[k]] # SubjectOf[input[p]] => SubjectOf[input[k]] \in j.closed
  <2>1. CASE p = 0
    <3>1. j = i
      BY <1>3, <1>5, <2>1 DEF GoesOn
    <3> QED BY <1>5, <2>1, <3>1
  <2>2. CASE p > 0 /\ key = SubjectOf[input[p]]
    <3>1. j.closed = i.closed
      BY <1>3, <1>4, <2>2
    <3> QED BY <1>6, <2>2, <3>1
  <2>3. CASE p > 0 /\ key # SubjectOf[input[p]]
    <3>1. j.closed = i.closed \cup {SubjectOf[input[p]]}
      BY <1>3, <1>4, <2>3 DEF GoesOn
    <3>2. p \in 1..p
      BY <1>1, <2>3
    <3> QED BY <1>6, <2>3, <3>1, <3>2
  <2> QED BY <1>1, <2>1, <2>2, <2>3
<1>8. CASE GoesOn(i, key)
  <2>1. j = i
    BY <1>3, <1>8
  <2>2. g < MaxImportBatch
    <3>1. CASE i.current = <<>>
      BY <1>1, <3>1
    <3>2. CASE i.current # <<>>
      BY <1>8, <3>2 DEF GoesOn
    <3> QED BY <3>1, <3>2
  <2>3. ASSUME NEW k \in 1..g
        PROVE  i.current[k] = input[p - g + k] /\ SubjectOf[i.current[k]] = key
    <3>1. i.current[k] = input[p - g + k] /\ SubjectOf[i.current[k]] = SubjectOf[input[p]]
      BY <1>2 DEF Gathering
    <3>2. i.current # <<>> /\ p > 0
      BY <1>1, <1>5, <2>3
    <3>3. key = SubjectOf[input[p]]
      BY <1>4, <1>8, <3>2 DEF GoesOn
    <3> QED BY <3>1, <3>3
  <2>4. g <= p
    BY <1>2 DEF Gathering
  <2> QED BY <1>2, <1>3, <1>7, <2>1, <2>2, <2>3, <2>4 DEF ReadyFor
<1>9. CASE ~GoesOn(i, key)
  <2>1. i.current # <<>> /\ j.current = <<>> /\ j.batches = Append(i.batches, i.current)
    BY <1>3, <1>9
  <2>2. p \in 1..Len(input)
    BY <1>1, <1>5, <2>1
  <2>3. /\ BatchesAreGood(j.batches) /\ Hold(j.batches, input, p)
        /\ IsInjective(input) => HeadsDiffer(j.batches)
    BY <1>1, <1>2, <2>1, <2>2, FlushHoldsAll
  <2>4. Len(j.current) = 0 /\ p - 0 = p
    BY <1>1, <2>1
  <2> HIDE DEF p
  <2>5. Hold(j.batches, input, p - Len(j.current))
    BY <2>3, <2>4
  <2>6. Len(j.current) <= p /\ Len(j.current) < MaxImportBatch /\ \A k \in 1..Len(j.current) : FALSE
    BY <1>1, <2>4
  <2> QED BY <1>3, <1>7, <2>3, <2>5, <2>6 DEF ReadyFor, p
<1> QED BY <1>8, <1>9

LEMMA ConsumeKeepsImportInv ==
  ASSUME NEW input \in Seq(Lines), NEW n \in 1..Len(input),
         NEW i \in Importers(0), ImportInv(i, input, n - 1),
         NEW k, k = Consume(i, input[n])
  PROVE  ImportInv(k, input, n)
<1> DEFINE p == n - 1
           line == input[n]
           key == SubjectOf[line]
           h == Passed(i)
           j == FlushBefore(h, key)
<1>1. /\ line \in Lines /\ n \in Nat /\ p \in Nat /\ Len(input) \in Nat /\ n <= Len(input)
      /\ DOMAIN input = 1..Len(input)
  OBVIOUS
<1>2. /\ k \in Importers(0)
      /\ ~i.ok => k = i
      /\ i.ok /\ line \notin Sound => ~k.ok /\ k.current = i.current /\ k.batches = i.batches
      /\ i.ok /\ line \in Sound /\ j.ok /\ key \in j.closed =>
           ~k.ok /\ k.current = j.current /\ k.batches = j.batches
      /\ i.ok /\ line \in Sound /\ j.ok /\ key \notin j.closed =>
           /\ k.ok /\ k.current = Append(j.current, line)
           /\ k.closed = j.closed /\ k.batches = j.batches
  BY <1>1, ConsumeIsTyped
<1>3. i.ok => j \in Importers(0) /\ j.ok /\ ReadyFor(j, input, n)
  <2>1. /\ h \in Importers(0) /\ h.ok = i.ok /\ h.current = i.current /\ h.closed = i.closed
        /\ h.batches = i.batches
    BY PassingIsTyped
  <2> HIDE DEF h
  <2>2. ImportInv(h, input, n - 1)
    BY <2>1 DEF ImportInv
  <2> QED BY <2>1, <2>2, FlushMakesReady
<1> HIDE DEF j, h
<1>4. CASE ~i.ok
  BY <1>2, <1>4 DEF ImportInv
<1>5. CASE i.ok /\ line \notin Sound
  <2>1. ~Acceptable(input)
    BY <1>1, <1>5 DEF Acceptable, Range
  <2> QED BY <1>2, <1>5, <2>1 DEF ImportInv
<1>6. CASE i.ok /\ line \in Sound /\ key \in j.closed
  <2>1. PICK a \in 1..p : SubjectOf[input[a]] = key
    BY <1>3, <1>6 DEF ReadyFor
  <2>2. p > 0 /\ key # SubjectOf[input[p]]
    BY <1>1, <1>3, <1>6, <2>1 DEF ReadyFor
  <2>3. a < p /\ p < n /\ a \in DOMAIN input /\ p \in DOMAIN input /\ n \in DOMAIN input
    <3>1. a # p
      BY <2>1, <2>2
    <3> QED BY <1>1, <2>1, <3>1
  <2>4. ~Grouped(input)
    BY <2>1, <2>2, <2>3 DEF Grouped
  <2> QED BY <1>2, <1>3, <1>6, <2>4 DEF ImportInv, ReadyFor, Acceptable
<1>7. CASE i.ok /\ line \in Sound /\ key \notin j.closed
  <2>0. j \in Importers(0) /\ j.ok /\ ReadyFor(j, input, n)
    BY <1>3, <1>7
  <2> DEFINE g == Len(j.current)
  <2>1. g \in Nat /\ j.current \in Seq(Lines) /\ MaxImportBatch \in Nat
    BY <2>0, ImportAssumption DEF Importers
  <2>2. Len(k.current) = g + 1 /\ k.current[g + 1] = line /\ \A q \in 1..g : k.current[q] = j.current[q]
    BY <1>1, <1>2, <1>7, <2>0, <2>1
  <2>3. /\ g <= p /\ g < MaxImportBatch /\ Hold(j.batches, input, p - g)
        /\ \A q \in 1..g : j.current[q] = input[p - g + q] /\ SubjectOf[j.current[q]] = key
    BY <2>0, <1>7 DEF ReadyFor
  <2> HIDE DEF g
  <2>4. Hold(k.batches, input, n - Len(k.current))
    <3>1. n - Len(k.current) = p - g
      BY <1>1, <2>1, <2>2
    <3> QED BY <1>2, <1>7, <2>0, <2>3, <3>1
  <2>5. Gathering(k.current, input, n)
    <3>1. ASSUME NEW q \in 1..(g + 1)
          PROVE  k.current[q] = input[n - (g + 1) + q] /\ SubjectOf[k.current[q]] = key
      <4>1. CASE q = g + 1
        <5>1. n - (g + 1) + q = n
          BY <1>1, <2>1, <4>1
        <5>2. k.current[q] = line
          BY <2>2, <4>1
        <5> QED BY <5>1, <5>2
      <4>2. CASE q # g + 1
        <5>1. q \in 1..g /\ n - (g + 1) + q = p - g + q
          BY <1>1, <2>1, <4>2
        <5> QED BY <2>2, <2>3, <5>1
      <4> QED BY <4>1, <4>2
    <3>2. g + 1 <= n /\ g + 1 <= MaxImportBatch /\ g + 1 > 0
      BY <1>1, <2>1, <2>3
    <3> QED BY <2>2, <3>1, <3>2 DEF Gathering
  <2>6. Accepted(k.closed, input, n)
    <3>1. Accepted(i.closed, input, p)
      BY <1>7 DEF ImportInv
    <3>2. \A q \in 1..n : q \in 1..p \/ q = n
      BY <1>1
    <3>3. \A q \in 1..n : input[q] \in Sound
      BY <1>7, <3>1, <3>2 DEF Accepted
    <3>4. \A q \in 1..n : SubjectOf[input[q]] # key => SubjectOf[input[q]] \in k.closed
      BY <1>2, <2>0, <1>7, <3>2 DEF ReadyFor
    <3>5. \A s \in k.closed : s # key /\ \E q \in 1..n : SubjectOf[input[q]] = s
      <4> TAKE s \in k.closed
      <4>1. PICK q \in 1..p : SubjectOf[input[q]] = s
        BY <1>2, <2>0, <1>7 DEF ReadyFor
      <4>2. q \in 1..n
        BY <1>1, <4>1
      <4> QED BY <1>2, <1>7, <2>0, <4>1, <4>2
    <3>6. ASSUME NEW a \in 1..n, NEW b \in 1..n, NEW c \in 1..n, a < b, b < c,
                 SubjectOf[input[a]] = SubjectOf[input[c]]
          PROVE  SubjectOf[input[b]] = SubjectOf[input[a]]
      <4>1. a \in 1..p /\ b \in 1..p
        BY <1>1, <3>6
      <4>2. CASE c \in 1..p
        BY <3>1, <3>6, <4>1, <4>2 DEF Accepted
      <4>3. CASE c = n
        <5>1. SubjectOf[input[a]] = SubjectOf[input[p]]
          <6>1. SubjectOf[input[a]] \notin j.closed
            BY <1>7, <3>6, <4>3
          <6> QED BY <2>0, <1>7, <4>1, <6>1 DEF ReadyFor
        <5>2. CASE b = p
          BY <5>1, <5>2
        <5>3. CASE b # p
          <6>1. b < p /\ p \in 1..p
            BY <1>1, <4>1, <5>3
          <6> QED BY <3>1, <3>6, <4>1, <5>1, <6>1 DEF Accepted
        <5> QED BY <5>2, <5>3
      <4> QED BY <3>2, <4>2, <4>3
    <3> QED BY <3>3, <3>4, <3>5, <3>6 DEF Accepted
  <2> QED BY <1>2, <2>0, <1>7, <2>4, <2>5, <2>6 DEF ImportInv, ReadyFor
<1> QED BY <1>4, <1>5, <1>6, <1>7

LEMMA EveryLineKeepsImportInv ==
  ASSUME NEW input \in Seq(Lines)
  PROVE  \A n \in 0..Len(input) : ImportInv(Progress(input, 0)[n], input, n)
<1> DEFINE last == Len(input)
           P == Progress(input, 0)
           T == {n \in Nat : n <= last => ImportInv(P[n], input, n)}
<1>1. /\ last \in Nat /\ P \in [0..last -> Importers(0)] /\ P[0] = NewImporter(0)
      /\ \A n \in 1..last : P[n] = Consume(P[n - 1], input[n])
  BY ProgressFollowsLines
<1>2. ImportInv(NewImporter(0), input, 0)
  <2>1. /\ NewImporter(0).ok /\ NewImporter(0).current = <<>>
        /\ NewImporter(0).closed = {} /\ NewImporter(0).batches = <<>>
    BY DEF NewImporter
  <2>0. DOMAIN <<>> = {} /\ Len(<<>>) = 0 /\ 0 - 0 = 0
    OBVIOUS
  <2>2. /\ DOMAIN NewImporter(0).batches = {} /\ Len(NewImporter(0).current) = 0
        /\ 0 - Len(NewImporter(0).current) = 0
    BY <2>0, <2>1, Zenon
  <2>3. Hold(<<>>, input, 0)
    <3>1. FlattenSeq(<<>>) = <<>>
      BY DEF FlattenSeq
    <3>2. SubSeq(input, 1, 0) = <<>>
      OBVIOUS
    <3> QED BY <2>1, <2>2, <3>1, <3>2 DEF Hold
  <2>4. Gathering(NewImporter(0).current, input, 0)
    BY <2>2, ImportAssumption DEF Gathering
  <2>5. Accepted(NewImporter(0).closed, input, 0)
    BY <2>1 DEF Accepted
  <2> QED BY <2>1, <2>2, <2>3, <2>4, <2>5 DEF ImportInv, BatchesAreGood, HeadsDiffer
<1> HIDE DEF last, P
<1>3. 0 \in T
  BY <1>1, <1>2
<1>4. ASSUME NEW m \in T, m + 1 <= last
      PROVE  ImportInv(P[m + 1], input, m + 1)
  <2> DEFINE n == m + 1
  <2>1. n \in 1..last /\ n - 1 = m /\ m \in 0..last
    BY <1>1, <1>4
  <2>2. P[m] \in Importers(0) /\ P[n] = Consume(P[m], input[n]) /\ ImportInv(P[m], input, n - 1)
    BY <1>1, <1>4, <2>1
  <2> HIDE DEF n
  <2>3. ImportInv(P[n], input, n)
    BY <2>1, <2>2, ConsumeKeepsImportInv DEF last
  <2> QED BY <2>3 DEF n
<1>5. T \in SUBSET Nat /\ \A n \in T : n + 1 \in T
  BY <1>4
<1> HIDE DEF T
<1>6. T = Nat
  BY <1>3, <1>5, SetInduction, Zenon
<1> QED BY <1>1, <1>6 DEF T, P, last

LEMMA InputsAreSequences ==
  ASSUME NEW input \in Inputs
  PROVE  /\ input \in Seq(Lines)
         /\ \A fails \in Failures : fails \in Nat /\ Imported[input][fails] = Import(input, fails)
<1>1. input \in Seq(Lines)
  BY ImportAssumption DEF Inputs, BoundedSeq, SeqOf
<1>2. Imported[input] = [fails \in Failures |-> Import(input, fails)]
  BY DEF Imported
<1>3. \A fails \in Failures : Imported[input][fails] = Import(input, fails) /\ fails \in Nat
  BY <1>2, ImportAssumption DEF Failures
<1> QED BY <1>1, <1>3

LEMMA ImportIsWhole ==
  ASSUME NEW input \in Seq(Lines), NEW i, i = Import(input, 0)
  PROVE  /\ i.batches \in Seq(Seq(Lines))
         /\ i.ok <=> Acceptable(input)
         /\ i.ok => FlattenSeq(i.batches) = input
         /\ BatchesAreGood(i.batches) /\ (IsInjective(input) => HeadsDiffer(i.batches))
<1> DEFINE n == Len(input)
           last == Progress(input, 0)[n]
           done == Passed(last)
<1>1. n \in Nat /\ DOMAIN input = 1..n /\ SubSeq(input, 1, n) = input /\ (n = 0 => input = <<>>)
  OBVIOUS
<1>2. last \in Importers(0) /\ ImportInv(last, input, n)
  BY <1>1, ProgressFollowsLines, EveryLineKeepsImportInv
<1>3. i = IF ~last.ok THEN last ELSE IF last.current = <<>> THEN done ELSE Flush(done)
  BY DEF Import, Passed
<1>0. /\ done \in Importers(0) /\ done.ok = last.ok /\ done.current = last.current
      /\ done.batches = last.batches
  BY <1>2, PassingIsTyped
<1> HIDE DEF last, done
<1>4. last.batches \in Seq(Seq(Lines)) /\ last.current \in Seq(Lines)
  BY <1>2 DEF Importers
<1>5. last.ok => Acceptable(input)
  <2> SUFFICES ASSUME last.ok PROVE Acceptable(input)
    OBVIOUS
  <2>1. Accepted(last.closed, input, n)
    BY <1>2 DEF ImportInv
  <2>2. Range(input) \subseteq Sound
    BY <1>1, <2>1 DEF Accepted, Range
  <2>3. Grouped(input)
    BY <1>1, <2>1 DEF Accepted, Grouped
  <2> QED BY <2>2, <2>3 DEF Acceptable
<1>6. CASE last.ok /\ last.current # <<>>
  <2>1. i.ok /\ i.batches = Append(last.batches, last.current)
    BY <1>0, <1>3, <1>6, FlushingSucceeds
  <2>2. /\ BatchesAreGood(last.batches) /\ (IsInjective(input) => HeadsDiffer(last.batches))
        /\ Gathering(last.current, input, n) /\ Hold(last.batches, input, n - Len(last.current))
    BY <1>2, <1>6 DEF ImportInv
  <2>3. Len(last.current) <= n /\ Len(last.current) \in Nat /\ Len(last.current) > 0
    BY <1>4, <1>6, <2>2 DEF Gathering
  <2>4. n \in 1..Len(input)
    BY <1>1, <2>3
  <2>5. /\ BatchesAreGood(i.batches) /\ Hold(i.batches, input, n)
        /\ IsInjective(input) => HeadsDiffer(i.batches)
    BY <1>4, <1>6, <2>1, <2>2, <2>4, FlushHoldsAll
  <2>6. i.batches \in Seq(Seq(Lines))
    <3>1. Append(last.batches, last.current) \in Seq(Seq(Lines))
      BY <1>4
    <3> QED BY <2>1, <3>1
  <2> QED BY <1>1, <1>5, <1>6, <2>1, <2>5, <2>6 DEF Hold
<1>7. CASE last.ok /\ last.current = <<>>
  <2>1. i.ok = last.ok /\ i.batches = last.batches
    BY <1>0, <1>3, <1>7
  <2>2. Gathering(last.current, input, n) /\ Hold(last.batches, input, n - Len(last.current))
    BY <1>2, <1>7 DEF ImportInv
  <2>3. Len(last.current) = 0 /\ n = 0 /\ n - Len(last.current) = n
    BY <1>1, <1>7, <2>2 DEF Gathering
  <2>4. FlattenSeq(last.batches) = SubSeq(input, 1, n)
    BY <2>2, <2>3 DEF Hold
  <2> QED BY <1>1, <1>2, <1>4, <1>5, <1>7, <2>1, <2>4 DEF ImportInv
<1>8. CASE ~last.ok
  <2>1. i = last
    BY <1>3, <1>8
  <2> QED BY <1>2, <1>4, <1>8, <2>1 DEF ImportInv
<1> QED BY <1>6, <1>7, <1>8

\* A sequence that begins as another one.
Begins(s, t) == Len(s) <= Len(t) /\ \A k \in 1..Len(s) : t[k] = s[k]

LEMMA AppendingBegins ==
  ASSUME NEW T, NEW s \in Seq(T), NEW t \in Seq(T), NEW e \in T, Begins(s, t)
  PROVE  Begins(s, Append(t, e))
<1> DEFINE longer == Append(t, e)
<1>1. Len(s) \in Nat /\ Len(t) \in Nat /\ Len(longer) = Len(t) + 1 /\ \A k \in 1..Len(t) : longer[k] = t[k]
  OBVIOUS
<1> HIDE DEF longer
<1>2. \A k \in 1..Len(s) : k \in 1..Len(t)
  BY <1>1 DEF Begins
<1>3. Begins(s, longer)
  BY <1>1, <1>2 DEF Begins
<1> QED BY <1>3 DEF longer

LEMMA PrefixesBegin ==
  ASSUME NEW T, NEW s \in Seq(T), NEW t \in Seq(T)
  PROVE  IsPrefix(s, t) <=> Begins(s, t)
<1>1. Len(s) \in Nat /\ Len(t) \in Nat /\ SubSeq(s, 1, Len(s)) = s
  OBVIOUS
<1> DEFINE left == SubSeq(t, 1, Len(s))
<1>2. ASSUME Len(s) <= Len(t)
      PROVE  left \in Seq(T) /\ Len(left) = Len(s) /\ \A k \in 1..Len(s) : left[k] = t[k]
  BY <1>1, <1>2
<1> HIDE DEF left
<1>3. IsPrefix(s, t) <=> Len(s) <= Len(t) /\ s = left
  BY <1>1 DEF IsPrefix, left
<1>4. ASSUME Len(s) <= Len(t), \A k \in 1..Len(s) : t[k] = s[k]
      PROVE  s = left
  <2>1. left \in Seq(T) /\ Len(left) = Len(s) /\ \A k \in 1..Len(s) : left[k] = s[k]
    BY <1>2, <1>4
  <2> QED BY <2>1
<1> QED BY <1>2, <1>3, <1>4 DEF Begins

LEMMA LineEndsAtMostOneBatch ==
  ASSUME NEW fails \in Nat, NEW i \in Importers(fails), NEW line \in Lines, NEW k, k = Consume(i, line)
  PROVE  k.batches = i.batches \/ k.batches = Append(i.batches, i.current)
<1> DEFINE h == Passed(i)
           j == FlushBefore(h, SubjectOf[line])
<1>1. h \in Importers(fails) /\ h.current = i.current /\ h.batches = i.batches
  BY PassingIsTyped
<1> HIDE DEF h
<1>2. /\ GoesOn(h, SubjectOf[line]) => j.batches = h.batches
      /\ ~GoesOn(h, SubjectOf[line]) => j.batches = Append(h.batches, h.current)
  BY <1>1, FlushBeforeIsTyped
<1> HIDE DEF j
<1>3. k.batches = i.batches \/ k.batches = j.batches
  BY ConsumeIsTyped DEF j, h
<1> QED BY <1>1, <1>2, <1>3

\* What has been read decides what has been done, as long as no batch fails.
LEMMA SameLinesSameProgress ==
  ASSUME NEW u \in Seq(Lines), NEW v \in Seq(Lines), NEW r \in Nat,
         r <= Len(u), r <= Len(v), \A k \in 1..r : u[k] = v[k]
  PROVE  \A n \in 0..r : Progress(u, 0)[n] = Progress(v, 0)[n]
<1> DEFINE P == Progress(u, 0)
           Q == Progress(v, 0)
           T == {n \in Nat : n <= r => P[n] = Q[n]}
<1>1. /\ P[0] = NewImporter(0) /\ \A n \in 1..r : P[n] = Consume(P[n - 1], u[n])
      /\ Q[0] = NewImporter(0) /\ \A n \in 1..r : Q[n] = Consume(Q[n - 1], v[n])
  <2>1. \A n \in 1..r : n \in 1..Len(u) /\ n \in 1..Len(v)
    OBVIOUS
  <2> QED BY <2>1, ProgressFollowsLines
<1> HIDE DEF P, Q
<1>2. 0 \in T
  BY <1>1
<1>3. ASSUME NEW m \in T, m + 1 <= r
      PROVE  P[m + 1] = Q[m + 1]
  <2> DEFINE n == m + 1
  <2>1. n \in 1..r /\ n - 1 = m /\ P[m] = Q[m] /\ u[n] = v[n]
    BY <1>3
  <2>2. P[n] = Consume(P[m], u[n]) /\ Q[n] = Consume(Q[m], v[n])
    BY <1>1, <2>1
  <2> QED BY <2>1, <2>2
<1>4. T \in SUBSET Nat /\ \A n \in T : n + 1 \in T
  BY <1>3
<1> HIDE DEF T
<1>5. T = Nat
  BY <1>2, <1>4, SetInduction, Zenon
<1> QED BY <1>5 DEF T, P, Q

LEMMA BatchesAreOnlyAdded ==
  ASSUME NEW input \in Seq(Lines), NEW r \in 0..Len(input)
  PROVE  \A n \in 0..Len(input) :
           r <= n => Begins(Progress(input, 0)[r].batches, Progress(input, 0)[n].batches)
<1> DEFINE last == Len(input)
           P == Progress(input, 0)
           T == {n \in Nat : n <= last /\ r <= n => Begins(P[r].batches, P[n].batches)}
<1>1. /\ last \in Nat /\ P \in [0..last -> Importers(0)] /\ r \in Nat
      /\ \A n \in 1..last : input[n] \in Lines /\ P[n] = Consume(P[n - 1], input[n])
      /\ r \in 0..last
  BY ProgressFollowsLines
<1> HIDE DEF last, P
<1>2. \A s \in Seq(Seq(Lines)) : Begins(s, s)
  BY DEF Begins
<1>3. P[r].batches \in Seq(Seq(Lines))
  BY <1>1 DEF Importers
<1>4. 0 \in T
  BY <1>1, <1>2, <1>3
<1>5. ASSUME NEW m \in T, m + 1 <= last, r <= m + 1
      PROVE  Begins(P[r].batches, P[m + 1].batches)
  <2> DEFINE n == m + 1
  <2>1. CASE r = n
    BY <1>2, <1>3, <2>1
  <2>2. CASE r # n
    <3>1. m \in Nat /\ n \in 1..last /\ n - 1 = m /\ m \in 0..last /\ r <= m /\ m <= last
      BY <1>1, <1>5, <2>2
    <3>2. P[m] \in Importers(0) /\ P[n] = Consume(P[m], input[n]) /\ input[n] \in Lines
      BY <1>1, <3>1
    <3>3. Begins(P[r].batches, P[m].batches)
      BY <1>5, <3>1
    <3> HIDE DEF n
    <3>4. P[m].batches \in Seq(Seq(Lines)) /\ P[m].current \in Seq(Lines)
      BY <3>2 DEF Importers
    <3>5. P[n].batches = P[m].batches \/ P[n].batches = Append(P[m].batches, P[m].current)
      BY <3>2, LineEndsAtMostOneBatch
    <3>6. Begins(P[r].batches, Append(P[m].batches, P[m].current))
      BY <1>3, <3>3, <3>4, AppendingBegins
    <3>7. Begins(P[r].batches, P[n].batches)
      BY <3>3, <3>5, <3>6
    <3> QED BY <3>7 DEF n
  <2> QED BY <2>1, <2>2
<1>6. T \in SUBSET Nat /\ \A n \in T : n + 1 \in T
  BY <1>5
<1> HIDE DEF T
<1>7. T = Nat
  BY <1>4, <1>6, SetInduction, Zenon
<1> QED BY <1>1, <1>7 DEF T, P, last

LEMMA PrefixesAreGood ==
  ASSUME NEW s \in Seq(Seq(Lines)), NEW t \in Seq(Seq(Lines)), Begins(s, t)
  PROVE  /\ BatchesAreGood(t) => BatchesAreGood(s)
         /\ HeadsDiffer(t) => HeadsDiffer(s)
<1>1. /\ Len(s) \in Nat /\ DOMAIN s = 1..Len(s)
      /\ Len(t) \in Nat /\ DOMAIN t = 1..Len(t)
  OBVIOUS
<1>2. \A m \in DOMAIN s : m \in DOMAIN t /\ t[m] = s[m]
  BY <1>1 DEF Begins
<1> QED BY <1>2 DEF BatchesAreGood, HeadsDiffer

\* Two importers that are alike read a line alike, unless the first one's batch fails.
LEMMA AlikeUntilFailure ==
  ASSUME NEW fails \in Nat, NEW i \in Importers(fails), NEW w \in Importers(0), i.ok, w.ok,
         i.current = w.current, i.closed = w.closed, i.batches = w.batches,
         fails \notin 1..Len(i.batches), NEW line \in Lines, line \in Sound,
         NEW k, k = Consume(i, line), NEW x, x = Consume(w, line)
  PROVE  /\ k.read = i.read + 1 /\ k.batches = x.batches
         /\ k.ok => /\ x.ok /\ k.current = x.current /\ k.closed = x.closed
                    /\ fails \notin 1..Len(k.batches)
         /\ ~k.ok => ~x.ok \/ fails \in 1..Len(x.batches)
<1> DEFINE key == SubjectOf[line]
           g == Passed(i)
           h == Passed(w)
           jg == FlushBefore(g, key)
           jh == FlushBefore(h, key)
           len == Len(i.batches)
<1>1. /\ g \in Importers(fails) /\ g.ok /\ g.read = i.read + 1
      /\ g.current = i.current /\ g.closed = i.closed /\ g.batches = i.batches
  BY PassingIsTyped
<1>2. /\ h \in Importers(0) /\ h.ok
      /\ h.current = i.current /\ h.closed = i.closed /\ h.batches = i.batches
  BY PassingIsTyped
<1>3. i.batches \in Seq(Seq(Lines)) /\ i.current \in Seq(Lines) /\ len \in Nat
  BY DEF Importers
<1>4. /\ ~jg.ok => k = jg
      /\ jg.ok /\ key \in jg.closed => ~k.ok /\ k.read = jg.read /\ k.batches = jg.batches
      /\ jg.ok /\ key \notin jg.closed =>
           /\ k.ok /\ k.read = jg.read /\ k.current = Append(jg.current, line)
           /\ k.closed = jg.closed /\ k.batches = jg.batches
  BY ConsumeIsTyped
<1>5. /\ jh.ok /\ key \in jh.closed => ~x.ok /\ x.batches = jh.batches
      /\ jh.ok /\ key \notin jh.closed =>
           /\ x.ok /\ x.current = Append(jh.current, line)
           /\ x.closed = jh.closed /\ x.batches = jh.batches
  BY ConsumeIsTyped
<1>6. GoesOn(g, key) <=> GoesOn(h, key)
  BY <1>1, <1>2 DEF GoesOn, CurrentKey
<1>7. CurrentKey(g) = CurrentKey(h)
  BY <1>1, <1>2 DEF CurrentKey
<1> HIDE DEF g, h
<1>8. /\ jg.read = g.read
      /\ GoesOn(g, key) => jg = g
      /\ ~GoesOn(g, key) => jg.batches = Append(g.batches, g.current)
      /\ ~GoesOn(g, key) /\ len + 1 = fails => ~jg.ok
      /\ ~GoesOn(g, key) /\ len + 1 # fails =>
           /\ jg.ok /\ jg.current = <<>>
           /\ key = CurrentKey(g) => jg.closed = g.closed
           /\ key # CurrentKey(g) => jg.closed = g.closed \cup {CurrentKey(g)}
  <2>1. g.ok /\ Len(g.batches) = len
    BY <1>1
  <2>2. jg.read = g.read /\ (GoesOn(g, key) => jg = g)
    BY <1>1, FlushBeforeIsTyped
  <2>3. ~GoesOn(g, key) => jg.batches = Append(g.batches, g.current)
    BY <1>1, FlushBeforeIsTyped
  <2>4. ~GoesOn(g, key) /\ Len(g.batches) + 1 = fails => ~jg.ok
    BY <1>1, FlushBeforeIsTyped
  <2>5. ~GoesOn(g, key) /\ g.ok /\ Len(g.batches) + 1 # fails =>
          /\ jg.ok /\ jg.current = <<>>
          /\ key = CurrentKey(g) => jg.closed = g.closed
          /\ key # CurrentKey(g) => jg.closed = g.closed \cup {CurrentKey(g)}
    BY <1>1, FlushBeforeIsTyped
  <2> QED BY <2>1, <2>2, <2>3, <2>4, <2>5
<1>9. /\ GoesOn(h, key) => jh = h
      /\ ~GoesOn(h, key) =>
           /\ jh.ok /\ jh.current = <<>> /\ jh.batches = Append(h.batches, h.current)
           /\ key = CurrentKey(h) => jh.closed = h.closed
           /\ key # CurrentKey(h) => jh.closed = h.closed \cup {CurrentKey(h)}
  BY <1>2, FlushingBeforeSucceeds
<1> HIDE DEF jg, jh, len, key
<1>10. CASE GoesOn(g, key)
  <2>1. /\ jg.ok /\ jh.ok /\ jg.read = i.read + 1 /\ jg.current = jh.current
        /\ jg.closed = jh.closed /\ jg.batches = i.batches /\ jh.batches = i.batches
    BY <1>1, <1>2, <1>6, <1>8, <1>9, <1>10
  <2> QED BY <1>4, <1>5, <2>1
<1>11. CASE ~GoesOn(g, key) /\ len + 1 = fails
  <2> DEFINE more == Append(i.batches, i.current)
  <2>1. ~jg.ok /\ k = jg /\ jg.read = i.read + 1 /\ jg.batches = more
    BY <1>1, <1>4, <1>8, <1>11
  <2>2. jh.ok /\ jh.batches = more
    BY <1>2, <1>6, <1>9, <1>11
  <2>3. x.batches = more
    BY <1>5, <2>2
  <2>0. Len(more) = Len(i.batches) + 1
    BY <1>3
  <2>4. fails \in 1..Len(more)
    BY <1>3, <1>11, <2>0 DEF len
  <2> QED BY <2>1, <2>3, <2>4
<1>12. CASE ~GoesOn(g, key) /\ len + 1 # fails
  <2> DEFINE more == Append(i.batches, i.current)
  <2>1. /\ jg.ok /\ jg.read = i.read + 1 /\ jg.current = <<>> /\ jg.batches = more
    BY <1>1, <1>8, <1>12
  <2>2. jh.ok /\ jh.current = <<>> /\ jh.batches = more
    BY <1>2, <1>6, <1>9, <1>12
  <2>3. jg.closed = jh.closed
    BY <1>1, <1>2, <1>6, <1>7, <1>8, <1>9, <1>12
  <2>0. Len(more) = Len(i.batches) + 1
    BY <1>3
  <2> HIDE DEF more
  <2>4. fails \notin 1..Len(more)
    BY <1>3, <1>12, <2>0 DEF len
  <2> QED BY <1>4, <1>5, <2>1, <2>2, <2>3, <2>4
<1> QED BY <1>10, <1>11, <1>12

\* An importer and the one whose batches never fail: it is alike until it stops, and
\* has given what the other has given for the lines it had read.
Follows(i, W, n, fails) ==
  /\ i.read \in 0..n /\ Begins(i.batches, W[i.read].batches)
  /\ i.ok => /\ i.read = n /\ W[n].ok /\ i.current = W[n].current /\ i.closed = W[n].closed
             /\ i.batches = W[n].batches /\ fails \notin 1..Len(i.batches)
  /\ ~i.ok => ~W[n].ok \/ fails \in 1..Len(W[n].batches)

LEMMA FailuresOnlyStop ==
  ASSUME NEW input \in Seq(Lines), NEW fails \in Nat
  PROVE  \A n \in 0..Len(input) :
           Follows(Progress(input, fails)[n], Progress(input, 0), n, fails)
<1> DEFINE last == Len(input)
           P == Progress(input, fails)
           W == Progress(input, 0)
           T == {n \in Nat : n <= last => Follows(P[n], W, n, fails)}
<1>1. /\ last \in Nat /\ P \in [0..last -> Importers(fails)] /\ P[0] = NewImporter(fails)
      /\ \A n \in 1..last : input[n] \in Lines /\ P[n] = Consume(P[n - 1], input[n])
  BY ProgressFollowsLines
<1>2. /\ W \in [0..last -> Importers(0)] /\ W[0] = NewImporter(0)
      /\ \A n \in 1..last : W[n] = Consume(W[n - 1], input[n])
  BY ProgressFollowsLines
<1> HIDE DEF last, P, W
<1>3. 0 \in T
  <2>1. /\ P[0].read = 0 /\ P[0].ok /\ W[0].ok /\ P[0].current = W[0].current
        /\ P[0].closed = W[0].closed /\ P[0].batches = <<>> /\ W[0].batches = <<>>
    BY <1>1, <1>2 DEF NewImporter
  <2>2. Begins(<<>>, <<>>) /\ fails \notin 1..Len(<<>>) /\ 0 \in 0..0
    BY DEF Begins
  <2> QED BY <2>1, <2>2 DEF Follows
<1>4. ASSUME NEW m \in T, m + 1 <= last
      PROVE  Follows(P[m + 1], W, m + 1, fails)
  <2> DEFINE n == m + 1
  <2>1. m \in Nat /\ m \in 0..last /\ n \in 1..last /\ n - 1 = m /\ n \in Nat /\ n = m + 1
    BY <1>1, <1>4
  <2>2. P[m] \in Importers(fails) /\ P[n] = Consume(P[m], input[n]) /\ input[n] \in Lines
    BY <1>1, <2>1
  <2>3. W[m] \in Importers(0) /\ W[n] = Consume(W[m], input[n])
    BY <1>2, <2>1
  <2>4. Follows(P[m], W, m, fails)
    BY <1>4, <2>1
  <2> HIDE DEF n
  <2>5. W[m].batches \in Seq(Seq(Lines)) /\ W[m].current \in Seq(Lines)
    BY <2>3 DEF Importers
  <2>6. P[m].read \in 0..n /\ n \in 0..n
    BY <2>1, <2>4 DEF Follows
  <2>7. CASE ~P[m].ok
    <3>1. P[n] = P[m]
      BY <2>2, <2>7, ConsumeIsTyped
    <3>2. ~W[m].ok => W[n] = W[m]
      BY <2>2, <2>3, ConsumeIsTyped
    <3>3. fails \in 1..Len(W[m].batches) => fails \in 1..Len(W[n].batches)
      <4>1. W[n].batches = W[m].batches \/ W[n].batches = Append(W[m].batches, W[m].current)
        BY <2>2, <2>3, LineEndsAtMostOneBatch
      <4> QED BY <2>5, <4>1
    <3>4. Follows(P[n], W, n, fails)
      BY <2>4, <2>6, <2>7, <3>1, <3>2, <3>3 DEF Follows
    <3> QED BY <3>4 DEF n
  <2>8. CASE P[m].ok /\ input[n] \notin Sound
    <3>1. ~P[n].ok /\ P[n].read = P[m].read /\ P[n].batches = P[m].batches
      BY <2>2, <2>8, ConsumeIsTyped
    <3>2. W[m].ok
      BY <2>4, <2>8 DEF Follows
    <3>3. ~W[n].ok
      BY <2>2, <2>3, <2>8, <3>2, ConsumeIsTyped
    <3>4. Follows(P[n], W, n, fails)
      BY <2>4, <2>6, <3>1, <3>3 DEF Follows
    <3> QED BY <3>4 DEF n
  <2>9. CASE P[m].ok /\ input[n] \in Sound
    <3>1. /\ P[m].read = m /\ W[m].ok /\ P[m].current = W[m].current /\ P[m].closed = W[m].closed
          /\ P[m].batches = W[m].batches /\ fails \notin 1..Len(P[m].batches)
      BY <2>4, <2>9 DEF Follows
    <3>2. /\ P[n].read = P[m].read + 1 /\ P[n].batches = W[n].batches
          /\ P[n].ok => /\ W[n].ok /\ P[n].current = W[n].current /\ P[n].closed = W[n].closed
                        /\ fails \notin 1..Len(P[n].batches)
          /\ ~P[n].ok => ~W[n].ok \/ fails \in 1..Len(W[n].batches)
      BY <2>2, <2>3, <2>9, <3>1, AlikeUntilFailure
    <3>3. P[n].read = n
      BY <2>1, <3>1, <3>2
    <3>4. Begins(P[n].batches, W[n].batches)
      <4>1. W[n].batches \in Seq(Seq(Lines))
        <5>1. W[n] \in Importers(0)
          BY <2>2, <2>3, ConsumeIsTyped
        <5> QED BY <5>1 DEF Importers
      <4> QED BY <3>2, <4>1 DEF Begins
    <3>5. Follows(P[n], W, n, fails)
      BY <2>6, <3>2, <3>3, <3>4 DEF Follows
    <3> QED BY <3>5 DEF n
  <2> QED BY <2>7, <2>8, <2>9
<1>5. T \in SUBSET Nat /\ \A n \in T : n + 1 \in T
  BY <1>4
<1> HIDE DEF T
<1>6. T = Nat
  BY <1>3, <1>5, SetInduction, Zenon
<1> QED BY <1>1, <1>6 DEF T, P, W, last

LEMMA BeginningsBegin ==
  ASSUME NEW T, NEW s \in Seq(T), NEW t \in Seq(T), NEW u \in Seq(T), Begins(s, t), Begins(t, u)
  PROVE  Begins(s, u)
<1>1. Len(s) \in Nat /\ Len(t) \in Nat /\ Len(u) \in Nat /\ \A k \in 1..Len(s) : k \in 1..Len(t)
  BY DEF Begins
<1> QED BY <1>1 DEF Begins

\* What the end of the input adds.
LEMMA EndEndsAtMostOneBatch ==
  ASSUME NEW input \in Seq(Lines), NEW w, w = Import(input, 0),
         NEW last, last = Progress(input, 0)[Len(input)]
  PROVE  /\ w.batches \in Seq(Seq(Lines)) /\ Begins(last.batches, w.batches)
         /\ ~last.ok => ~w.ok /\ w.batches = last.batches
         /\ last.ok => w.ok
         /\ last.ok /\ last.current = <<>> => w.batches = last.batches
         /\ last.ok /\ last.current # <<>> => w.batches = Append(last.batches, last.current)
<1> DEFINE done == Passed(last)
<1>1. last \in Importers(0)
  <2>1. Len(input) \in 0..Len(input)
    OBVIOUS
  <2> QED BY <2>1, ProgressFollowsLines
<1>2. /\ done \in Importers(0) /\ done.ok = last.ok /\ done.current = last.current
      /\ done.batches = last.batches
  BY <1>1, PassingIsTyped
<1>3. w = IF ~last.ok THEN last ELSE IF last.current = <<>> THEN done ELSE Flush(done)
  BY DEF Import, Passed
<1>4. last.batches \in Seq(Seq(Lines)) /\ last.current \in Seq(Lines)
  BY <1>1 DEF Importers
<1> HIDE DEF done
<1>5. /\ ~last.ok => ~w.ok /\ w.batches = last.batches
      /\ last.ok /\ last.current = <<>> => w.ok /\ w.batches = last.batches
  BY <1>2, <1>3
<1>6. last.ok /\ last.current # <<>> => w.ok /\ w.batches = Append(last.batches, last.current)
  BY <1>2, <1>3, FlushingSucceeds
<1>7. Begins(last.batches, last.batches)
  BY <1>4 DEF Begins
<1>8. Begins(last.batches, Append(last.batches, last.current))
  BY <1>4, <1>7, AppendingBegins
<1>9. Append(last.batches, last.current) \in Seq(Seq(Lines))
  BY <1>4
<1> QED BY <1>4, <1>5, <1>6, <1>7, <1>8, <1>9

LEMMA ImportFollows ==
  ASSUME NEW input \in Seq(Lines), NEW fails \in Nat,
         NEW i, i = Import(input, fails), NEW w, w = Import(input, 0)
  PROVE  /\ i.batches \in Seq(Seq(Lines)) /\ i.read \in 0..(Len(input) + 1)
         /\ i.read <= Len(input) => Begins(i.batches, Progress(input, 0)[i.read].batches)
         /\ Begins(i.batches, w.batches)
         /\ i.ok => w.ok /\ i.batches = w.batches /\ fails \notin 1..Len(w.batches)
         /\ ~i.ok => ~w.ok \/ fails \in 1..Len(w.batches)
<1> DEFINE end == Len(input)
           W == Progress(input, 0)
           last == Progress(input, fails)[end]
           done == Passed(last)
           same == W[end]
<1>1. end \in Nat /\ end \in 0..end
  OBVIOUS
<1>2. last \in Importers(fails) /\ Follows(last, W, end, fails)
  BY <1>1, ProgressFollowsLines, FailuresOnlyStop
<1>3. W \in [0..end -> Importers(0)] /\ same \in Importers(0)
  BY <1>1, ProgressFollowsLines
<1>4. /\ w.batches \in Seq(Seq(Lines)) /\ Begins(same.batches, w.batches)
      /\ ~same.ok => ~w.ok /\ w.batches = same.batches
      /\ same.ok => w.ok
      /\ same.ok /\ same.current = <<>> => w.batches = same.batches
      /\ same.ok /\ same.current # <<>> => w.batches = Append(same.batches, same.current)
  BY EndEndsAtMostOneBatch
<1>5. /\ done \in Importers(fails) /\ done.ok = last.ok /\ done.read = last.read + 1
      /\ done.current = last.current /\ done.batches = last.batches
  BY <1>2, PassingIsTyped
<1>6. i = IF ~last.ok THEN last ELSE IF last.current = <<>> THEN done ELSE Flush(done)
  BY DEF Import, Passed
<1>7. \A r \in 0..end : /\ Begins(W[r].batches, same.batches)
                        /\ W[r].batches \in Seq(Seq(Lines))
  <2> TAKE r \in 0..end
  <2>1. W[r] \in Importers(0) /\ r <= end
    BY <1>1, <1>3
  <2> QED BY <1>1, <2>1, BatchesAreOnlyAdded DEF Importers
<1>8. /\ same.batches \in Seq(Seq(Lines)) /\ same.current \in Seq(Lines)
      /\ last.batches \in Seq(Seq(Lines)) /\ last.current \in Seq(Lines)
  BY <1>2, <1>3 DEF Importers
<1> HIDE DEF end, W, last, done, same
<1>9. /\ last.read \in 0..end /\ Begins(last.batches, W[last.read].batches)
      /\ last.ok => /\ last.read = end /\ same.ok /\ last.current = same.current
                    /\ last.batches = same.batches /\ fails \notin 1..Len(last.batches)
      /\ ~last.ok => ~same.ok \/ fails \in 1..Len(same.batches)
  BY <1>2 DEF Follows, same
<1>10. CASE ~last.ok
  <2>1. i = last
    BY <1>6, <1>10
  <2>2. Begins(i.batches, same.batches)
    BY <1>7, <1>8, <1>9, <2>1, BeginningsBegin
  <2>3. Begins(i.batches, w.batches)
    BY <1>4, <1>8, <2>1, <2>2, BeginningsBegin
  <2>4. fails \in 1..Len(same.batches) => fails \in 1..Len(w.batches)
    BY <1>4, <1>8 DEF Begins
  <2>5. i.read \in 0..(end + 1)
    BY <1>1, <1>9, <2>1
  <2>6. ~w.ok \/ fails \in 1..Len(w.batches)
    BY <1>4, <1>9, <1>10, <2>4
  <2> QED BY <1>8, <1>9, <1>10, <2>1, <2>3, <2>5, <2>6 DEF W, end
<1>11. CASE last.ok /\ last.current = <<>>
  <2>1. i = done
    BY <1>6, <1>11
  <2>2. i.ok /\ w.ok /\ i.batches = w.batches /\ fails \notin 1..Len(w.batches)
    BY <1>4, <1>5, <1>9, <1>11, <2>1
  <2>3. i.read = end + 1
    BY <1>5, <1>9, <1>11, <2>1
  <2>4. i.read \in 0..(end + 1) /\ ~(i.read <= end)
    BY <1>1, <2>3
  <2>5. Begins(w.batches, w.batches)
    BY <1>4 DEF Begins
  <2> QED BY <1>4, <2>2, <2>4, <2>5 DEF end
<1>12. CASE last.ok /\ last.current # <<>>
  <2> DEFINE more == Append(same.batches, same.current)
  <2>0. /\ i = Flush(done) /\ done.ok /\ Len(done.batches) = Len(same.batches)
        /\ Append(done.batches, done.current) = more
    BY <1>5, <1>6, <1>9, <1>12
  <2>1. /\ i.read = done.read /\ i.batches = more
        /\ Len(same.batches) + 1 = fails => ~i.ok
        /\ Len(same.batches) + 1 # fails => i.ok
    <3>1. i.read = done.read /\ i.batches = Append(done.batches, done.current)
      BY <1>5, <2>0, FlushingIsTyped
    <3>2. Len(done.batches) + 1 = fails => ~i.ok
      BY <1>5, <2>0, FlushingIsTyped
    <3>3. Len(done.batches) + 1 # fails => i.ok = done.ok
      BY <1>5, <2>0, FlushingIsTyped
    <3> QED BY <2>0, <3>1, <3>2, <3>3
  <2>2. w.ok /\ w.batches = more
    BY <1>4, <1>9, <1>12
  <2>3. Len(more) = Len(same.batches) + 1 /\ Len(same.batches) \in Nat /\ more \in Seq(Seq(Lines))
    BY <1>8
  <2>4. fails \notin 1..Len(same.batches)
    BY <1>9, <1>12
  <2> HIDE DEF more
  <2>5. i.ok => fails \notin 1..Len(more)
    BY <2>1, <2>3, <2>4
  <2>6. ~i.ok => fails \in 1..Len(more)
    BY <1>5, <1>12, <2>1, <2>3
  <2>7. i.read \in 0..(end + 1) /\ ~(i.read <= end)
    BY <1>1, <1>5, <1>9, <1>12, <2>1
  <2>8. Begins(more, more)
    BY <2>3 DEF Begins
  <2> QED BY <2>1, <2>2, <2>3, <2>5, <2>6, <2>7, <2>8 DEF end
<1> QED BY <1>10, <1>11, <1>12

LEMMA AllLinesAreImported == EveryLineIsImported
<1> SUFFICES ASSUME NEW input \in Inputs, NEW fails \in Failures
             PROVE  LET i == Imported[input][fails]
                        batches == i.batches
                    IN  /\ i.ok <=> /\ Range(input) \subseteq Sound /\ Grouped(input)
                                    /\ fails \notin 1..Len(Imported[input][0].batches)
                        /\ i.ok => FlattenSeq(batches) = input
                        /\ \A n \in DOMAIN batches :
                             /\ Len(batches[n]) \in 1..MaxImportBatch
                             /\ \A a, b \in Range(batches[n]) : SubjectOf[a] = SubjectOf[b]
                        /\ IsInjective(input) => \A m, n \in DOMAIN batches :
                             BatchID(batches[m]) = BatchID(batches[n]) => m = n
  BY Zenon DEF EveryLineIsImported
<1> DEFINE i == Imported[input][fails]
           w == Imported[input][0]
           batches == i.batches
<1>1. /\ input \in Seq(Lines) /\ i = Import(input, fails) /\ w = Import(input, 0) /\ fails \in Nat
  <2>1. 0 \in Failures
    BY ImportAssumption DEF Failures
  <2> QED BY <2>1, InputsAreSequences
<1> HIDE DEF i, w
<1>2. /\ w.batches \in Seq(Seq(Lines))
      /\ w.ok <=> Acceptable(input)
      /\ w.ok => FlattenSeq(w.batches) = input
      /\ BatchesAreGood(w.batches) /\ (IsInjective(input) => HeadsDiffer(w.batches))
  BY <1>1, ImportIsWhole
<1>3. /\ batches \in Seq(Seq(Lines)) /\ Begins(batches, w.batches)
      /\ i.ok => w.ok /\ batches = w.batches /\ fails \notin 1..Len(w.batches)
      /\ ~i.ok => ~w.ok \/ fails \in 1..Len(w.batches)
  BY <1>1, ImportFollows
<1> HIDE DEF batches
<1>4. BatchesAreGood(batches) /\ (IsInjective(input) => HeadsDiffer(batches))
  BY <1>2, <1>3, PrefixesAreGood
<1>5. ASSUME IsInjective(input), NEW m \in DOMAIN batches, NEW n \in DOMAIN batches,
             BatchID(batches[m]) = BatchID(batches[n])
      PROVE  m = n
  <2>1. Head(batches[m]) = Head(batches[n])
    BY <1>5 DEF BatchID
  <2> QED BY <1>4, <1>5, <2>1 DEF HeadsDiffer
<1>6. \A n \in DOMAIN batches :
        /\ Len(batches[n]) \in 1..MaxImportBatch
        /\ \A a, b \in Range(batches[n]) : SubjectOf[a] = SubjectOf[b]
  BY <1>4 DEF BatchesAreGood
<1>7. i.ok <=> /\ Range(input) \subseteq Sound /\ Grouped(input)
               /\ fails \notin 1..Len(w.batches)
  BY <1>2, <1>3 DEF Acceptable
<1>8. i.ok => FlattenSeq(batches) = input
  BY <1>2, <1>3
<1> QED BY <1>5, <1>6, <1>7, <1>8 DEF batches, i, w

\* What an import gave is how what an undisturbed import of the lines it had read gives
\* begins.
LEMMA LinesReadAreGivenAgain ==
  ASSUME NEW input \in Seq(Lines), NEW again \in Seq(Lines), NEW fails \in Nat,
         NEW i, i = Import(input, fails), NEW w, w = Import(again, 0), Agree(input, again, i.read)
  PROVE  Begins(i.batches, w.batches)
<1> DEFINE end == Len(input)
           more == Len(again)
           r == i.read
<1>1. /\ end \in Nat /\ more \in Nat /\ DOMAIN input = 1..end /\ DOMAIN again = 1..more
  OBVIOUS
<1>2. /\ i.batches \in Seq(Seq(Lines)) /\ r \in 0..(end + 1)
      /\ r <= end => Begins(i.batches, Progress(input, 0)[r].batches)
      /\ Begins(i.batches, Import(input, 0).batches)
  BY ImportFollows
<1> HIDE DEF r
<1>3. \A k \in 1..r : (k \in 1..end <=> k \in 1..more) /\ (k \in 1..end => again[k] = input[k])
  BY <1>1 DEF Agree, r
<1>4. CASE r <= end
  <2>1. r \in 0..more /\ \A k \in 1..r : input[k] = again[k]
    <3>1. CASE r = 0
      BY <1>1, <3>1
    <3>2. CASE r # 0
      <4>1. r \in 1..r /\ \A k \in 1..r : k \in 1..end
        BY <1>1, <1>2, <1>4, <3>2
      <4>2. r \in 1..more
        BY <1>3, <4>1
      <4> QED BY <1>1, <1>3, <4>1, <4>2
    <3> QED BY <3>1, <3>2
  <2>2. r \in Nat /\ r <= Len(input) /\ r <= Len(again) /\ r \in 0..r
    BY <1>1, <1>4, <2>1
  <2>3. Progress(input, 0)[r] = Progress(again, 0)[r]
    BY <2>1, <2>2, SameLinesSameProgress
  <2> DEFINE Q == Progress(again, 0)
  <2>4. Begins(Q[r].batches, Q[more].batches)
    <3>1. more \in 0..Len(again) /\ r \in 0..Len(again) /\ r <= more
      BY <1>1, <2>1
    <3> QED BY <3>1, BatchesAreOnlyAdded
  <2>5. Q[r].batches \in Seq(Seq(Lines)) /\ Q[more].batches \in Seq(Seq(Lines))
    <3>1. r \in 0..more /\ more \in 0..more
      BY <1>1, <2>1
    <3>2. Q[r] \in Importers(0) /\ Q[more] \in Importers(0)
      BY <3>1, ProgressFollowsLines
    <3> QED BY <3>2 DEF Importers
  <2>6. w.batches \in Seq(Seq(Lines)) /\ Begins(Q[more].batches, w.batches)
    BY EndEndsAtMostOneBatch
  <2>7. Begins(i.batches, Q[r].batches)
    BY <1>2, <1>4, <2>3
  <2> HIDE DEF Q, more, end
  <2>8. Begins(i.batches, Q[more].batches)
    BY <1>2, <2>4, <2>5, <2>7, BeginningsBegin
  <2> QED BY <1>2, <2>5, <2>6, <2>8, BeginningsBegin
<1>5. CASE r = end + 1
  <2>1. end = more
    <3>1. \A k \in 1..(end + 1) : k \in 1..end <=> k \in 1..more
      BY <1>3, <1>5
    <3>2. end + 1 \notin 1..more
      <4>1. end + 1 \in 1..(end + 1) /\ end + 1 \notin 1..end
        BY <1>1
      <4> QED BY <3>1, <4>1
    <3>3. end # 0 => end \in 1..more
      <4>1. end # 0 => end \in 1..(end + 1) /\ end \in 1..end
        BY <1>1
      <4> QED BY <3>1, <4>1
    <3> HIDE DEF end, more
    <3>4. end + 1 > more /\ (end = 0 \/ end <= more)
      BY <1>1, <3>2, <3>3
    <3> QED BY <1>1, <3>4
  <2>2. \A k \in 1..end : input[k] = again[k]
    <3>1. \A k \in 1..end : k \in 1..r
      BY <1>1, <1>5
    <3> QED BY <1>3, <3>1
  <2>3. input = again
    BY <2>1, <2>2, SameElements
  <2> QED BY <1>2, <2>3
<1> QED BY <1>1, <1>2, <1>4, <1>5

LEMMA StoppedImportsAreReplayed == StoppedImportIsReplayed
<1> SUFFICES ASSUME NEW input \in Inputs, NEW fails \in Failures, NEW again \in Inputs,
                    Agree(input, again, Imported[input][fails].read), NEW failing \in Failures
             PROVE  \/ IsPrefix(Imported[input][fails].batches, Imported[again][failing].batches)
                    \/ /\ ~Imported[again][failing].ok
                       /\ IsPrefix(Imported[again][failing].batches, Imported[input][fails].batches)
  BY Zenon DEF StoppedImportIsReplayed
<1> DEFINE i == Imported[input][fails]
           j == Imported[again][failing]
           w == Import(again, 0)
<1>1. /\ input \in Seq(Lines) /\ again \in Seq(Lines) /\ fails \in Nat /\ failing \in Nat
      /\ i = Import(input, fails) /\ j = Import(again, failing)
  BY InputsAreSequences
<1>2. Agree(input, again, i.read)
  OBVIOUS
<1> HIDE DEF i, j, w
<1>3. Begins(i.batches, w.batches)
  BY <1>1, <1>2, LinesReadAreGivenAgain DEF w
<1>4. Begins(j.batches, w.batches) /\ (j.ok => j.batches = w.batches)
  BY <1>1, ImportFollows DEF w
<1>5. /\ i.batches \in Seq(Seq(Lines)) /\ j.batches \in Seq(Seq(Lines))
      /\ Len(i.batches) \in Nat /\ Len(j.batches) \in Nat
  BY <1>1, ImportFollows
<1>6. CASE Len(i.batches) <= Len(j.batches)
  <2>1. Begins(i.batches, j.batches)
    BY <1>3, <1>4, <1>5, <1>6 DEF Begins
  <2>2. IsPrefix(i.batches, j.batches)
    BY <1>5, <2>1, PrefixesBegin
  <2> QED BY <2>2 DEF i, j
<1>7. CASE ~(Len(i.batches) <= Len(j.batches))
  <2>1. Begins(j.batches, i.batches)
    BY <1>3, <1>4, <1>5, <1>7 DEF Begins
  <2>2. ~j.ok
    BY <1>3, <1>4, <1>7 DEF Begins
  <2>3. IsPrefix(j.batches, i.batches)
    BY <1>5, <2>1, PrefixesBegin
  <2> QED BY <2>2, <2>3 DEF i, j
<1> QED BY <1>6, <1>7

\* An import of any length, in batches of any size, whichever of them fails: it is all
\* the lines in batches with ids of their own when the input is acceptable and no batch
\* fails, and what it gave to the store is given again, batch for batch, by any import
\* of the lines it had read.
THEOREM RerunsRepeatImports == Spec => []ImportsAreRepeats
<1>1. ImportsAreRepeats
  BY AllLinesAreImported, StoppedImportsAreReplayed DEF ImportsAreRepeats, RerunsReplay
<1> QED BY <1>1, PTL

-----------------------------------------------------------------------------
(* The statements of a file.  What the scanner is in after a lexeme is     *)
(* what has been read, except that a literal's last quote may have been    *)
(* taken together with the first one of the literal next to it.            *)

ScannedTo(h, input, k) ==
  h = [i \in 0..k |-> IF i = 0 THEN NewScanner ELSE Scan(h[i - 1], input[i], Following(input, i))]

LEMMA ScanFollowsText ==
  ASSUME NEW input, Len(input) \in Nat
  PROVE  /\ Scanned(input)[0] = NewScanner
         /\ \A i \in 1..Len(input) :
              Scanned(input)[i] = Scan(Scanned(input)[i - 1], input[i], Following(input, i))
<1> DEFINE last == Len(input)
           T == {k \in Nat : \E h : ScannedTo(h, input, k)}
           Next1(s, i) == Scan(s, input[i], Following(input, i))
<1>1. 0 \in T
  <2> DEFINE h == [i \in 0..0 |-> NewScanner]
  <2>1. h = [i \in 0..0 |-> IF i = 0 THEN NewScanner ELSE Next1(h[i - 1], i)]
    <3> HIDE DEF Next1
    <3> QED OBVIOUS
  <2> QED BY <2>1 DEF ScannedTo
<1>2. ASSUME NEW k \in T
      PROVE  k + 1 \in T
  <2>1. PICK h : h = [i \in 0..k |-> IF i = 0 THEN NewScanner ELSE Next1(h[i - 1], i)]
    BY DEF ScannedTo
  <2> DEFINE g == [i \in 0..(k + 1) |-> IF i <= k THEN h[i] ELSE Next1(h[k], k + 1)]
             e == [i \in 0..(k + 1) |-> IF i = 0 THEN NewScanner ELSE Next1(g[i - 1], i)]
  <2> HIDE DEF Next1
  <2>2. k \in Nat
    OBVIOUS
  <2>3. ASSUME NEW i \in 0..(k + 1)
        PROVE  g[i] = e[i]
    <3>1. CASE i = 0
      BY <2>1, <2>2, <3>1
    <3>2. CASE i # 0 /\ i <= k
      <4>1. i \in 0..k /\ i - 1 \in 0..k /\ i - 1 \in 0..(k + 1)
        BY <2>2, <3>2
      <4>2. h[i] = Next1(h[i - 1], i)
        BY <2>1, <3>2, <4>1
      <4> QED BY <3>2, <4>1, <4>2
    <3>3. CASE i = k + 1
      <4>1. i # 0 /\ i - 1 = k /\ k \in 0..(k + 1) /\ ~(k + 1 <= k)
        BY <2>2, <3>3
      <4>2. g[k] = h[k]
        BY <2>2, <4>1
      <4> QED BY <3>3, <4>1, <4>2
    <3> QED BY <2>2, <3>1, <3>2, <3>3
  <2>4. g = [i \in 0..(k + 1) |-> g[i]] /\ e = [i \in 0..(k + 1) |-> e[i]]
    OBVIOUS
  <2> HIDE DEF g
  <2>5. g = e
    <3> HIDE DEF e
    <3> QED BY <2>3, <2>4
  <2>6. ScannedTo(g, input, k + 1)
    BY <2>5 DEF ScannedTo, Next1
  <2> QED BY <2>2, <2>6
<1>3. T \in SUBSET Nat /\ \A n \in T : n + 1 \in T
  BY <1>2
<1> HIDE DEF T
<1>4. T = Nat
  BY <1>1, <1>3, SetInduction, Zenon
<1>5. \E h : ScannedTo(h, input, last)
  BY <1>4 DEF T
<1>6. Scanned(input) = CHOOSE h : ScannedTo(h, input, last)
  BY DEF Scanned, ScannedTo
<1>7. ScannedTo(Scanned(input), input, last)
  BY <1>5, <1>6, Zenon
<1> DEFINE S == Scanned(input)
<1>8. S = [i \in 0..last |-> IF i = 0 THEN NewScanner ELSE Next1(S[i - 1], i)]
  BY <1>7 DEF ScannedTo
<1> HIDE DEF S, Next1, last
<1>9. last \in Nat
  BY DEF last
<1>10. S[0] = NewScanner /\ \A i \in 1..last : S[i] = Next1(S[i - 1], i)
  BY <1>8, <1>9
<1> QED BY <1>10 DEF S, Next1, last

ReadTo(h, file, k) == h = [n \in 0..k |-> IF n = 0 THEN NothingRead ELSE Read(h[n - 1], file[n])]

LEMMA ReadingFollowsLexemes ==
  ASSUME NEW file, Len(file) \in Nat
  PROVE  /\ Reading(file)[0] = NothingRead
         /\ \A n \in 1..Len(file) : Reading(file)[n] = Read(Reading(file)[n - 1], file[n])
<1> DEFINE last == Len(file)
           T == {k \in Nat : \E h : ReadTo(h, file, k)}
           Next1(r, n) == Read(r, file[n])
<1>1. 0 \in T
  <2> DEFINE h == [n \in 0..0 |-> NothingRead]
  <2>1. h = [n \in 0..0 |-> IF n = 0 THEN NothingRead ELSE Next1(h[n - 1], n)]
    <3> HIDE DEF Next1
    <3> QED OBVIOUS
  <2> QED BY <2>1 DEF ReadTo
<1>2. ASSUME NEW k \in T
      PROVE  k + 1 \in T
  <2>1. PICK h : h = [n \in 0..k |-> IF n = 0 THEN NothingRead ELSE Next1(h[n - 1], n)]
    BY DEF ReadTo
  <2> DEFINE g == [n \in 0..(k + 1) |-> IF n <= k THEN h[n] ELSE Next1(h[k], k + 1)]
             e == [n \in 0..(k + 1) |-> IF n = 0 THEN NothingRead ELSE Next1(g[n - 1], n)]
  <2> HIDE DEF Next1
  <2>2. k \in Nat
    OBVIOUS
  <2>3. ASSUME NEW n \in 0..(k + 1)
        PROVE  g[n] = e[n]
    <3>1. CASE n = 0
      BY <2>1, <2>2, <3>1
    <3>2. CASE n # 0 /\ n <= k
      <4>1. n \in 0..k /\ n - 1 \in 0..k /\ n - 1 \in 0..(k + 1)
        BY <2>2, <3>2
      <4>2. h[n] = Next1(h[n - 1], n)
        BY <2>1, <3>2, <4>1
      <4> QED BY <3>2, <4>1, <4>2
    <3>3. CASE n = k + 1
      <4>1. n # 0 /\ n - 1 = k /\ k \in 0..(k + 1) /\ ~(k + 1 <= k)
        BY <2>2, <3>3
      <4>2. g[k] = h[k]
        BY <2>2, <4>1
      <4> QED BY <3>3, <4>1, <4>2
    <3> QED BY <2>2, <3>1, <3>2, <3>3
  <2>4. g = [n \in 0..(k + 1) |-> g[n]] /\ e = [n \in 0..(k + 1) |-> e[n]]
    OBVIOUS
  <2> HIDE DEF g
  <2>5. g = e
    <3> HIDE DEF e
    <3> QED BY <2>3, <2>4
  <2>6. ReadTo(g, file, k + 1)
    BY <2>5 DEF ReadTo, Next1
  <2> QED BY <2>2, <2>6
<1>3. T \in SUBSET Nat /\ \A n \in T : n + 1 \in T
  BY <1>2
<1> HIDE DEF T
<1>4. T = Nat
  BY <1>1, <1>3, SetInduction, Zenon
<1>5. \E h : ReadTo(h, file, last)
  BY <1>4 DEF T
<1>6. Reading(file) = CHOOSE h : ReadTo(h, file, last)
  BY DEF Reading, ReadTo
<1>7. ReadTo(Reading(file), file, last)
  BY <1>5, <1>6, Zenon
<1> DEFINE R == Reading(file)
<1>8. R = [n \in 0..last |-> IF n = 0 THEN NothingRead ELSE Next1(R[n - 1], n)]
  BY <1>7 DEF ReadTo
<1> HIDE DEF R, Next1, last
<1>9. last \in Nat
  BY DEF last
<1>10. R[0] = NothingRead /\ \A n \in 1..last : R[n] = Next1(R[n - 1], n)
  BY <1>8, <1>9
<1> QED BY <1>10 DEF R, Next1, last

-----------------------------------------------------------------------------
(* One character.                                                          *)

Scanner(mode, coming, current, out) ==
  [mode |-> mode, coming |-> coming, current |-> current, out |-> out]

LEMMA ScannerHas ==
  ASSUME NEW m, NEW k, NEW c, NEW o
  PROVE  /\ Scanner(m, k, c, o).mode = m /\ Scanner(m, k, c, o).coming = k
         /\ Scanner(m, k, c, o).current = c /\ Scanner(m, k, c, o).out = o
BY DEF Scanner

LEMMA ModeChanges ==
  ASSUME NEW m, NEW k, NEW c, NEW o, NEW new
  PROVE  [Scanner(m, k, c, o) EXCEPT !.mode = new] = Scanner(new, k, c, o)
BY DEF Scanner

LEMMA ComingChanges ==
  ASSUME NEW m, NEW k, NEW c, NEW o, NEW new
  PROVE  [Scanner(m, k, c, o) EXCEPT !.coming = new] = Scanner(m, new, c, o)
BY DEF Scanner

LEMMA CurrentChanges ==
  ASSUME NEW m, NEW k, NEW c, NEW o, NEW new
  PROVE  [Scanner(m, k, c, o) EXCEPT !.current = new] = Scanner(m, k, new, o)
BY DEF Scanner

LEMMA OutChanges ==
  ASSUME NEW m, NEW k, NEW c, NEW o, NEW new
  PROVE  [Scanner(m, k, c, o) EXCEPT !.out = new] = Scanner(m, k, c, new)
BY DEF Scanner

LEMMA Keeps ==
  ASSUME NEW m, NEW k, NEW c, NEW o, NEW char
  PROVE  Keep(Scanner(m, k, c, o), char) = Scanner(m, k, Append(c, char), o)
BY DEF Scanner, Keep

Turned(s, mode, coming) == [s EXCEPT !.mode = mode, !.coming = coming]
Emptied(s, current, out) == [s EXCEPT !.current = current, !.out = out]

LEMMA TwoFieldsChange ==
  ASSUME NEW m, NEW k, NEW c, NEW o, NEW new, NEW other
  PROVE  /\ Turned(Scanner(m, k, c, o), new, other) = Scanner(new, other, c, o)
         /\ Emptied(Scanner(m, k, c, o), new, other) = Scanner(m, k, new, other)
<1> DEFINE s == Scanner(m, k, c, o)
           one == [s EXCEPT !.mode = new]
           two == [s EXCEPT !.current = new]
<1>1. [s EXCEPT !.mode = new, !.coming = other] = [one EXCEPT !.coming = other]
  OBVIOUS
<1>2. [s EXCEPT !.current = new, !.out = other] = [two EXCEPT !.out = other]
  OBVIOUS
<1>3. one = Scanner(new, k, c, o) /\ two = Scanner(m, k, new, o)
  BY ModeChanges, CurrentChanges
<1>4. /\ [Scanner(new, k, c, o) EXCEPT !.coming = other] = Scanner(new, other, c, o)
      /\ [Scanner(m, k, new, o) EXCEPT !.out = other] = Scanner(m, k, new, other)
  BY ComingChanges, OutChanges
<1> HIDE DEF one, two
<1>5. [one EXCEPT !.coming = other] = Scanner(new, other, c, o)
  BY <1>3, <1>4
<1>6. [two EXCEPT !.out = other] = Scanner(m, k, new, other)
  BY <1>3, <1>4
<1> QED BY <1>1, <1>2, <1>5, <1>6 DEF one, two, Turned, Emptied

LEMMA TakenCharacter ==
  ASSUME NEW m, NEW c, NEW o, NEW char, NEW next
  PROVE  Scan(Scanner(m, "taken", c, o), char, next) = Scanner(m, "new", c, o)
<1> DEFINE before == Scanner(m, "taken", c, o)
<1>1. before.coming = "taken" /\ [before EXCEPT !.coming = "new"] = Scanner(m, "new", c, o)
  BY ScannerHas, ComingChanges
<1> HIDE DEF before
<1>2. Scan(before, char, next) = Scanner(m, "new", c, o)
  BY <1>1 DEF Scan
<1> QED BY <1>2 DEF before

LEMMA InsideLineComment ==
  ASSUME NEW c, NEW o, NEW char, NEW next
  PROVE  Scan(Scanner("line", "new", c, o), char, next) =
           IF char = "nl" THEN Scanner("text", "new", Append(c, char), o) ELSE Scanner("line", "new", c, o)
<1> DEFINE before == Scanner("line", "new", c, o)
<1>1. before.coming # "taken" /\ before.mode = "line"
  BY ScannerHas
<1>2. [Keep(before, char) EXCEPT !.mode = "text"] = Scanner("text", "new", Append(c, char), o)
  BY ModeChanges, Keeps
<1> HIDE DEF before
<1>3. Scan(before, char, next) = IF char = "nl" THEN [Keep(before, char) EXCEPT !.mode = "text"] ELSE before
  BY <1>1 DEF Scan, Quotes
<1> QED BY <1>2, <1>3 DEF before

LEMMA InsideBlockComment ==
  ASSUME NEW c, NEW o, NEW char, NEW next
  PROVE  Scan(Scanner("block", "new", c, o), char, next) =
           IF char = "*" /\ next = "/" THEN Scanner("text", "taken", c, o) ELSE Scanner("block", "new", c, o)
<1> DEFINE before == Scanner("block", "new", c, o)
           after == Turned(before, "text", "taken")
<1>1. before.coming # "taken" /\ before.mode = "block"
  BY ScannerHas
<1>2. after = Scanner("text", "taken", c, o)
  BY TwoFieldsChange
<1> HIDE DEF before
<1>3. Scan(before, char, next) = IF <<char, next>> = <<"*", "/">> THEN after ELSE before
  BY <1>1 DEF Scan, Quotes, Turned
<1>4. <<char, next>> = <<"*", "/">> <=> char = "*" /\ next = "/"
  OBVIOUS
<1> HIDE DEF after
<1> QED BY <1>2, <1>3, <1>4 DEF before

LEMMA LiteralScan ==
  ASSUME NEW q \in Quotes, NEW k \in {"new", "escaped"}, NEW c, NEW o, NEW char, NEW next
  PROVE  Scan(Scanner(q, k, c, o), char, next) = InQuote(Scanner(q, k, c, o), char, next)
<1> DEFINE before == Scanner(q, k, c, o)
<1>1. before.coming = k /\ before.mode = q
  BY ScannerHas
<1> HIDE DEF before
<1>2. Scan(before, char, next) = InQuote(before, char, next)
  BY <1>1 DEF Scan, Quotes
<1> QED BY <1>2 DEF before

LEMMA LiteralEscaped ==
  ASSUME NEW q \in Quotes, NEW c, NEW o, NEW char, NEW next
  PROVE  Scan(Scanner(q, "escaped", c, o), char, next) = Scanner(q, "new", Append(c, char), o)
<1> DEFINE before == Scanner(q, "escaped", c, o)
           kept == Keep(before, char)
<1>1. before.coming = "escaped" /\ kept = Scanner(q, "escaped", Append(c, char), o)
  BY ScannerHas, Keeps
<1>2. Scan(before, char, next) = InQuote(before, char, next)
  BY LiteralScan
<1> HIDE DEF before
<1>3. Scan(before, char, next) = [kept EXCEPT !.coming = "new"]
  BY <1>1, <1>2 DEF InQuote
<1> QED BY <1>1, <1>3, ComingChanges DEF before

LEMMA LiteralEscapes ==
  ASSUME NEW q \in Quotes, NEW c, NEW o, NEW next
  PROVE  Scan(Scanner(q, "new", c, o), "back", next) = Scanner(q, "escaped", Append(c, "back"), o)
<1> DEFINE before == Scanner(q, "new", c, o)
           kept == Keep(before, "back")
<1>1. before.coming = "new" /\ before.mode = q /\ q # "back" /\ kept = Scanner(q, "new", Append(c, "back"), o)
  BY ScannerHas, Keeps DEF Quotes
<1>2. Scan(before, "back", next) = InQuote(before, "back", next)
  BY LiteralScan
<1> HIDE DEF before
<1>3. Scan(before, "back", next) = [kept EXCEPT !.coming = "escaped"]
  BY <1>1, <1>2 DEF InQuote
<1> QED BY <1>1, <1>3, ComingChanges DEF before

LEMMA LiteralKeeps ==
  ASSUME NEW q \in Quotes, NEW c, NEW o, NEW char, char \notin {"back", q}, NEW next
  PROVE  Scan(Scanner(q, "new", c, o), char, next) = Scanner(q, "new", Append(c, char), o)
<1> DEFINE before == Scanner(q, "new", c, o)
           kept == Keep(before, char)
<1>1. before.coming = "new" /\ before.mode = q /\ kept = Scanner(q, "new", Append(c, char), o)
  BY ScannerHas, Keeps
<1>2. Scan(before, char, next) = InQuote(before, char, next)
  BY LiteralScan
<1> HIDE DEF before
<1>3. Scan(before, char, next) = kept
  BY <1>1, <1>2 DEF InQuote
<1> QED BY <1>1, <1>3 DEF before

LEMMA LiteralMeetsQuote ==
  ASSUME NEW q \in Quotes, NEW c, NEW o, NEW next
  PROVE  Scan(Scanner(q, "new", c, o), q, next) =
           IF next = q THEN Scanner(q, "taken", Append(Append(c, q), q), o)
           ELSE Scanner("text", "new", Append(c, q), o)
<1> DEFINE before == Scanner(q, "new", c, o)
           kept == Keep(before, q)
           after == Scan(before, q, next)
<1>1. before.coming = "new" /\ before.mode = q /\ q # "back" /\ kept = Scanner(q, "new", Append(c, q), o)
  BY ScannerHas, Keeps DEF Quotes
<1>2. after = InQuote(before, q, next)
  BY LiteralScan
<1> HIDE DEF before, after
<1>3. CASE next = q
  <2>1. after = [Keep(kept, q) EXCEPT !.coming = "taken"]
    BY <1>1, <1>2, <1>3 DEF InQuote
  <2>2. Keep(kept, q) = Scanner(q, "new", Append(Append(c, q), q), o)
    BY <1>1, Keeps
  <2>3. after = Scanner(q, "taken", Append(Append(c, q), q), o)
    BY <2>1, <2>2, ComingChanges
  <2> QED BY <1>3, <2>3 DEF after, before
<1>4. CASE next # q
  <2>1. after = [kept EXCEPT !.mode = "text"]
    BY <1>1, <1>2, <1>4 DEF InQuote
  <2>2. after = Scanner("text", "new", Append(c, q), o)
    BY <1>1, <2>1, ModeChanges
  <2> QED BY <1>4, <2>2 DEF after, before
<1> QED BY <1>3, <1>4

LEMMA TextScan ==
  ASSUME NEW c, NEW o, NEW char, NEW next
  PROVE  Scan(Scanner("text", "new", c, o), char, next) = InText(Scanner("text", "new", c, o), char, next)
<1> DEFINE before == Scanner("text", "new", c, o)
<1>1. before.coming = "new" /\ before.mode = "text"
  BY ScannerHas
<1> HIDE DEF before
<1>2. Scan(before, char, next) = InText(before, char, next)
  BY <1>1 DEF Scan, Quotes
<1> QED BY <1>2 DEF before

LEMMA TextOpensComment ==
  ASSUME NEW c, NEW o
  PROVE  /\ Scan(Scanner("text", "new", c, o), "-", "-") = Scanner("line", "taken", Append(c, "space"), o)
         /\ Scan(Scanner("text", "new", c, o), "/", "*") = Scanner("block", "taken", Append(c, "space"), o)
<1> DEFINE before == Scanner("text", "new", c, o)
           spaced == Keep(before, "space")
<1>1. spaced = Scanner("text", "new", Append(c, "space"), o)
  BY Keeps
<1>2. /\ Scan(before, "-", "-") = InText(before, "-", "-")
      /\ Scan(before, "/", "*") = InText(before, "/", "*")
  BY TextScan
<1> HIDE DEF before
<1>3. <<"/", "*">> # <<"-", "-">> /\ "-" \notin Quotes /\ "/" \notin Quotes
  BY DEF Quotes
<1>4. /\ Scan(before, "-", "-") = Turned(spaced, "line", "taken")
      /\ Scan(before, "/", "*") = Turned(spaced, "block", "taken")
  BY <1>2, <1>3 DEF InText, Comment, Turned
<1> HIDE DEF spaced
<1>5. /\ Scan(before, "-", "-") = Scanner("line", "taken", Append(c, "space"), o)
      /\ Scan(before, "/", "*") = Scanner("block", "taken", Append(c, "space"), o)
  BY <1>1, <1>4, TwoFieldsChange
<1> QED BY <1>5 DEF before

LEMMA TextOpensLiteral ==
  ASSUME NEW q \in Quotes, NEW c, NEW o, NEW next
  PROVE  Scan(Scanner("text", "new", c, o), q, next) = Scanner(q, "new", Append(c, q), o)
<1> DEFINE before == Scanner("text", "new", c, o)
           kept == Keep(before, q)
<1>1. kept = Scanner("text", "new", Append(c, q), o)
  BY Keeps
<1>2. Scan(before, q, next) = InText(before, q, next)
  BY TextScan
<1>3. <<q, next>> # <<"-", "-">> /\ <<q, next>> # <<"/", "*">> /\ q # "semi"
  BY DEF Quotes
<1> HIDE DEF before
<1>4. Scan(before, q, next) = [kept EXCEPT !.mode = q]
  BY <1>2, <1>3 DEF InText
<1> QED BY <1>1, <1>4, ModeChanges DEF before

LEMMA TextIsKept ==
  ASSUME NEW c, NEW o, NEW char, NEW next, char \in {"x", "nl"} \/ (char = "-" /\ next = "x")
  PROVE  Scan(Scanner("text", "new", c, o), char, next) = Scanner("text", "new", Append(c, char), o)
<1> DEFINE before == Scanner("text", "new", c, o)
<1>1. Keep(before, char) = Scanner("text", "new", Append(c, char), o)
  BY Keeps
<1>2. Scan(before, char, next) = InText(before, char, next)
  BY TextScan
<1>3. <<char, next>> # <<"-", "-">> /\ <<char, next>> # <<"/", "*">> /\ char \notin Quotes /\ char # "semi"
  BY DEF Quotes
<1> HIDE DEF before
<1>4. Scan(before, char, next) = Keep(before, char)
  BY <1>2, <1>3 DEF InText
<1> QED BY <1>1, <1>4 DEF before

\* The statements that have ended when the text is one more.
Ending(text, ended) == IF TrimSpace(text) = <<>> THEN ended ELSE Append(ended, TrimSpace(text))

LEMMA TextIsFlushed ==
  ASSUME NEW c, NEW o
  PROVE  FlushStatement(Scanner("text", "new", c, o)) = Scanner("text", "new", <<>>, Ending(c, o))
<1> DEFINE before == Scanner("text", "new", c, o)
<1>1. before.current = c /\ before.out = o
  BY ScannerHas
<1>2. Emptied(before, <<>>, Ending(c, o)) = Scanner("text", "new", <<>>, Ending(c, o))
  BY TwoFieldsChange
<1> HIDE DEF before
<1>3. FlushStatement(before) = Emptied(before, <<>>, Ending(c, o))
  BY <1>1 DEF FlushStatement, Emptied, Ending
<1> QED BY <1>2, <1>3 DEF before

LEMMA TextEnds ==
  ASSUME NEW c, NEW o, NEW next
  PROVE  Scan(Scanner("text", "new", c, o), "semi", next) = Scanner("text", "new", <<>>, Ending(c, o))
<1> DEFINE before == Scanner("text", "new", c, o)
<1>1. Scan(before, "semi", next) = InText(before, "semi", next)
  BY TextScan
<1>2. <<"semi", next>> # <<"-", "-">> /\ <<"semi", next>> # <<"/", "*">> /\ "semi" \notin Quotes
  BY DEF Quotes
<1> HIDE DEF before
<1>3. Scan(before, "semi", next) = FlushStatement(before)
  BY <1>1, <1>2 DEF InText
<1> QED BY <1>3, TextIsFlushed DEF before

-----------------------------------------------------------------------------
(* One lexeme.                                                             *)

Characters == {"quote", "tick", "back", "semi", "-", "/", "*", "x", "nl", "space"}

\* A word stands in the input after its first p characters.
Stands(word, input, p) ==
  /\ p \in Nat /\ Len(input) \in Nat /\ p + Len(word) <= Len(input)
  /\ \A k \in 1..Len(word) : input[p + k] = word[k]

\* All before the lexeme has been read, or its first quote as well.
AtLexeme(input, p, text, ended) ==
  \/ Scanned(input)[p] = Scanner("text", "new", text, ended)
  \/ \E q \in Quotes : /\ Following(input, p) = q
                       /\ Scanned(input)[p] = Scanner(q, "taken", Append(text, q), ended)

After(word, k, then) == IF k < Len(word) THEN word[k + 1] ELSE then

LEMMA ScanWord ==
  ASSUME NEW word, Len(word) \in Nat \ {0}, NEW input, NEW p, Stands(word, input, p)
  PROVE  /\ Following(input, p) = word[1]
         /\ \A k \in 1..Len(word) :
              Scanned(input)[p + k] =
                Scan(Scanned(input)[p + (k - 1)], word[k], After(word, k, Following(input, p + k)))
<1>1. p \in Nat /\ Len(input) \in Nat /\ p + Len(word) <= Len(input)
      /\ \A k \in 1..Len(word) : input[p + k] = word[k]
  BY DEF Stands
<1>2. Following(input, p) = word[1]
  <2>1. p < Len(input) /\ 1 \in 1..Len(word)
    BY <1>1
  <2> QED BY <1>1, <2>1 DEF Following
<1>3. ASSUME NEW k \in 1..Len(word)
      PROVE  Scanned(input)[p + k] =
               Scan(Scanned(input)[p + (k - 1)], word[k], After(word, k, Following(input, p + k)))
  <2> DEFINE i == p + k
  <2>1. i \in 1..Len(input) /\ i - 1 = p + (k - 1) /\ input[i] = word[k]
    BY <1>1
  <2>2. Following(input, i) = After(word, k, Following(input, i))
    <3>1. CASE k < Len(word)
      <4>1. k + 1 \in 1..Len(word) /\ i < Len(input) /\ i + 1 = p + (k + 1)
        BY <1>1, <3>1
      <4>2. input[i + 1] = word[k + 1]
        BY <1>1, <4>1
      <4> QED BY <3>1, <4>1, <4>2 DEF After, Following
    <3>2. CASE ~(k < Len(word))
      BY <3>2 DEF After
    <3> QED BY <3>1, <3>2
  <2>3. Scanned(input)[i] = Scan(Scanned(input)[i - 1], input[i], Following(input, i))
    BY <1>1, <2>1, ScanFollowsText
  <2> QED BY <2>1, <2>2, <2>3
<1> QED BY <1>2, <1>3

LEMMA Spelled ==
  ASSUME NEW T, NEW t \in Seq(T), NEW a \in T, NEW b \in T, NEW c \in T, NEW d \in T, NEW e \in T
  PROVE  /\ t \o <<a>> = Append(t, a)
         /\ t \o <<a, b>> = Append(Append(t, a), b)
         /\ t \o <<a, b, c, d>> = Append(Append(Append(Append(t, a), b), c), d)
         /\ t \o <<a, b, c, d, e>> = Append(Append(Append(Append(Append(t, a), b), c), d), e)
<1>1. \A u \in Seq(T), x \in T : t \o Append(u, x) = Append(t \o u, x)
  OBVIOUS
<1>2. t \o <<a>> = Append(t, a)
  OBVIOUS
<1>3. /\ <<a>> \in Seq(T) /\ <<a, b>> \in Seq(T) /\ <<a, b, c>> \in Seq(T) /\ <<a, b, c, d>> \in Seq(T)
  OBVIOUS
<1>4. Append(<<a>>, b) = <<a, b>>
  <2> DEFINE u == Append(<<a>>, b)
             v == <<a, b>>
  <2>1. v \in Seq(T) /\ Len(v) = 2 /\ v[1] = a /\ v[2] = b
    OBVIOUS
  <2>2. u \in Seq(T) /\ Len(u) = 2 /\ u[1] = a /\ u[2] = b
    OBVIOUS
  <2> HIDE DEF u, v
  <2>3. \A i \in 1..Len(u) : i \in {1, 2}
    BY <2>2
  <2>4. u = v
    BY <2>1, <2>2, <2>3, SameElements
  <2> QED BY <2>4 DEF u, v
<1>5. Append(<<a, b>>, c) = <<a, b, c>>
  <2> DEFINE u == Append(<<a, b>>, c)
             v == <<a, b, c>>
  <2>1. v \in Seq(T) /\ Len(v) = 3 /\ v[1] = a /\ v[2] = b /\ v[3] = c
    OBVIOUS
  <2>2. u \in Seq(T) /\ Len(u) = 3 /\ u[1] = a /\ u[2] = b /\ u[3] = c
    OBVIOUS
  <2> HIDE DEF u, v
  <2>3. \A i \in 1..Len(u) : i \in {1, 2, 3}
    BY <2>2
  <2>4. u = v
    BY <2>1, <2>2, <2>3, SameElements
  <2> QED BY <2>4 DEF u, v
<1>6. Append(<<a, b, c>>, d) = <<a, b, c, d>>
  <2> DEFINE u == Append(<<a, b, c>>, d)
             v == <<a, b, c, d>>
  <2>1. v \in Seq(T) /\ Len(v) = 4 /\ v[1] = a /\ v[2] = b /\ v[3] = c /\ v[4] = d
    OBVIOUS
  <2>2. u \in Seq(T) /\ Len(u) = 4 /\ u[1] = a /\ u[2] = b /\ u[3] = c /\ u[4] = d
    OBVIOUS
  <2> HIDE DEF u, v
  <2>3. \A i \in 1..Len(u) : i \in {1, 2, 3, 4}
    BY <2>2
  <2>4. u = v
    BY <2>1, <2>2, <2>3, SameElements
  <2> QED BY <2>4 DEF u, v
<1>7. Append(<<a, b, c, d>>, e) = <<a, b, c, d, e>>
  <2> DEFINE u == Append(<<a, b, c, d>>, e)
             v == <<a, b, c, d, e>>
  <2>1. v \in Seq(T) /\ Len(v) = 5 /\ v[1] = a /\ v[2] = b /\ v[3] = c /\ v[4] = d /\ v[5] = e
    OBVIOUS
  <2>2. u \in Seq(T) /\ Len(u) = 5 /\ u[1] = a /\ u[2] = b /\ u[3] = c /\ u[4] = d /\ u[5] = e
    OBVIOUS
  <2> HIDE DEF u, v
  <2>3. \A i \in 1..Len(u) : i \in {1, 2, 3, 4, 5}
    BY <2>2
  <2>4. u = v
    BY <2>1, <2>2, <2>3, SameElements
  <2> QED BY <2>4 DEF u, v
<1>8. t \o <<a, b>> = Append(Append(t, a), b)
  <2>1. t \o Append(<<a>>, b) = Append(t \o <<a>>, b)
    BY <1>1, <1>3
  <2> QED BY <1>2, <1>4, <2>1
<1>9. t \o <<a, b, c>> = Append(Append(Append(t, a), b), c)
  <2>1. t \o Append(<<a, b>>, c) = Append(t \o <<a, b>>, c)
    BY <1>1, <1>3
  <2> QED BY <1>5, <1>8, <2>1
<1>10. t \o <<a, b, c, d>> = Append(Append(Append(Append(t, a), b), c), d)
  <2>1. t \o Append(<<a, b, c>>, d) = Append(t \o <<a, b, c>>, d)
    BY <1>1, <1>3
  <2> QED BY <1>6, <1>9, <2>1
<1>11. t \o <<a, b, c, d, e>> = Append(Append(Append(Append(Append(t, a), b), c), d), e)
  <2>1. t \o Append(<<a, b, c, d>>, e) = Append(t \o <<a, b, c, d>>, e)
    BY <1>1, <1>3
  <2> QED BY <1>7, <1>10, <2>1
<1> QED BY <1>2, <1>8, <1>10, <1>11

LEMMA SpelledTwo ==
  ASSUME NEW T, NEW t \in Seq(T), NEW a \in T, NEW b \in T
  PROVE  /\ t \o <<a>> = Append(t, a)
         /\ t \o <<a, b>> = Append(Append(t, a), b)
BY Spelled

LEMMA SpelledFour ==
  ASSUME NEW T, NEW t \in Seq(T), NEW a \in T, NEW b \in T, NEW c \in T, NEW d \in T
  PROVE  t \o <<a, b, c, d>> = Append(Append(Append(Append(t, a), b), c), d)
BY Spelled

LEMMA CharactersDiffer ==
  /\ \A c \in {"quote", "tick", "back", "semi", "-", "x", "nl", "space"} : c \in Characters
  /\ "quote" \in Quotes /\ "tick" \in Quotes
  /\ \A c \in {"semi", "-", "/", "x", "nl", "eof"} : c \notin Quotes
BY DEF Characters, Quotes

LEMMA LiteralOpens ==
  ASSUME NEW input, Len(input) \in Nat, NEW p \in Nat, p < Len(input), NEW q \in Quotes, input[p + 1] = q,
         NEW t, NEW o, AtLexeme(input, p, t, o)
  PROVE  Scanned(input)[p + 1] = Scanner(q, "new", Append(t, q), o)
<1>1. p + 1 \in 1..Len(input) /\ (p + 1) - 1 = p /\ Following(input, p) = q
  BY DEF Following
<1>2. Scanned(input)[p + 1] = Scan(Scanned(input)[p], q, Following(input, p + 1))
  BY <1>1, ScanFollowsText
<1>3. CASE Scanned(input)[p] = Scanner("text", "new", t, o)
  BY <1>2, <1>3, TextOpensLiteral
<1>4. CASE Scanned(input)[p] = Scanner(q, "taken", Append(t, q), o)
  BY <1>2, <1>4, TakenCharacter
<1> QED BY <1>1, <1>3, <1>4 DEF AtLexeme

LEMMA NoLiteralOpens ==
  ASSUME NEW input, NEW p, NEW t, NEW o, AtLexeme(input, p, t, o), Following(input, p) \notin Quotes
  PROVE  Scanned(input)[p] = Scanner("text", "new", t, o)
BY DEF AtLexeme

LEMMA LiteralCloses ==
  ASSUME NEW input, NEW p, NEW q \in Quotes, NEW t, NEW o, NEW s,
         s = Scanner(q, "new", t, o), Scanned(input)[p] = Scan(s, q, Following(input, p))
  PROVE  AtLexeme(input, p, Append(t, q), o)
<1>1. Scanned(input)[p] =
        IF Following(input, p) = q THEN Scanner(q, "taken", Append(Append(t, q), q), o)
        ELSE Scanner("text", "new", Append(t, q), o)
  BY LiteralMeetsQuote
<1> QED BY <1>1 DEF AtLexeme

LEMMA SemicolonIsRead ==
  ASSUME NEW word, Len(word) = 1, word[1] = "semi",
         NEW input, NEW p, Stands(word, input, p),
         NEW t, NEW o, AtLexeme(input, p, t, o)
  PROVE  AtLexeme(input, p + 1, <<>>, Ending(t, o))
<1> DEFINE S(k) == Scanned(input)[p + k]
           N(k) == Following(input, p + k)
<1>1. p \in Nat /\ Len(input) \in Nat /\ p + 1 <= Len(input) /\ p + 0 = p /\ input[p + 1] = "semi"
  BY DEF Stands
<1>2. Following(input, p) = "semi" /\ \A k \in 1..1 : S(k) = Scan(S(k - 1), word[k], After(word, k, N(k)))
  <2>1. Len(word) \in Nat \ {0}
    OBVIOUS
  <2>2. /\ Following(input, p) = word[1]
        /\ \A k \in 1..Len(word) : S(k) = Scan(S(k - 1), word[k], After(word, k, N(k)))
    BY <2>1, ScanWord
  <2> HIDE DEF S, N
  <2> QED BY <2>2
<1>3. S(0) = Scanner("text", "new", t, o)
  BY <1>1, <1>2, NoLiteralOpens, CharactersDiffer
<1> HIDE DEF S, N
<1>4. /\ S(1) = Scan(S(0), "semi", N(1))
  BY <1>2 DEF After
<1>5. S(1) = Scanner("text", "new", <<>>, Ending(t, o))
  BY <1>4, <1>3, TextEnds
<1> QED BY <1>5 DEF AtLexeme, S

LEMMA LineCommentIsRead ==
  ASSUME NEW word, Len(word) = 5, word[1] = "-", word[2] = "-", word[3] = "semi", word[4] = "quote", word[5] = "nl",
         NEW input, NEW p, Stands(word, input, p),
         NEW t \in Seq(Characters), NEW o, AtLexeme(input, p, t, o)
  PROVE  AtLexeme(input, p + 5, t \o <<"space", "nl">>, o)
<1> DEFINE S(k) == Scanned(input)[p + k]
           N(k) == Following(input, p + k)
<1>1. p \in Nat /\ Len(input) \in Nat /\ p + 5 <= Len(input) /\ p + 0 = p /\ input[p + 1] = "-"
  BY DEF Stands
<1>2. Following(input, p) = "-" /\ \A k \in 1..5 : S(k) = Scan(S(k - 1), word[k], After(word, k, N(k)))
  <2>1. Len(word) \in Nat \ {0}
    OBVIOUS
  <2>2. /\ Following(input, p) = word[1]
        /\ \A k \in 1..Len(word) : S(k) = Scan(S(k - 1), word[k], After(word, k, N(k)))
    BY <2>1, ScanWord
  <2> HIDE DEF S, N
  <2> QED BY <2>2
<1>3. S(0) = Scanner("text", "new", t, o)
  BY <1>1, <1>2, NoLiteralOpens, CharactersDiffer
<1> HIDE DEF S, N
<1>4. /\ S(1) = Scan(S(0), "-", "-")
      /\ S(2) = Scan(S(1), "-", "semi")
      /\ S(3) = Scan(S(2), "semi", "quote")
      /\ S(4) = Scan(S(3), "quote", "nl")
      /\ S(5) = Scan(S(4), "nl", N(5))
  BY <1>2 DEF After
<1>5. S(1) = Scanner("line", "taken", Append(t, "space"), o)
  BY <1>4, <1>3, TextOpensComment
<1>6. S(2) = Scanner("line", "new", Append(t, "space"), o)
  BY <1>4, <1>5, TakenCharacter
<1>7. S(3) = Scanner("line", "new", Append(t, "space"), o)
  BY <1>4, <1>6, InsideLineComment
<1>8. S(4) = Scanner("line", "new", Append(t, "space"), o)
  BY <1>4, <1>7, InsideLineComment
<1>9. S(5) = Scanner("text", "new", Append(Append(t, "space"), "nl"), o)
  BY <1>4, <1>8, InsideLineComment
<1>10. AtLexeme(input, p + 5, Append(Append(t, "space"), "nl"), o)
  BY <1>9 DEF AtLexeme, S
<1>11. t \o <<"space", "nl">> = Append(Append(t, "space"), "nl")
  BY SpelledTwo, CharactersDiffer
<1> QED BY <1>10, <1>11

LEMMA BlockCommentIsRead ==
  ASSUME NEW word, Len(word) = 7, word[1] = "/", word[2] = "*", word[3] = "/", word[4] = "semi",
         word[5] = "quote", word[6] = "*", word[7] = "/",
         NEW input, NEW p, Stands(word, input, p),
         NEW t \in Seq(Characters), NEW o, AtLexeme(input, p, t, o)
  PROVE  AtLexeme(input, p + 7, t \o <<"space">>, o)
<1> DEFINE S(k) == Scanned(input)[p + k]
           N(k) == Following(input, p + k)
<1>1. p \in Nat /\ Len(input) \in Nat /\ p + 7 <= Len(input) /\ p + 0 = p /\ input[p + 1] = "/"
  BY DEF Stands
<1>2. Following(input, p) = "/" /\ \A k \in 1..7 : S(k) = Scan(S(k - 1), word[k], After(word, k, N(k)))
  <2>1. Len(word) \in Nat \ {0}
    OBVIOUS
  <2>2. /\ Following(input, p) = word[1]
        /\ \A k \in 1..Len(word) : S(k) = Scan(S(k - 1), word[k], After(word, k, N(k)))
    BY <2>1, ScanWord
  <2> HIDE DEF S, N
  <2> QED BY <2>2
<1>3. S(0) = Scanner("text", "new", t, o)
  BY <1>1, <1>2, NoLiteralOpens, CharactersDiffer
<1> HIDE DEF S, N
<1>4. /\ S(1) = Scan(S(0), "/", "*")
      /\ S(2) = Scan(S(1), "*", "/")
      /\ S(3) = Scan(S(2), "/", "semi")
      /\ S(4) = Scan(S(3), "semi", "quote")
      /\ S(5) = Scan(S(4), "quote", "*")
      /\ S(6) = Scan(S(5), "*", "/")
      /\ S(7) = Scan(S(6), "/", N(7))
  BY <1>2 DEF After
<1>5. S(1) = Scanner("block", "taken", Append(t, "space"), o)
  BY <1>4, <1>3, TextOpensComment
<1>6. S(2) = Scanner("block", "new", Append(t, "space"), o)
  BY <1>4, <1>5, TakenCharacter
<1>7. S(3) = Scanner("block", "new", Append(t, "space"), o)
  BY <1>4, <1>6, InsideBlockComment
<1>8. S(4) = Scanner("block", "new", Append(t, "space"), o)
  BY <1>4, <1>7, InsideBlockComment
<1>9. S(5) = Scanner("block", "new", Append(t, "space"), o)
  BY <1>4, <1>8, InsideBlockComment
<1>10. S(6) = Scanner("text", "taken", Append(t, "space"), o)
  BY <1>4, <1>9, InsideBlockComment
<1>11. S(7) = Scanner("text", "new", Append(t, "space"), o)
  BY <1>4, <1>10, TakenCharacter
<1>12. AtLexeme(input, p + 7, Append(t, "space"), o)
  BY <1>11 DEF AtLexeme, S
<1>13. t \o <<"space">> = Append(t, "space")
  BY SpelledTwo, CharactersDiffer
<1> QED BY <1>12, <1>13

LEMMA EmptyBlockCommentIsRead ==
  ASSUME NEW word, Len(word) = 4, word[1] = "/", word[2] = "*", word[3] = "*", word[4] = "/",
         NEW input, NEW p, Stands(word, input, p),
         NEW t \in Seq(Characters), NEW o, AtLexeme(input, p, t, o)
  PROVE  AtLexeme(input, p + 4, t \o <<"space">>, o)
<1> DEFINE S(k) == Scanned(input)[p + k]
           N(k) == Following(input, p + k)
<1>1. p \in Nat /\ Len(input) \in Nat /\ p + 4 <= Len(input) /\ p + 0 = p /\ input[p + 1] = "/"
  BY DEF Stands
<1>2. Following(input, p) = "/" /\ \A k \in 1..4 : S(k) = Scan(S(k - 1), word[k], After(word, k, N(k)))
  <2>1. Len(word) \in Nat \ {0}
    OBVIOUS
  <2>2. /\ Following(input, p) = word[1]
        /\ \A k \in 1..Len(word) : S(k) = Scan(S(k - 1), word[k], After(word, k, N(k)))
    BY <2>1, ScanWord
  <2> HIDE DEF S, N
  <2> QED BY <2>2
<1>3. S(0) = Scanner("text", "new", t, o)
  BY <1>1, <1>2, NoLiteralOpens, CharactersDiffer
<1> HIDE DEF S, N
<1>4. /\ S(1) = Scan(S(0), "/", "*")
      /\ S(2) = Scan(S(1), "*", "*")
      /\ S(3) = Scan(S(2), "*", "/")
      /\ S(4) = Scan(S(3), "/", N(4))
  BY <1>2 DEF After
<1>5. S(1) = Scanner("block", "taken", Append(t, "space"), o)
  BY <1>4, <1>3, TextOpensComment
<1>6. S(2) = Scanner("block", "new", Append(t, "space"), o)
  BY <1>4, <1>5, TakenCharacter
<1>7. S(3) = Scanner("text", "taken", Append(t, "space"), o)
  BY <1>4, <1>6, InsideBlockComment
<1>8. S(4) = Scanner("text", "new", Append(t, "space"), o)
  BY <1>4, <1>7, TakenCharacter
<1>9. AtLexeme(input, p + 4, Append(t, "space"), o)
  BY <1>8 DEF AtLexeme, S
<1>10. t \o <<"space">> = Append(t, "space")
  BY SpelledTwo, CharactersDiffer
<1> QED BY <1>9, <1>10

LEMMA NameIsRead ==
  ASSUME NEW word, Len(word) = 1, word[1] = "x",
         NEW input, NEW p, Stands(word, input, p),
         NEW t \in Seq(Characters), NEW o, AtLexeme(input, p, t, o)
  PROVE  AtLexeme(input, p + 1, t \o <<"x">>, o)
<1> DEFINE S(k) == Scanned(input)[p + k]
           N(k) == Following(input, p + k)
<1>1. p \in Nat /\ Len(input) \in Nat /\ p + 1 <= Len(input) /\ p + 0 = p /\ input[p + 1] = "x"
  BY DEF Stands
<1>2. Following(input, p) = "x" /\ \A k \in 1..1 : S(k) = Scan(S(k - 1), word[k], After(word, k, N(k)))
  <2>1. Len(word) \in Nat \ {0}
    OBVIOUS
  <2>2. /\ Following(input, p) = word[1]
        /\ \A k \in 1..Len(word) : S(k) = Scan(S(k - 1), word[k], After(word, k, N(k)))
    BY <2>1, ScanWord
  <2> HIDE DEF S, N
  <2> QED BY <2>2
<1>3. S(0) = Scanner("text", "new", t, o)
  BY <1>1, <1>2, NoLiteralOpens, CharactersDiffer
<1> HIDE DEF S, N
<1>4. /\ S(1) = Scan(S(0), "x", N(1))
  BY <1>2 DEF After
<1>5. S(1) = Scanner("text", "new", Append(t, "x"), o)
  BY <1>4, <1>3, TextIsKept
<1>6. AtLexeme(input, p + 1, Append(t, "x"), o)
  BY <1>5 DEF AtLexeme, S
<1>7. t \o <<"x">> = Append(t, "x")
  BY SpelledTwo, CharactersDiffer
<1> QED BY <1>6, <1>7

LEMMA NewlineIsRead ==
  ASSUME NEW word, Len(word) = 1, word[1] = "nl",
         NEW input, NEW p, Stands(word, input, p),
         NEW t \in Seq(Characters), NEW o, AtLexeme(input, p, t, o)
  PROVE  AtLexeme(input, p + 1, t \o <<"nl">>, o)
<1> DEFINE S(k) == Scanned(input)[p + k]
           N(k) == Following(input, p + k)
<1>1. p \in Nat /\ Len(input) \in Nat /\ p + 1 <= Len(input) /\ p + 0 = p /\ input[p + 1] = "nl"
  BY DEF Stands
<1>2. Following(input, p) = "nl" /\ \A k \in 1..1 : S(k) = Scan(S(k - 1), word[k], After(word, k, N(k)))
  <2>1. Len(word) \in Nat \ {0}
    OBVIOUS
  <2>2. /\ Following(input, p) = word[1]
        /\ \A k \in 1..Len(word) : S(k) = Scan(S(k - 1), word[k], After(word, k, N(k)))
    BY <2>1, ScanWord
  <2> HIDE DEF S, N
  <2> QED BY <2>2
<1>3. S(0) = Scanner("text", "new", t, o)
  BY <1>1, <1>2, NoLiteralOpens, CharactersDiffer
<1> HIDE DEF S, N
<1>4. /\ S(1) = Scan(S(0), "nl", N(1))
  BY <1>2 DEF After
<1>5. S(1) = Scanner("text", "new", Append(t, "nl"), o)
  BY <1>4, <1>3, TextIsKept
<1>6. AtLexeme(input, p + 1, Append(t, "nl"), o)
  BY <1>5 DEF AtLexeme, S
<1>7. t \o <<"nl">> = Append(t, "nl")
  BY SpelledTwo, CharactersDiffer
<1> QED BY <1>6, <1>7

LEMMA MinusIsRead ==
  ASSUME NEW word, Len(word) = 2, word[1] = "-", word[2] = "x",
         NEW input, NEW p, Stands(word, input, p),
         NEW t \in Seq(Characters), NEW o, AtLexeme(input, p, t, o)
  PROVE  AtLexeme(input, p + 2, t \o <<"-", "x">>, o)
<1> DEFINE S(k) == Scanned(input)[p + k]
           N(k) == Following(input, p + k)
<1>1. p \in Nat /\ Len(input) \in Nat /\ p + 2 <= Len(input) /\ p + 0 = p /\ input[p + 1] = "-"
  BY DEF Stands
<1>2. Following(input, p) = "-" /\ \A k \in 1..2 : S(k) = Scan(S(k - 1), word[k], After(word, k, N(k)))
  <2>1. Len(word) \in Nat \ {0}
    OBVIOUS
  <2>2. /\ Following(input, p) = word[1]
        /\ \A k \in 1..Len(word) : S(k) = Scan(S(k - 1), word[k], After(word, k, N(k)))
    BY <2>1, ScanWord
  <2> HIDE DEF S, N
  <2> QED BY <2>2
<1>3. S(0) = Scanner("text", "new", t, o)
  BY <1>1, <1>2, NoLiteralOpens, CharactersDiffer
<1> HIDE DEF S, N
<1>4. /\ S(1) = Scan(S(0), "-", "x")
      /\ S(2) = Scan(S(1), "x", N(2))
  BY <1>2 DEF After
<1>5. S(1) = Scanner("text", "new", Append(t, "-"), o)
  BY <1>4, <1>3, TextIsKept
<1>6. S(2) = Scanner("text", "new", Append(Append(t, "-"), "x"), o)
  BY <1>4, <1>5, TextIsKept
<1>7. AtLexeme(input, p + 2, Append(Append(t, "-"), "x"), o)
  BY <1>6 DEF AtLexeme, S
<1>8. t \o <<"-", "x">> = Append(Append(t, "-"), "x")
  BY SpelledTwo, CharactersDiffer
<1> QED BY <1>7, <1>8

LEMMA LiteralIsRead ==
  ASSUME NEW word, Len(word) = 4, word[1] = "quote", word[2] = "semi", word[3] = "tick", word[4] = "quote",
         NEW input, NEW p, Stands(word, input, p),
         NEW t \in Seq(Characters), NEW o, AtLexeme(input, p, t, o)
  PROVE  AtLexeme(input, p + 4, t \o <<"quote", "semi", "tick", "quote">>, o)
<1> DEFINE S(k) == Scanned(input)[p + k]
           N(k) == Following(input, p + k)
<1>1. p \in Nat /\ Len(input) \in Nat /\ p + 4 <= Len(input) /\ p + 0 = p /\ input[p + 1] = "quote"
  BY DEF Stands
<1>2. Following(input, p) = "quote" /\ \A k \in 1..4 : S(k) = Scan(S(k - 1), word[k], After(word, k, N(k)))
  <2>1. Len(word) \in Nat \ {0}
    OBVIOUS
  <2>2. /\ Following(input, p) = word[1]
        /\ \A k \in 1..Len(word) : S(k) = Scan(S(k - 1), word[k], After(word, k, N(k)))
    BY <2>1, ScanWord
  <2> HIDE DEF S, N
  <2> QED BY <2>2
<1>3. S(1) = Scanner("quote", "new", Append(t, "quote"), o)
  <2>1. p < Len(input) /\ "quote" \in Quotes
    BY <1>1, CharactersDiffer
  <2> QED BY <1>1, <2>1, LiteralOpens
<1> HIDE DEF S, N
<1>4. /\ S(1) = Scan(S(0), "quote", "semi")
      /\ S(2) = Scan(S(1), "semi", "tick")
      /\ S(3) = Scan(S(2), "tick", "quote")
      /\ S(4) = Scan(S(3), "quote", N(4))
  BY <1>2 DEF After
<1>5. S(2) = Scanner("quote", "new", Append(Append(t, "quote"), "semi"), o)
  BY <1>4, <1>3, LiteralKeeps, CharactersDiffer
<1>6. S(3) = Scanner("quote", "new", Append(Append(Append(t, "quote"), "semi"), "tick"), o)
  BY <1>4, <1>5, LiteralKeeps, CharactersDiffer
<1>7. AtLexeme(input, p + 4, Append(Append(Append(Append(t, "quote"), "semi"), "tick"), "quote"), o)
  <2>1. Scanned(input)[p + 4] = Scan(S(3), "quote", Following(input, p + 4))
    BY <1>4 DEF S, N
  <2> QED BY <1>6, <2>1, LiteralCloses, CharactersDiffer
<1>8. t \o <<"quote", "semi", "tick", "quote">> = Append(Append(Append(Append(t, "quote"), "semi"), "tick"), "quote")
  BY SpelledFour, CharactersDiffer
<1> QED BY <1>7, <1>8

LEMMA EscapeIsRead ==
  ASSUME NEW word, Len(word) = 5, word[1] = "quote", word[2] = "back", word[3] = "quote",
         word[4] = "semi", word[5] = "quote",
         NEW input, NEW p, Stands(word, input, p),
         NEW t \in Seq(Characters), NEW o, AtLexeme(input, p, t, o)
  PROVE  AtLexeme(input, p + 5, t \o <<"quote", "back", "quote", "semi", "quote">>, o)
<1> DEFINE S(k) == Scanned(input)[p + k]
           N(k) == Following(input, p + k)
<1>1. p \in Nat /\ Len(input) \in Nat /\ p + 5 <= Len(input) /\ p + 0 = p /\ input[p + 1] = "quote"
  BY DEF Stands
<1>2. Following(input, p) = "quote" /\ \A k \in 1..5 : S(k) = Scan(S(k - 1), word[k], After(word, k, N(k)))
  <2>1. Len(word) \in Nat \ {0}
    OBVIOUS
  <2>2. /\ Following(input, p) = word[1]
        /\ \A k \in 1..Len(word) : S(k) = Scan(S(k - 1), word[k], After(word, k, N(k)))
    BY <2>1, ScanWord
  <2> HIDE DEF S, N
  <2> QED BY <2>2
<1>3. S(1) = Scanner("quote", "new", Append(t, "quote"), o)
  <2>1. p < Len(input) /\ "quote" \in Quotes
    BY <1>1, CharactersDiffer
  <2> QED BY <1>1, <2>1, LiteralOpens
<1> HIDE DEF S, N
<1>4. /\ S(1) = Scan(S(0), "quote", "back")
      /\ S(2) = Scan(S(1), "back", "quote")
      /\ S(3) = Scan(S(2), "quote", "semi")
      /\ S(4) = Scan(S(3), "semi", "quote")
      /\ S(5) = Scan(S(4), "quote", N(5))
  BY <1>2 DEF After
<1>5. S(2) = Scanner("quote", "escaped", Append(Append(t, "quote"), "back"), o)
  BY <1>4, <1>3, LiteralEscapes, CharactersDiffer
<1>6. S(3) = Scanner("quote", "new", Append(Append(Append(t, "quote"), "back"), "quote"), o)
  BY <1>4, <1>5, LiteralEscaped, CharactersDiffer
<1>7. S(4) = Scanner("quote", "new", Append(Append(Append(Append(t, "quote"), "back"), "quote"), "semi"), o)
  BY <1>4, <1>6, LiteralKeeps, CharactersDiffer
<1>8. AtLexeme(input, p + 5, Append(Append(Append(Append(Append(t, "quote"), "back"), "quote"), "semi"), "quote"), o)
  <2>1. Scanned(input)[p + 5] = Scan(S(4), "quote", Following(input, p + 5))
    BY <1>4 DEF S, N
  <2> QED BY <1>7, <2>1, LiteralCloses, CharactersDiffer
<1>9. t \o <<"quote", "back", "quote", "semi", "quote">> =
         Append(Append(Append(Append(Append(t, "quote"), "back"), "quote"), "semi"), "quote")
  BY Spelled, CharactersDiffer
<1> QED BY <1>8, <1>9

LEMMA TickedIsRead ==
  ASSUME NEW word, Len(word) = 4, word[1] = "tick", word[2] = "-", word[3] = "-", word[4] = "tick",
         NEW input, NEW p, Stands(word, input, p),
         NEW t \in Seq(Characters), NEW o, AtLexeme(input, p, t, o)
  PROVE  AtLexeme(input, p + 4, t \o <<"tick", "-", "-", "tick">>, o)
<1> DEFINE S(k) == Scanned(input)[p + k]
           N(k) == Following(input, p + k)
<1>1. p \in Nat /\ Len(input) \in Nat /\ p + 4 <= Len(input) /\ p + 0 = p /\ input[p + 1] = "tick"
  BY DEF Stands
<1>2. Following(input, p) = "tick" /\ \A k \in 1..4 : S(k) = Scan(S(k - 1), word[k], After(word, k, N(k)))
  <2>1. Len(word) \in Nat \ {0}
    OBVIOUS
  <2>2. /\ Following(input, p) = word[1]
        /\ \A k \in 1..Len(word) : S(k) = Scan(S(k - 1), word[k], After(word, k, N(k)))
    BY <2>1, ScanWord
  <2> HIDE DEF S, N
  <2> QED BY <2>2
<1>3. S(1) = Scanner("tick", "new", Append(t, "tick"), o)
  <2>1. p < Len(input) /\ "tick" \in Quotes
    BY <1>1, CharactersDiffer
  <2> QED BY <1>1, <2>1, LiteralOpens
<1> HIDE DEF S, N
<1>4. /\ S(1) = Scan(S(0), "tick", "-")
      /\ S(2) = Scan(S(1), "-", "-")
      /\ S(3) = Scan(S(2), "-", "tick")
      /\ S(4) = Scan(S(3), "tick", N(4))
  BY <1>2 DEF After
<1>5. S(2) = Scanner("tick", "new", Append(Append(t, "tick"), "-"), o)
  BY <1>4, <1>3, LiteralKeeps, CharactersDiffer
<1>6. S(3) = Scanner("tick", "new", Append(Append(Append(t, "tick"), "-"), "-"), o)
  BY <1>4, <1>5, LiteralKeeps, CharactersDiffer
<1>7. AtLexeme(input, p + 4, Append(Append(Append(Append(t, "tick"), "-"), "-"), "tick"), o)
  <2>1. Scanned(input)[p + 4] = Scan(S(3), "tick", Following(input, p + 4))
    BY <1>4 DEF S, N
  <2> QED BY <1>6, <2>1, LiteralCloses, CharactersDiffer
<1>8. t \o <<"tick", "-", "-", "tick">> = Append(Append(Append(Append(t, "tick"), "-"), "-"), "tick")
  BY SpelledFour, CharactersDiffer
<1> QED BY <1>7, <1>8

LEMMA EmptyLiteralIsRead ==
  ASSUME NEW word, Len(word) = 2, word[1] = "quote", word[2] = "quote",
         NEW input, NEW p, Stands(word, input, p),
         NEW t \in Seq(Characters), NEW o, AtLexeme(input, p, t, o)
  PROVE  AtLexeme(input, p + 2, t \o <<"quote", "quote">>, o)
<1> DEFINE S(k) == Scanned(input)[p + k]
           N(k) == Following(input, p + k)
<1>1. p \in Nat /\ Len(input) \in Nat /\ p + 2 <= Len(input) /\ p + 0 = p /\ input[p + 1] = "quote"
  BY DEF Stands
<1>2. Following(input, p) = "quote" /\ \A k \in 1..2 : S(k) = Scan(S(k - 1), word[k], After(word, k, N(k)))
  <2>1. Len(word) \in Nat \ {0}
    OBVIOUS
  <2>2. /\ Following(input, p) = word[1]
        /\ \A k \in 1..Len(word) : S(k) = Scan(S(k - 1), word[k], After(word, k, N(k)))
    BY <2>1, ScanWord
  <2> HIDE DEF S, N
  <2> QED BY <2>2
<1>3. S(1) = Scanner("quote", "new", Append(t, "quote"), o)
  <2>1. p < Len(input) /\ "quote" \in Quotes
    BY <1>1, CharactersDiffer
  <2> QED BY <1>1, <2>1, LiteralOpens
<1> HIDE DEF S, N
<1>4. /\ S(1) = Scan(S(0), "quote", "quote")
      /\ S(2) = Scan(S(1), "quote", N(2))
  BY <1>2 DEF After
<1>5. AtLexeme(input, p + 2, Append(Append(t, "quote"), "quote"), o)
  <2>1. Scanned(input)[p + 2] = Scan(S(1), "quote", Following(input, p + 2))
    BY <1>4 DEF S, N
  <2> QED BY <1>3, <2>1, LiteralCloses, CharactersDiffer
<1>6. t \o <<"quote", "quote">> = Append(Append(t, "quote"), "quote")
  BY SpelledTwo, CharactersDiffer
<1> QED BY <1>5, <1>6

\* What has been read, as the record Reading counts it in.
Account(t, o) == [text |-> t, ended |-> o]

LEMMA AccountHas ==
  ASSUME NEW t, NEW o
  PROVE  Account(t, o).text = t /\ Account(t, o).ended = o
BY DEF Account

LEMMA ReadsSemicolon ==
  ASSUME NEW t, NEW o
  PROVE  Close(Account(t, o)) = Account(<<>>, Ending(t, o))
<1> DEFINE r == Account(t, o)
<1>1. r.text = t /\ r.ended = o
  BY AccountHas
<1> HIDE DEF r
<1>2. Close(r) = Account(<<>>, Ending(t, o))
  BY <1>1 DEF Close, Account, Ending
<1> QED BY <1>2 DEF r

LEMMA ReadsWord ==
  ASSUME NEW t, NEW o, NEW word, word # Semicolon
  PROVE  Read(Account(t, o), word) = Account(t \o Meaning(word), o)
<1>1. Read(Account(t, o), word) = [Account(t, o) EXCEPT !.text = @ \o Meaning(word)]
  BY DEF Read
<1>2. ASSUME NEW text
      PROVE  [Account(t, o) EXCEPT !.text = text] = Account(text, o)
  BY DEF Account
<1>3. Account(t, o).text = t
  BY AccountHas
<1> QED BY <1>1, <1>2, <1>3

LEMMA LexemesDiffer ==
  ASSUME NEW word
  PROVE  /\ word = Semicolon => Len(word) = 1 /\ word[1] = "semi"
         /\ word = LineComment => Len(word) = 5 /\ word[1] = "-"
         /\ word \in BlockComments => Len(word) \in {4, 7} /\ word[1] = "/"
BY DEF Semicolon, LineComment, BlockComments

\* All before p has been read, as r says.
ReadUpTo(input, p, r) ==
  \E t \in Seq(Characters) : \E o : r = Account(t, o) /\ AtLexeme(input, p, t, o)

LEMMA LexemeIsRead ==
  ASSUME NEW word \in Lexemes, NEW input, NEW p, Stands(word, input, p),
         NEW t \in Seq(Characters), NEW o, AtLexeme(input, p, t, o)
  PROVE  ReadUpTo(input, p + Len(word), Read(Account(t, o), word))
<1>0. ASSUME NEW m, m \in Seq(Characters), Meaning(word) = m, word # Semicolon,
             AtLexeme(input, p + Len(word), t \o m, o)
      PROVE  ReadUpTo(input, p + Len(word), Read(Account(t, o), word))
  <2>1. t \o m \in Seq(Characters)
    BY <1>0
  <2>2. Read(Account(t, o), word) = Account(t \o m, o)
    BY <1>0, ReadsWord
  <2> QED BY <1>0, <2>1, <2>2 DEF ReadUpTo
<1>1. CASE word = Semicolon
  <2>1. Len(word) = 1 /\ word[1] = "semi"
    BY <1>1 DEF Semicolon
  <2>2. AtLexeme(input, p + 1, <<>>, Ending(t, o))
    BY <2>1, SemicolonIsRead
  <2>3. Read(Account(t, o), word) = Account(<<>>, Ending(t, o))
    BY <1>1, ReadsSemicolon DEF Read
  <2>4. <<>> \in Seq(Characters)
    OBVIOUS
  <2> QED BY <2>1, <2>2, <2>3, <2>4 DEF ReadUpTo
<1>2. CASE word = <<"-", "-", "semi", "quote", "nl">>
  <2> DEFINE m == <<"space", "nl">>
  <2>1. Len(word) = 5 /\ word[1] = "-" /\ word[2] = "-" /\ word[3] = "semi" /\ word[4] = "quote" /\ word[5] = "nl"
    BY <1>2
  <2>2. AtLexeme(input, p + 5, t \o m, o) /\ m \in Seq(Characters)
    BY <2>1, LineCommentIsRead, CharactersDiffer
  <2>3. word # Semicolon /\ word = LineComment /\ word \notin BlockComments
    BY <2>1, <1>2, LexemesDiffer DEF LineComment
  <2>4. Meaning(word) = m
    BY <2>3 DEF Meaning
  <2> HIDE DEF m
  <2> QED BY <1>0, <2>1, <2>2, <2>3, <2>4
<1>3. CASE word = <<"/", "*", "/", "semi", "quote", "*", "/">>
  <2> DEFINE m == <<"space">>
  <2>1. Len(word) = 7 /\ word[1] = "/" /\ word[2] = "*" /\ word[3] = "/" /\ word[4] = "semi"
      /\ word[5] = "quote" /\ word[6] = "*" /\ word[7] = "/"
    BY <1>3
  <2>2. AtLexeme(input, p + 7, t \o m, o) /\ m \in Seq(Characters)
    BY <2>1, BlockCommentIsRead, CharactersDiffer
  <2>3. word # Semicolon /\ word # LineComment /\ word \in BlockComments
    BY <2>1, <1>3, LexemesDiffer DEF BlockComments
  <2>4. Meaning(word) = m
    BY <2>3 DEF Meaning
  <2> HIDE DEF m
  <2> QED BY <1>0, <2>1, <2>2, <2>3, <2>4
<1>4. CASE word = <<"/", "*", "*", "/">>
  <2> DEFINE m == <<"space">>
  <2>1. Len(word) = 4 /\ word[1] = "/" /\ word[2] = "*" /\ word[3] = "*" /\ word[4] = "/"
    BY <1>4
  <2>2. AtLexeme(input, p + 4, t \o m, o) /\ m \in Seq(Characters)
    BY <2>1, EmptyBlockCommentIsRead, CharactersDiffer
  <2>3. word # Semicolon /\ word # LineComment /\ word \in BlockComments
    BY <2>1, <1>4, LexemesDiffer DEF BlockComments
  <2>4. Meaning(word) = m
    BY <2>3 DEF Meaning
  <2> HIDE DEF m
  <2> QED BY <1>0, <2>1, <2>2, <2>3, <2>4
<1>5. CASE word = <<"x">>
  <2> DEFINE m == <<"x">>
  <2>1. Len(word) = 1 /\ word[1] = "x"
    BY <1>5
  <2>2. AtLexeme(input, p + 1, t \o m, o) /\ m \in Seq(Characters)
    BY <2>1, NameIsRead, CharactersDiffer
  <2>3. word # Semicolon /\ word # LineComment /\ word \notin BlockComments
    BY <2>1, LexemesDiffer
  <2>4. Meaning(word) = m
    BY <2>3, <1>5 DEF Meaning
  <2> HIDE DEF m
  <2> QED BY <1>0, <2>1, <2>2, <2>3, <2>4
<1>6. CASE word = <<"nl">>
  <2> DEFINE m == <<"nl">>
  <2>1. Len(word) = 1 /\ word[1] = "nl"
    BY <1>6
  <2>2. AtLexeme(input, p + 1, t \o m, o) /\ m \in Seq(Characters)
    BY <2>1, NewlineIsRead, CharactersDiffer
  <2>3. word # Semicolon /\ word # LineComment /\ word \notin BlockComments
    BY <2>1, LexemesDiffer
  <2>4. Meaning(word) = m
    BY <2>3, <1>6 DEF Meaning
  <2> HIDE DEF m
  <2> QED BY <1>0, <2>1, <2>2, <2>3, <2>4
<1>7. CASE word = <<"-", "x">>
  <2> DEFINE m == <<"-", "x">>
  <2>1. Len(word) = 2 /\ word[1] = "-" /\ word[2] = "x"
    BY <1>7
  <2>2. AtLexeme(input, p + 2, t \o m, o) /\ m \in Seq(Characters)
    BY <2>1, MinusIsRead, CharactersDiffer
  <2>3. word # Semicolon /\ word # LineComment /\ word \notin BlockComments
    <3> HIDE DEF m
    <3>1. Len(word) # 1 /\ Len(word) # 5 /\ Len(word) \notin {4, 7}
      BY <2>1
    <3> QED BY <3>1, LexemesDiffer
  <2>4. Meaning(word) = m
    BY <2>3, <1>7 DEF Meaning
  <2> HIDE DEF m
  <2> QED BY <1>0, <2>1, <2>2, <2>3, <2>4
<1>8. CASE word = <<"quote", "semi", "tick", "quote">>
  <2> DEFINE m == <<"quote", "semi", "tick", "quote">>
  <2>1. Len(word) = 4 /\ word[1] = "quote" /\ word[2] = "semi" /\ word[3] = "tick" /\ word[4] = "quote"
    BY <1>8
  <2>2. AtLexeme(input, p + 4, t \o m, o) /\ m \in Seq(Characters)
    BY <2>1, LiteralIsRead, CharactersDiffer
  <2>3. word # Semicolon /\ word # LineComment /\ word \notin BlockComments
    BY <2>1, LexemesDiffer
  <2>4. Meaning(word) = m
    BY <2>3, <1>8 DEF Meaning
  <2> HIDE DEF m
  <2> QED BY <1>0, <2>1, <2>2, <2>3, <2>4
<1>9. CASE word = <<"quote", "back", "quote", "semi", "quote">>
  <2> DEFINE m == <<"quote", "back", "quote", "semi", "quote">>
  <2>1. Len(word) = 5 /\ word[1] = "quote" /\ word[2] = "back" /\ word[3] = "quote" /\ word[4] = "semi"
      /\ word[5] = "quote"
    BY <1>9
  <2>2. AtLexeme(input, p + 5, t \o m, o) /\ m \in Seq(Characters)
    BY <2>1, EscapeIsRead, CharactersDiffer
  <2>3. word # Semicolon /\ word # LineComment /\ word \notin BlockComments
    BY <2>1, LexemesDiffer
  <2>4. Meaning(word) = m
    BY <2>3, <1>9 DEF Meaning
  <2> HIDE DEF m
  <2> QED BY <1>0, <2>1, <2>2, <2>3, <2>4
<1>10. CASE word = <<"tick", "-", "-", "tick">>
  <2> DEFINE m == <<"tick", "-", "-", "tick">>
  <2>1. Len(word) = 4 /\ word[1] = "tick" /\ word[2] = "-" /\ word[3] = "-" /\ word[4] = "tick"
    BY <1>10
  <2>2. AtLexeme(input, p + 4, t \o m, o) /\ m \in Seq(Characters)
    BY <2>1, TickedIsRead, CharactersDiffer
  <2>3. word # Semicolon /\ word # LineComment /\ word \notin BlockComments
    BY <2>1, LexemesDiffer
  <2>4. Meaning(word) = m
    BY <2>3, <1>10 DEF Meaning
  <2> HIDE DEF m
  <2> QED BY <1>0, <2>1, <2>2, <2>3, <2>4
<1>11. CASE word = <<"quote", "quote">>
  <2> DEFINE m == <<"quote", "quote">>
  <2>1. Len(word) = 2 /\ word[1] = "quote" /\ word[2] = "quote"
    BY <1>11
  <2>2. AtLexeme(input, p + 2, t \o m, o) /\ m \in Seq(Characters)
    BY <2>1, EmptyLiteralIsRead, CharactersDiffer
  <2>3. word # Semicolon /\ word # LineComment /\ word \notin BlockComments
    BY <2>1, LexemesDiffer
  <2>4. Meaning(word) = m
    BY <2>3, <1>11 DEF Meaning
  <2> HIDE DEF m
  <2> QED BY <1>0, <2>1, <2>2, <2>3, <2>4
<1> QED BY <1>1, <1>2, <1>3, <1>4, <1>5, <1>6, <1>7, <1>8, <1>9, <1>10, <1>11
    DEF Lexemes, Literals, BlockComments, LineComment

-----------------------------------------------------------------------------
(* One file.                                                               *)

LEMMA LexemesAreWords == Lexemes \in SUBSET Seq(Characters)
<1>1. /\ Semicolon \in Seq(Characters) /\ LineComment \in Seq(Characters)
      /\ <<"x">> \in Seq(Characters) /\ <<"nl">> \in Seq(Characters) /\ <<"-", "x">> \in Seq(Characters)
  BY DEF Characters, Semicolon, LineComment
<1>2. <<"/", "*", "/", "semi", "quote", "*", "/">> \in Seq(Characters) /\ <<"/", "*", "*", "/">> \in Seq(Characters)
  BY DEF Characters
<1>3. /\ <<"quote", "semi", "tick", "quote">> \in Seq(Characters)
      /\ <<"quote", "back", "quote", "semi", "quote">> \in Seq(Characters)
      /\ <<"tick", "-", "-", "tick">> \in Seq(Characters)
      /\ <<"quote", "quote">> \in Seq(Characters)
  BY DEF Characters
<1>4. ASSUME NEW word \in Lexemes
      PROVE  word \in Seq(Characters)
  <2>1. CASE word \in Literals
    BY <1>3, <2>1 DEF Literals
  <2>2. CASE word \in BlockComments
    BY <1>2, <2>2 DEF BlockComments
  <2>3. CASE word \in {Semicolon, LineComment, <<"x">>, <<"nl">>, <<"-", "x">>}
    BY <1>1, <2>3
  <2> QED BY <2>1, <2>2, <2>3 DEF Lexemes
<1> QED BY <1>4

LEMMA JoiningBegins ==
  ASSUME NEW T, NEW s \in Seq(T), NEW t \in Seq(T), NEW u, Begins(s \o t, u)
  PROVE  Begins(s, u)
<1> DEFINE longer == s \o t
<1>1. Len(s) \in Nat /\ Len(s) <= Len(longer) /\ Len(longer) \in Nat /\ \A k \in 1..Len(s) : longer[k] = s[k]
  OBVIOUS
<1>2. Begins(longer, u)
  OBVIOUS
<1> HIDE DEF longer
<1>3. Len(s) <= Len(u)
  <2>1. Len(longer) <= Len(u)
    BY <1>2 DEF Begins
  <2> QED BY <1>1, <2>1
<1>4. \A k \in 1..Len(s) : k \in 1..Len(longer)
  BY <1>1
<1> QED BY <1>1, <1>2, <1>3, <1>4 DEF Begins

LEMMA BeginningsGather ==
  ASSUME NEW T, NEW seqs \in Seq(Seq(T)), NEW h \in [0..Len(seqs) -> Seq(T)], Gathers(h, seqs),
         NEW u, Begins(h[Len(seqs)], u)
  PROVE  \A n \in 0..Len(seqs) : Begins(h[n], u)
<1> DEFINE last == Len(seqs)
           S == {k \in Nat : k <= last => Begins(h[last - k], u)}
<1>1. last \in Nat /\ \A n \in 1..last : seqs[n] \in Seq(T)
  OBVIOUS
<1>2. 0 \in S
  <2>1. last - 0 = last
    BY <1>1
  <2> QED BY <2>1
<1>3. ASSUME NEW k \in S
      PROVE  k + 1 \in S
  <2>1. SUFFICES ASSUME k + 1 <= last
                 PROVE  Begins(h[last - (k + 1)], u)
    OBVIOUS
  <2> DEFINE n == last - k
             m == last - (k + 1)
  <2>2. n \in 1..last /\ m = n - 1 /\ m \in 0..last /\ k <= last
    BY <1>1, <2>1
  <2>3. Begins(h[n], u)
    BY <2>2
  <2> HIDE DEF n, m
  <2>4. h[n] = h[m] \o seqs[n] /\ h[m] \in Seq(T) /\ seqs[n] \in Seq(T)
    BY <1>1, <2>2 DEF Gathers
  <2>5. Begins(h[m], u)
    BY <2>3, <2>4, JoiningBegins
  <2> QED BY <2>5 DEF m
<1>4. S \in SUBSET Nat /\ \A k \in S : k + 1 \in S
  BY <1>3
<1> HIDE DEF S
<1>5. S = Nat
  BY <1>2, <1>4, SetInduction, Zenon
<1>6. ASSUME NEW n \in 0..last
      PROVE  Begins(h[n], u)
  <2>1. last - n \in S /\ last - n <= last /\ last - (last - n) = n
    BY <1>1, <1>5
  <2>2. Begins(h[last - (last - n)], u)
    BY <2>1 DEF S
  <2> QED BY <2>1, <2>2
<1> QED BY <1>6

LEMMA WordStands ==
  ASSUME NEW T, NEW s \in Seq(T), NEW t \in Seq(T), NEW u \in Seq(T), Begins(s \o t, u)
  PROVE  Stands(t, u, Len(s)) /\ Len(s \o t) = Len(s) + Len(t)
<1> DEFINE longer == s \o t
<1>1. /\ Len(s) \in Nat /\ Len(t) \in Nat /\ Len(u) \in Nat /\ Len(longer) = Len(s) + Len(t)
      /\ \A k \in 1..Len(t) : longer[Len(s) + k] = t[k]
  OBVIOUS
<1>2. Begins(longer, u)
  OBVIOUS
<1> HIDE DEF longer
<1>3. \A k \in 1..Len(t) : Len(s) + k \in 1..Len(longer)
  BY <1>1
<1>4. Stands(t, u, Len(s))
  BY <1>1, <1>2, <1>3 DEF Begins, Stands
<1> QED BY <1>1, <1>4 DEF longer

\* The scanner has read the lexemes of a file that anything else follows.
LEMMA FileIsRead ==
  ASSUME NEW file \in Seq(Lexemes), NEW open \in Seq(Characters), NEW u, u = FlattenSeq(file) \o open
  PROVE  /\ FlattenSeq(file) \in Seq(Characters)
         /\ ReadUpTo(u, Len(FlattenSeq(file)), Reading(file)[Len(file)])
<1> DEFINE last == Len(file)
<1>1. last \in Nat /\ file \in Seq(Seq(Characters)) /\ \A n \in 1..last : file[n] \in Lexemes
  BY LexemesAreWords
<1>2. PICK h \in [0..last -> Seq(Characters)] : Gathers(h, file)
  BY <1>1, SequencesGather
<1>3. FlattenSeq(file) = h[last]
  BY <1>1, <1>2, FlatteningGathers
<1>4. h[last] \in Seq(Characters)
  BY <1>1, <1>2
<1>5. u \in Seq(Characters) /\ Begins(h[last], u)
  <2> DEFINE text == h[last]
  <2>1. text \in Seq(Characters) /\ u = text \o open
    BY <1>3, <1>4
  <2> HIDE DEF text
  <2>2. u \in Seq(Characters) /\ Begins(text, u)
    BY <2>1 DEF Begins
  <2> QED BY <2>2 DEF text
<1>6. \A n \in 0..last : Begins(h[n], u)
  BY <1>1, <1>2, <1>5, BeginningsGather
<1>7. Len(u) \in Nat
  BY <1>5
<1> DEFINE R == Reading(file)
           T == {n \in Nat : n <= last => ReadUpTo(u, Len(h[n]), R[n])}
<1>8. R[0] = NothingRead /\ \A n \in 1..last : R[n] = Read(R[n - 1], file[n])
  BY <1>1, ReadingFollowsLexemes
<1>9. 0 \in T
  <2>1. Len(h[0]) = 0 /\ <<>> \in Seq(Characters)
    BY <1>2 DEF Gathers
  <2>2. Scanned(u)[0] = Scanner("text", "new", <<>>, <<>>)
    BY <1>7, ScanFollowsText DEF NewScanner, Scanner
  <2>3. R[0] = Account(<<>>, <<>>)
    BY <1>8 DEF NothingRead, Account
  <2> HIDE DEF R
  <2>4. ReadUpTo(u, 0, R[0])
    BY <2>1, <2>2, <2>3 DEF ReadUpTo, AtLexeme
  <2> QED BY <2>1, <2>4
<1> HIDE DEF R, last
<1>10. ASSUME NEW m \in T
       PROVE  m + 1 \in T
  <2>1. SUFFICES ASSUME m + 1 <= last
                 PROVE  ReadUpTo(u, Len(h[m + 1]), R[m + 1])
    OBVIOUS
  <2> DEFINE n == m + 1
  <2>2. m \in Nat /\ n \in 1..last /\ n - 1 = m /\ m \in 0..last /\ n \in 0..last /\ m <= last
    BY <1>1, <2>1
  <2>3. ReadUpTo(u, Len(h[m]), R[m])
    BY <2>2
  <2> HIDE DEF n
  <2>4. h[n] = h[m] \o file[n] /\ Begins(h[n], u) /\ h[m] \in Seq(Characters)
    BY <1>2, <1>6, <2>2 DEF Gathers, last
  <2>5. file[n] \in Lexemes /\ file[n] \in Seq(Characters) /\ R[n] = Read(R[m], file[n])
    BY <1>1, <1>8, <2>2, LexemesAreWords
  <2> DEFINE word == file[n]
             p == Len(h[m])
  <2>6. Stands(word, u, p) /\ Len(h[n]) = p + Len(word)
    BY <1>5, <2>4, <2>5, WordStands
  <2>7. PICK t \in Seq(Characters) : \E o : R[m] = Account(t, o) /\ AtLexeme(u, p, t, o)
    BY <2>3 DEF ReadUpTo
  <2>8. PICK o : R[m] = Account(t, o) /\ AtLexeme(u, p, t, o)
    BY <2>7
  <2> HIDE DEF word, p
  <2>9. ReadUpTo(u, p + Len(word), Read(Account(t, o), word))
    <3>1. word \in Lexemes
      BY <2>5 DEF word
    <3> QED BY <2>6, <2>8, <3>1, LexemeIsRead
  <2>10. ReadUpTo(u, Len(h[n]), R[n])
    <3>1. R[n] = Read(Account(t, o), word)
      BY <2>5, <2>8 DEF word
    <3> QED BY <2>6, <2>9, <3>1
  <2> QED BY <2>10 DEF n
<1>11. T \in SUBSET Nat /\ \A n \in T : n + 1 \in T
  BY <1>10
<1> HIDE DEF T
<1>12. T = Nat
  BY <1>9, <1>11, SetInduction, Zenon
<1>13. ReadUpTo(u, Len(h[last]), R[last])
  BY <1>1, <1>12 DEF T
<1> QED BY <1>3, <1>4, <1>13 DEF R, last

LEMMA WholeFileIsSplit ==
  ASSUME NEW file \in Seq(Lexemes)
  PROVE  Split(FlattenSeq(file)) = StatementsOf(file)
<1> DEFINE u == FlattenSeq(file)
           p == Len(u)
           r == Reading(file)[Len(file)]
<1>1. <<>> \in Seq(Characters) /\ u \in Seq(Characters)
  <2>1. <<>> \in Seq(Characters)
    OBVIOUS
  <2> QED BY <2>1, FileIsRead
<1>2. u = u \o <<>> /\ p \in Nat
  BY <1>1
<1>3. ReadUpTo(u, p, r)
  BY <1>1, <1>2, FileIsRead
<1> HIDE DEF r
<1>4. PICK t \in Seq(Characters) : \E o : r = Account(t, o) /\ AtLexeme(u, p, t, o)
  BY <1>3 DEF ReadUpTo
<1>5. PICK o : r = Account(t, o) /\ AtLexeme(u, p, t, o)
  BY <1>4
<1> HIDE DEF u
<1>6. Following(u, p) = "eof"
  BY <1>2 DEF Following
<1>7. Scanned(u)[p] = Scanner("text", "new", t, o)
  BY <1>5, <1>6, NoLiteralOpens, CharactersDiffer
<1>8. FlushStatement(Scanned(u)[p]) = Scanner("text", "new", <<>>, Ending(t, o))
  BY <1>7, TextIsFlushed
<1>9. Scanned(u)[p].mode = "text" /\ FlushStatement(Scanned(u)[p]).out = Ending(t, o)
  BY <1>7, <1>8, ScannerHas
<1>10. Split(u) = Ending(t, o)
  <2> DEFINE s == Scanned(u)[p]
  <2>1. Split(u) = IF s.mode \in Quotes \cup {"block"} THEN Refused ELSE FlushStatement(s).out
    BY DEF Split
  <2>2. s.mode \notin Quotes \cup {"block"}
    BY <1>9 DEF Quotes
  <2> HIDE DEF s, p
  <2>3. Split(u) = FlushStatement(s).out
    BY <2>1, <2>2
  <2> QED BY <1>9, <2>3 DEF s
<1>11. Close(r).ended = Ending(t, o)
  BY <1>5, ReadsSemicolon, AccountHas
<1>12. StatementsOf(file) = Close(r).ended
  BY DEF StatementsOf, r
<1> QED BY <1>10, <1>11, <1>12 DEF u

LEMMA EndsInside ==
  ASSUME NEW text \in Seq(Characters), NEW open \in Seq(Characters), NEW mode \in Quotes \cup {"block"},
         NEW k, NEW c, NEW o, Scanned(text \o open)[Len(text) + Len(open)] = Scanner(mode, k, c, o)
  PROVE  Split(text \o open) = Refused
<1> DEFINE u == text \o open
           s == Scanned(u)[Len(u)]
<1>1. Len(u) = Len(text) + Len(open)
  OBVIOUS
<1>2. s.mode = mode
  BY <1>1, ScannerHas
<1>3. Split(u) = IF s.mode \in Quotes \cup {"block"} THEN Refused ELSE FlushStatement(s).out
  BY DEF Split
<1> HIDE DEF s, u
<1>4. Split(u) = Refused
  BY <1>2, <1>3
<1> QED BY <1>4 DEF u

LEMMA OpenEndIsRefused ==
  ASSUME NEW file \in Seq(Lexemes),
         NEW open \in {<<"quote">>, <<"tick", "back", "tick">>, <<"/", "*", "/">>}
  PROVE  Split(FlattenSeq(file) \o open) = Refused
<1> DEFINE text == FlattenSeq(file)
           u == text \o open
           p == Len(text)
           r == Reading(file)[Len(file)]
           S(k) == Scanned(u)[p + k]
           N(k) == Following(u, p + k)
<1>1. open \in Seq(Characters) /\ Len(open) \in Nat \ {0}
  <2>1. CASE open = <<"quote">>
    BY <2>1 DEF Characters
  <2>2. CASE open = <<"tick", "back", "tick">>
    BY <2>2 DEF Characters
  <2>3. CASE open = <<"/", "*", "/">>
    BY <2>3 DEF Characters
  <2> QED BY <2>1, <2>2, <2>3
<1>2. text \in Seq(Characters) /\ ReadUpTo(u, p, r)
  BY <1>1, FileIsRead
<1> HIDE DEF r, text
<1>3. u \in Seq(Characters) /\ p \in Nat /\ Len(u) = p + Len(open) /\ p + 0 = p
  BY <1>1, <1>2
<1>4. Stands(open, u, p)
  <2>1. Begins(u, u)
    BY DEF Begins
  <2> QED BY <1>1, <1>2, <1>3, <2>1, WordStands
<1>5. PICK t \in Seq(Characters) : \E o : r = Account(t, o) /\ AtLexeme(u, p, t, o)
  BY <1>2 DEF ReadUpTo
<1>6. PICK o : AtLexeme(u, p, t, o)
  BY <1>5
<1>7. /\ Following(u, p) = open[1]
      /\ \A k \in 1..Len(open) : S(k) = Scan(S(k - 1), open[k], After(open, k, N(k)))
  <2> HIDE DEF u, p
  <2> QED BY <1>1, <1>4, ScanWord
<1>8. \A k \in 1..Len(open) : u[p + k] = open[k]
  BY <1>4 DEF Stands
<1>9. \E mode \in Quotes \cup {"block"} : \E k, c : S(Len(open)) = Scanner(mode, k, c, o)
  <2>1. CASE open = <<"quote">>
    <3>1. Len(open) = 1 /\ open[1] = "quote" /\ "quote" \in Quotes
      BY <2>1, CharactersDiffer
    <3> HIDE DEF u, p
    <3>2. p < Len(u) /\ Len(u) \in Nat /\ u[p + 1] = "quote"
      BY <1>3, <1>8, <3>1
    <3>3. S(1) = Scanner("quote", "new", Append(t, "quote"), o)
      <4>1. AtLexeme(u, p, t, o) /\ p \in Nat
        BY <1>3, <1>6
      <4> QED BY <3>1, <3>2, <4>1, LiteralOpens
    <3> HIDE DEF S
    <3> QED BY <3>1, <3>3
  <2>2. CASE open = <<"tick", "back", "tick">>
    <3>1. Len(open) = 3 /\ open[1] = "tick" /\ open[2] = "back" /\ open[3] = "tick" /\ "tick" \in Quotes
      BY <2>2, CharactersDiffer
    <3> HIDE DEF u, p
    <3>2. p < Len(u) /\ Len(u) \in Nat /\ u[p + 1] = "tick"
      BY <1>3, <1>8, <3>1
    <3>3. S(1) = Scanner("tick", "new", Append(t, "tick"), o)
      <4>1. AtLexeme(u, p, t, o) /\ p \in Nat
        BY <1>3, <1>6
      <4> QED BY <3>1, <3>2, <4>1, LiteralOpens
    <3> HIDE DEF S, N
    <3>4. S(2) = Scan(S(1), "back", "tick") /\ S(3) = Scan(S(2), "tick", N(3))
      BY <1>7, <3>1 DEF After
    <3>5. S(2) = Scanner("tick", "escaped", Append(Append(t, "tick"), "back"), o)
      BY <3>1, <3>3, <3>4, LiteralEscapes
    <3>6. S(3) = Scanner("tick", "new", Append(Append(Append(t, "tick"), "back"), "tick"), o)
      BY <3>1, <3>4, <3>5, LiteralEscaped
    <3> QED BY <3>1, <3>6
  <2>3. CASE open = <<"/", "*", "/">>
    <3>1. Len(open) = 3 /\ open[1] = "/" /\ open[2] = "*" /\ open[3] = "/"
      BY <2>3
    <3>2. S(0) = Scanner("text", "new", t, o)
      BY <1>3, <1>6, <1>7, <3>1, NoLiteralOpens, CharactersDiffer
    <3> HIDE DEF S, N, u, p
    <3>3. S(1) = Scan(S(0), "/", "*") /\ S(2) = Scan(S(1), "*", "/") /\ S(3) = Scan(S(2), "/", N(3))
      BY <1>7, <3>1 DEF After
    <3>4. S(1) = Scanner("block", "taken", Append(t, "space"), o)
      BY <3>2, <3>3, TextOpensComment
    <3>5. S(2) = Scanner("block", "new", Append(t, "space"), o)
      BY <3>3, <3>4, TakenCharacter
    <3>6. S(3) = Scanner("block", "new", Append(t, "space"), o)
      BY <3>3, <3>5, InsideBlockComment
    <3> QED BY <3>1, <3>6
  <2> QED BY <2>1, <2>2, <2>3
<1>10. Split(u) = Refused
  BY <1>1, <1>2, <1>9, EndsInside
<1> QED BY <1>10 DEF text

\* A file of any number of lexemes is split into the statements SQL sees in it, whatever
\* stands in literals and comments and next to one another, and is refused when it ends
\* inside a literal or a comment.
THEOREM FilesAreSplit == Spec => []FilesAreStatements
<1>1. ASSUME NEW file \in BoundedSeq(Lexemes, MaxLexemes)
      PROVE  file \in Seq(Lexemes)
  BY SplitAssumption DEF BoundedSeq, SeqOf
<1>2. SplitsAtStatements
  BY <1>1, WholeFileIsSplit, OpenEndIsRefused DEF SplitsAtStatements
<1>3. FilesAreStatements
  BY <1>2 DEF FilesAreStatements
<1> QED BY <1>3, PTL
=============================================================================
