---------------------------- MODULE MigrationRunner ----------------------------
(***************************************************************************)
(* The migration runner: migrations/runner.go over the ClickHouse backend  *)
(* of migrations/clickhouse.go.                                            *)
(*                                                                         *)
(* A release is the set of migrations embedded in one binary.  A runner    *)
(* reads the ledger once, checks it, and executes what is not recorded,    *)
(* in the order of the versions, recording each version at its end.  It    *)
(* may stop anywhere; it is run again by hand.  DDL is not transactional.  *)
(***************************************************************************)
EXTENDS Integers, Sequences, FiniteSetsExt, Functions

CONSTANTS
  Runners,
  Releases,    \* functions from versions to checksums
  Statements,  \* [editions -> Seq([kind, object])]; an edition is a version and a checksum
  Objects,     \* tables and views
  Shipped,     \* the releases, of which ClickHouse's entrypoint may have run the SQL
  MaxCrashes,  \* bound: of runs cut short
  NoChecksum

Editions == DOMAIN Statements
Versions == {e[1] : e \in Editions}
EditionsOf(release) == {<<v, release[v]>> : v \in DOMAIN release}
Effects == {"create", "replace", "alter"}

ASSUME MigrationAssumption ==
  /\ \A e \in Editions : e = <<e[1], e[2]>> /\ e[1] \in Nat \ {0} /\ e[2] # NoChecksum
  /\ \A e \in Editions : Statements[e] \in Seq([kind : Effects, object : Objects])
  /\ \A release \in Releases \cup Shipped : EditionsOf(release) \subseteq Editions
  /\ MaxCrashes \in Nat

VARIABLES
  schema,  \* [Objects -> [base, columns]]: the edition that made or replaced it, and
           \* those that altered it; base NoEdition when it does not exist
  ledger,  \* [Versions -> checksum], schema_migrations FINAL
  runner,  \* [Runners -> step, release, the ledger it read, version, statement]
  crashes  \* number of runs cut short

vars == <<schema, ledger, runner, crashes>>

NoLedger == [v \in Versions |-> NoChecksum]
NoEdition == <<0, NoChecksum>>
NoSchema == [o \in Objects |-> [base |-> NoEdition, columns |-> {}]]
Stopped(how) == [step |-> how, release |-> <<>>, applied |-> NoLedger, at |-> 0, statement |-> 1]

-----------------------------------------------------------------------------
(* DDL                                                                     *)

\* Fault: a view is replaced where it should be created only once.
ApplyReplacing(s, e, statement) ==
  IF statement.kind = "alter"
  THEN [s EXCEPT ![statement.object].columns = @ \cup {e}]
  ELSE [s EXCEPT ![statement.object].base = e]

\* CREATE ... IF NOT EXISTS, CREATE OR REPLACE, ALTER ... ADD COLUMN IF NOT EXISTS.
Apply(s, e, statement) ==
  LET o == statement.object
  IN  CASE statement.kind = "create" /\ s[o].base # NoEdition -> s
        [] statement.kind = "alter" -> [s EXCEPT ![o].columns = @ \cup {e}]
        [] OTHER -> [s EXCEPT ![o].base = e]

\* Fault: a CREATE without IF NOT EXISTS.
FailsExisting(s, statement) ==
  (statement.kind = "create") = (s[statement.object].base # NoEdition)

Fails(s, statement) == statement.kind = "alter" /\ s[statement.object].base = NoEdition

\* The editions with a statement of this kind about the object.
Authors(editions, kind, object) ==
  {e \in editions : [kind |-> kind, object |-> object] \in Range(Statements[e])}

Oldest(editions) == CHOOSE e \in editions : \A d \in editions : e[1] <= d[1]
Newest(editions) == CHOOSE e \in editions : \A d \in editions : e[1] >= d[1]

\* What a release makes of an empty database when nothing goes wrong: the last to
\* replace an object has made it, or else the first to create it.
InOrder(release) ==
  [o \in Objects |->
     LET made == Authors(EditionsOf(release), "create", o)
         replaced == Authors(EditionsOf(release), "replace", o)
     IN  [base |-> IF replaced # {} THEN Newest(replaced)
                   ELSE IF made # {} THEN Oldest(made) ELSE NoEdition,
          columns |-> Authors(EditionsOf(release), "alter", o)]]

-----------------------------------------------------------------------------
(* Run                                                                     *)

Start(r, release) ==
  /\ runner[r].step \in {"idle", "ok", "failed"}
  /\ runner' = [runner EXCEPT ![r] = [Stopped("prepared") EXCEPT !.release = release]]
  /\ UNCHANGED <<schema, ledger, crashes>>

Stop(r, how) == runner' = [runner EXCEPT ![r] = Stopped(how)]

\* The first version after `after` that is not recorded as this binary has it; 0 for none.
NextVersion(release, applied, after) ==
  LET next == {v \in DOMAIN release : v > after /\ applied[v] # release[v]}
  IN  IF next = {} THEN 0 ELSE Min(next)

\* A version the binary does not know: a newer one has migrated already.
Unknown(release) == \E v \in Versions \ DOMAIN release : ledger[v] # NoChecksum

ReadLedger(r) ==
  /\ runner[r].step = "prepared"
  /\ IF Unknown(runner[r].release) THEN Stop(r, "failed")
     ELSE runner' = [runner EXCEPT ![r].step = "loop", ![r].applied = ledger,
                       ![r].at = NextVersion(runner[r].release, ledger, 0)]
  /\ UNCHANGED <<schema, ledger, crashes>>

Looping(r) == runner[r].step = "loop"
Drifted(r, v) == runner[r].applied[v] # NoChecksum /\ runner[r].applied[v] # runner[r].release[v]

Drift(r) ==
  /\ Looping(r) /\ runner[r].at # 0 /\ Drifted(r, runner[r].at)
  /\ Stop(r, "failed") /\ UNCHANGED <<schema, ledger, crashes>>

Pending(r) == Looping(r) /\ runner[r].at # 0 /\ ~Drifted(r, runner[r].at)
Edition(r) == <<runner[r].at, runner[r].release[runner[r].at]>>
Script(r) == Statements[Edition(r)]
Current(r) == Script(r)[runner[r].statement]

Execute(r) ==
  /\ Pending(r) /\ runner[r].statement <= Len(Script(r))
  /\ IF Fails(schema, Current(r)) THEN Stop(r, "failed") /\ UNCHANGED schema
     ELSE /\ schema' = Apply(schema, Edition(r), Current(r))
          /\ runner' = [runner EXCEPT ![r].statement = @ + 1]
  /\ UNCHANGED <<ledger, crashes>>

\* Fault: a version is recorded before its last statement.
RecordEarly(r) ==
  /\ Pending(r) /\ runner[r].statement >= Len(Script(r))
  /\ ledger' = [ledger EXCEPT ![runner[r].at] = runner[r].release[runner[r].at]]
  /\ runner' = [runner EXCEPT ![r].statement = 1,
                  ![r].at = NextVersion(runner[r].release, runner[r].applied, @)]
  /\ UNCHANGED <<schema, crashes>>

Record(r) ==
  /\ Pending(r) /\ runner[r].statement > Len(Script(r))
  /\ ledger' = [ledger EXCEPT ![runner[r].at] = runner[r].release[runner[r].at]]
  /\ runner' = [runner EXCEPT ![r].statement = 1,
                  ![r].at = NextVersion(runner[r].release, runner[r].applied, @)]
  /\ UNCHANGED <<schema, crashes>>

\* A failed statement, the two minutes, a killed process; what was sent may be done.
Crash(r) ==
  /\ crashes < MaxCrashes /\ runner[r].step \in {"prepared", "loop"}
  /\ Stop(r, "failed") /\ crashes' = crashes + 1
  /\ \/ UNCHANGED <<schema, ledger>>
     \/ /\ Pending(r) /\ UNCHANGED ledger
        /\ runner[r].statement <= Len(Script(r)) /\ ~Fails(schema, Current(r))
        /\ schema' = Apply(schema, Edition(r), Current(r))
     \/ /\ Pending(r) /\ runner[r].statement > Len(Script(r)) /\ UNCHANGED schema
        /\ ledger' = [ledger EXCEPT ![runner[r].at] = runner[r].release[runner[r].at]]

Finish(r) ==
  /\ Looping(r) /\ runner[r].at = 0
  /\ Stop(r, "ok") /\ UNCHANGED <<schema, ledger, crashes>>

-----------------------------------------------------------------------------
\* An empty database, or one the entrypoint of the image has filled: no ledger.
Init ==
  /\ schema \in {NoSchema} \cup {InOrder(release) : release \in Shipped}
  /\ ledger = NoLedger /\ crashes = 0
  /\ runner = [r \in Runners |-> Stopped("idle")]

Run(r) == ReadLedger(r) \/ Drift(r) \/ Execute(r) \/ Record(r) \/ Finish(r)

Next ==
  \E r \in Runners : Run(r) \/ Crash(r) \/ \E release \in Releases : Start(r, release)

Spec == Init /\ [][Next]_vars

\* A run goes on, and the operator runs the binaries again.
Fairness == \A r \in Runners : WF_vars(Run(r)) /\ \A release \in Releases : SF_vars(Start(r, release))
FairSpec == Spec /\ Fairness

-----------------------------------------------------------------------------
(* Properties                                                              *)

\* The variables have their types.
TypeOK ==
  /\ \A o \in Objects :
       schema[o].base \in Editions \cup {NoEdition} /\ schema[o].columns \subseteq Editions
  /\ \A v \in Versions : ledger[v] \in {NoChecksum} \cup {r[v] : r \in {x \in Releases : v \in DOMAIN x}}
  /\ \A r \in Runners :
       /\ runner[r].step \in {"idle", "prepared", "loop", "ok", "failed"}
       /\ runner[r].at \in Versions \cup {0}
       /\ runner[r].at # 0 => runner[r].statement \in 1..(Len(Script(r)) + 1)
  /\ crashes \in 0..MaxCrashes

Recorded == {e \in Editions : ledger[e[1]] = e[2]}

Present(e, statement) ==
  LET o == schema[statement.object]
  IN  CASE statement.kind = "create" -> o.base # NoEdition
        [] statement.kind = "replace" -> o.base[1] >= e[1]
        [] statement.kind = "alter" -> o.base # NoEdition /\ e \in o.columns

\* What the ledger records has been done, by the statements of the file it names,
\* whatever was cut short and run again, and by however many runners at once
\* (runner.go:113).  A view may be another edition's, if both ran at once.
RecordedIsDone ==
  \A e \in Recorded : \A i \in DOMAIN Statements[e] : Present(e, Statements[e][i])

Traces(o) == ({schema[o].base} \ {NoEdition}) \cup schema[o].columns

\* When everything is recorded, every object is as one undisturbed run makes it, and no
\* runner still at work changes it: statements that ran twice, out of step or in the
\* entrypoint have changed nothing (docs/staging.md:18 asks for exactly one runner;
\* these scripts bear two).  Excepted is an object with a trace of another edition of a
\* file, one that ran and was not recorded: nothing undoes it.
SameAsUndisturbed ==
  (\A v \in Versions : ledger[v] # NoChecksum) =>
    \A o \in Objects :
      Traces(o) \subseteq Recorded => schema[o] = InOrder([v \in Versions |-> ledger[v]])[o]

\* An older binary changes nothing once a newer one has migrated and it looks at the
\* ledger (runner.go:99): the versions recorded before it read are all its own.
NoRollback ==
  \A r \in Runners : Looping(r) =>
    \A v \in Versions \ DOMAIN runner[r].release : runner[r].applied[v] = NoChecksum

\* The state of the database at all times: it has what its ledger says, and no runner
\* is past the ledger of a newer release.
Inv == TypeOK /\ RecordedIsDone /\ NoRollback

\* Run again often enough, every release is recorded that no newer one has overtaken.
MigratesInTheEnd == <>(\A v \in Versions : ledger[v] # NoChecksum)
=============================================================================
