--------------------------- MODULE FundraisingStore ---------------------------
(***************************************************************************)
(* The writer's donation store, InsertFundraising of internal/clickhouse:  *)
(* reserve the batch id, insert the events, complete the batch, each an    *)
(* INSERT under fundraisingMu of the one writer.  No registry, no          *)
(* suppression, no deletion.                                               *)
(*                                                                         *)
(* ClickHouse may go on with an INSERT whose caller has given up (its      *)
(* context was cancelled, its connection lost, its process killed) and     *)
(* apply it after the mutex has been released: such statements wait in     *)
(* late and land in any order.                                             *)
(*                                                                         *)
(* Rows are versioned by the writer's wall clock.  It reads Now, ahead of  *)
(* the time gone by as far as skew, and may be set back and forth.         *)
(***************************************************************************)
EXTENDS Integers

CONSTANTS
  Handlers,  \* goroutines that serve POST /internal/fundraising/batches
  Bodies,    \* donation bodies that passed ParseBatch
  Batches,
  BatchOf,   \* [Bodies -> Batches]
  MinWait,   \* least time after which a caller gives up on an INSERT, in milliseconds
  MaxBack,   \* the clock is never set back by more than this, in milliseconds
  MaxTime,   \* bound: time stops here, in milliseconds
  MaxLate,   \* bound: reservations of one batch that outlive their callers, in all
  NoBody, Nobody

ASSUME FundraisingAssumption ==
  /\ BatchOf \in [Bodies -> Batches]
  /\ MinWait \in Nat /\ MaxBack \in Nat /\ MaxTime \in Nat /\ MaxLate \in Nat
  /\ NoBody \notin Bodies /\ Nobody \notin Handlers

VARIABLES
  ledger,  \* fundraising_ingest_batches_v1 FINAL, by batch id
  events,  \* fundraising_events_v1: bodies whose rows are present
  late,    \* INSERTs that ClickHouse may still apply
  overdue, \* history: how many of them have been reservations, of each batch
  time,    \* milliseconds gone by
  skew,    \* how far the writer's clock is ahead of them
  mu,      \* holder of fundraisingMu
  pc, arg, \* next statement of each handler, and its body
  at,      \* ingestedAt of each handler: the reservation it works under
  outage, acked

store == <<ledger, events, late, overdue>>
clock == <<time, skew>>
vars == <<store, clock, mu, pc, arg, at, outage, acked>>
locals == <<mu, pc, arg, at>>

-----------------------------------------------------------------------------
\* The clock, as s.now() reads it.
Now == time + skew
Readings == 0..(MaxTime + MaxBack)

NoRow == [status |-> "absent"]
Row(status, b, t) == [status |-> status, body |-> b, at |-> t]
LedgerRow == [status : {"reserved", "completed"}, body : Bodies, at : 0..(MaxTime + MaxBack + 1)]

\* ReplacingMergeTree(ingested_at) with FINAL; of equal versions the last one.
Replace(old, new) == IF old # NoRow /\ old.at > new.at THEN old ELSE new

\* An INSERT, of a ledger row or of the body's events, and its effect.
Reservation(b, t) == [into |-> "ledger", row |-> Row("reserved", b, t)]
Completion(b, t) == [into |-> "ledger", row |-> Row("completed", b, t)]
Events(b) == [into |-> "events", body |-> b]

Apply(s) ==
  IF s.into = "events"
  THEN events' = events \cup {s.body} /\ UNCHANGED ledger
  ELSE /\ ledger' = [ledger EXCEPT ![BatchOf[s.row.body]] = Replace(@, s.row)]
       /\ UNCHANGED events

Batch(s) == BatchOf[IF s.into = "events" THEN s.body ELSE s.row.body]
IsReservation(s) == s.into = "ledger" /\ s.row.status = "reserved"

\* Nobody waits for s any more.
Outlive(s) ==
  /\ late' = late \cup {s} /\ UNCHANGED <<ledger, events>>
  /\ IF IsReservation(s)
     THEN overdue[Batch(s)] < MaxLate /\ overdue' = [overdue EXCEPT ![Batch(s)] = @ + 1]
     ELSE UNCHANGED overdue

Answer(h) ==
  /\ pc' = [pc EXCEPT ![h] = "idle"]
  /\ arg' = [arg EXCEPT ![h] = NoBody]
  /\ at' = [at EXCEPT ![h] = 0]
  /\ mu' = Nobody

Pass(t) == time + t <= MaxTime /\ time' = time + t /\ UNCHANGED skew

\* The statement of handler h: it is applied and h goes on by Next, or h gives
\* up on it: without effect, after it was applied, or while it is still to come.
\* A crash of the writer is the same: waiting handlers have done nothing.
Execute(h, s, Success) ==
  \/ Apply(s) /\ Success /\ UNCHANGED <<late, overdue, clock, outage>>
  \/ /\ outage /\ Pass(MinWait)
     /\ \/ Apply(s) /\ UNCHANGED <<late, overdue>>
        \/ Outlive(s)
        \/ UNCHANGED store
     /\ Answer(h) /\ UNCHANGED <<outage, acked>>

Goto(h, step, t) ==
  /\ pc' = [pc EXCEPT ![h] = step] /\ at' = [at EXCEPT ![h] = t]
  /\ UNCHANGED <<mu, arg, acked>>

-----------------------------------------------------------------------------
Begin(h, b) ==
  /\ pc[h] = "idle"
  /\ pc' = [pc EXCEPT ![h] = "lock"] /\ arg' = [arg EXCEPT ![h] = b]
  /\ UNCHANGED <<store, clock, mu, at, outage, acked>>

Lock(h) ==
  /\ pc[h] = "lock" /\ mu = Nobody
  /\ mu' = h /\ pc' = [pc EXCEPT ![h] = "read"]
  /\ UNCHANGED <<store, clock, arg, at, outage, acked>>

\* Fault: the reservation of another body is resumed.
ReadLedgerOfAnybody(h) ==
  LET row == ledger[BatchOf[arg[h]]]
  IN  /\ pc[h] = "read"
      /\ \/ row.status = "completed" /\ Answer(h) /\ UNCHANGED acked
         \/ row.status = "absent" /\ Goto(h, "reserve", 0)
         \/ row.status = "reserved" /\ Goto(h, "insert", row.at)
      /\ UNCHANGED <<store, clock, outage>>

\* Fault: a reserved row answers like a completed one.
ReadLedgerReplayingReserved(h) ==
  /\ pc[h] = "read"
  /\ \/ ledger[BatchOf[arg[h]]] = NoRow /\ Goto(h, "reserve", 0)
     \/ ledger[BatchOf[arg[h]]] # NoRow /\ Answer(h) /\ UNCHANGED acked
  /\ UNCHANGED <<store, clock, outage>>

\* SELECT ... FINAL: conflict, replay, resumed reservation or a new batch.
ReadLedger(h) ==
  LET b == arg[h]
      row == ledger[BatchOf[b]]
      mine == row # NoRow /\ row.body = b
  IN  /\ pc[h] = "read"
      /\ \/ row # NoRow /\ ~mine /\ Answer(h) /\ UNCHANGED acked
         \/ mine /\ row.status = "completed" /\ Answer(h) /\ acked' = acked \cup {b}
         \/ row = NoRow /\ Goto(h, "reserve", 0)
         \/ mine /\ row.status = "reserved" /\ Goto(h, "insert", row.at)
         \/ outage /\ Answer(h) /\ UNCHANGED acked
      /\ UNCHANGED <<store, clock, outage>>

\* Fault: the batch is reserved as completed.
ReserveCompleted(h) ==
  /\ pc[h] = "reserve"
  /\ Execute(h, Completion(arg[h], Now), Goto(h, "insert", Now))

Reserve(h) ==
  /\ pc[h] = "reserve"
  /\ Execute(h, Reservation(arg[h], Now), Goto(h, "insert", Now))

InsertEvents(h) ==
  /\ pc[h] = "insert"
  /\ Execute(h, Events(arg[h]), Goto(h, "complete", at[h]))

CompletedAt(h) == IF Now > at[h] THEN Now ELSE at[h] + 1

\* Fault: the error of the last INSERT is not looked at.
CompleteUnchecked(h) ==
  /\ pc[h] = "complete"
  /\ (Apply(Completion(arg[h], CompletedAt(h))) \/ UNCHANGED <<ledger, events>>)
  /\ Answer(h) /\ acked' = acked \cup {arg[h]}
  /\ UNCHANGED <<late, overdue, clock, outage>>

Complete(h) ==
  /\ pc[h] = "complete"
  /\ Execute(h, Completion(arg[h], CompletedAt(h)),
             Answer(h) /\ acked' = acked \cup {arg[h]})

\* ClickHouse applies a statement nobody waits for any more, or drops it.
Land(s) ==
  /\ s \in late /\ late' = late \ {s}
  /\ (Apply(s) \/ UNCHANGED <<ledger, events>>)
  /\ UNCHANGED <<overdue, clock, locals, outage, acked>>

Tick == Pass(1) /\ UNCHANGED <<store, locals, outage, acked>>

\* The wall clock is set, back or forth.
SetClock ==
  /\ skew' \in 0..MaxBack
  /\ UNCHANGED <<store, time, locals, outage, acked>>

-----------------------------------------------------------------------------
Init ==
  /\ ledger = [n \in Batches |-> NoRow] /\ events = {} /\ late = {} 
  /\ overdue = [n \in Batches |-> 0]
  /\ time = 0 /\ skew \in 0..MaxBack /\ mu = Nobody
  /\ pc = [h \in Handlers |-> "idle"] /\ arg = [h \in Handlers |-> NoBody]
  /\ at = [h \in Handlers |-> 0]
  /\ outage = TRUE /\ acked = {}

InsertFundraising(h) ==
  ReadLedger(h) \/ Reserve(h) \/ InsertEvents(h) \/ Complete(h)

Next ==
  \/ \E h \in Handlers : \/ \E b \in Bodies : Begin(h, b)
                         \/ Lock(h) \/ InsertFundraising(h)
  \/ \E s \in late : Land(s)
  \/ Tick \/ SetClock

Spec == Init /\ [][Next]_vars

Recover == outage /\ outage' = FALSE /\ UNCHANGED <<store, clock, locals, acked>>

\* Failures end, handlers run, the mutex is fair and clients repeat their bodies.
Fairness ==
  /\ WF_vars(Recover)
  /\ \A h \in Handlers : SF_vars(Lock(h)) /\ WF_vars(InsertFundraising(h))
  /\ \A b \in Bodies : SF_vars(\E h \in Handlers : Begin(h, b))

FairSpec == Init /\ [][Next \/ Recover]_vars /\ Fairness

-----------------------------------------------------------------------------
(* Properties                                                              *)

\* The variables have their types, and only the holder of the mutex is past it.
TypeOK ==
  /\ ledger \in [Batches -> LedgerRow \cup {NoRow}]
  /\ events \subseteq Bodies
  /\ late \subseteq [into : {"ledger"}, row : LedgerRow] \cup [into : {"events"}, body : Bodies]
  /\ overdue \in [Batches -> 0..MaxLate] /\ time \in 0..MaxTime /\ skew \in 0..MaxBack
  /\ mu \in Handlers \cup {Nobody}
  /\ pc \in [Handlers -> {"idle", "lock", "read", "reserve", "insert", "complete"}]
  /\ arg \in [Handlers -> Bodies \cup {NoBody}]
  /\ at \in [Handlers -> Readings]
  /\ \A h \in Handlers : pc[h] \notin {"idle", "lock"} => mu = h
  /\ outage \in BOOLEAN /\ acked \subseteq Bodies

\* A batch id accounts for the donations of one body only, even when INSERTs of
\* another body land after its handler gave up (store_fundraising.go:21-58).
OneBodyPerBatch ==
  \A a, b \in events : BatchOf[a] = BatchOf[b] => a = b

\* Donations in the table belong to a batch the ledger shows for their body: the
\* next sender of the id gets a conflict or a replay, never a second insert.
EventsAreReserved ==
  \A b \in events : ledger[BatchOf[b]] # NoRow /\ ledger[BatchOf[b]].body = b

\* A 202 means stored and completed, for good: no late reservation puts the
\* ledger back behind the answer (store_fundraising.go:53-60).
AckedIsStored ==
  \A b \in acked :
    b \in events /\ LET row == ledger[BatchOf[b]]
                    IN  row # NoRow /\ row.status = "completed" /\ row.body = b

\* A row that reads completed answers every retry without writing, so its
\* donations must be there (store_fundraising.go:34-36).
CompletedIsStored ==
  \A n \in Batches : ledger[n] # NoRow /\ ledger[n].status = "completed"
                       => ledger[n].body \in events

\* The state of the store at all times: ledger and events agree both ways, through
\* statements that land late.
Inv == TypeOK /\ EventsAreReserved /\ CompletedIsStored

\* "A retry after a partial write resumes the reserved batch safely"
\* (docs/fundraising-ingestion.md:37): the client that repeats the body gets its
\* batch completed.
ReservationResolved ==
  \A n \in Batches :
    ledger[n] # NoRow ~> (ledger[n] # NoRow /\ ledger[n].status = "completed")
=============================================================================
