----------------------- MODULE FundraisingStore_proofs -----------------------
(***************************************************************************)
(* Proofs about FundraisingStore for any bodies, batches and handlers, and *)
(* any number of INSERTs that outlive their callers, as long as no batch   *)
(* has two reservations among them and whoever gives up has waited longer  *)
(* than the clock is ever set back.  The clock orders what the mutex       *)
(* cannot: a reservation that lands late is older than every reservation   *)
(* made since.  Of two late reservations the younger one may land behind   *)
(* the donations of the older one (FundraisingStore_late.cfg).             *)
(***************************************************************************)
EXTENDS FundraisingStore, TLAPS

Statement == [into : {"ledger"}, row : LedgerRow] \cup [into : {"events"}, body : Bodies]
Steps == {"idle", "lock", "read", "reserve", "insert", "complete"}

Belongs(b) == ledger[BatchOf[b]] # NoRow /\ ledger[BatchOf[b]].body = b
Completed(b) == Belongs(b) /\ ledger[BatchOf[b]].status = "completed"
Stored(b) == b \in events /\ Completed(b)

\* What is known of an INSERT that has outlived its caller: a reservation has been
\* overtaken or is the first, the others were sent under a reservation that still holds.
LateIsSound(s) ==
  IF s.into = "events" THEN Belongs(s.body)
  ELSE LET b == s.row.body
       IN  IF s.row.status = "completed" THEN b \in events /\ Belongs(b)
           ELSE /\ overdue[BatchOf[b]] = 1 /\ s.row.at < time
                /\ ledger[BatchOf[b]] # NoRow => ledger[BatchOf[b]].at > s.row.at

LateAreSound ==
  /\ \A s \in late : LateIsSound(s)
  /\ \A s, q \in late : IsReservation(s) /\ IsReservation(q) /\ Batch(s) = Batch(q) => s = q

StoreIsSound ==
  /\ ledger \in [Batches -> LedgerRow \cup {NoRow}]
  /\ events \in SUBSET Bodies /\ late \in SUBSET Statement
  /\ overdue \in [Batches -> 0..MaxLate] /\ time \in 0..MaxTime /\ skew \in 0..MaxBack
  /\ EventsAreReserved /\ CompletedIsStored
  /\ \A n \in Batches :
       ledger[n] # NoRow /\ ledger[n].status = "reserved" => ledger[n].at \in Readings
  /\ LateAreSound

\* What the holder of the mutex has found out still is so, but for the last late
\* INSERT of the batch, a reservation with no events behind it.
HandlerIsSound(h) ==
  LET b == arg[h]
      row == ledger[BatchOf[b]]
  IN  /\ pc[h] # "idle" => b \in Bodies
      /\ pc[h] \notin {"idle", "lock"} => mu = h
      /\ pc[h] = "reserve" /\ row # NoRow =>
           /\ overdue[BatchOf[b]] = 1 /\ \A s \in late : Batch(s) # BatchOf[b]
           /\ row.status = "reserved" /\ \A c \in events : BatchOf[c] # BatchOf[b]
           /\ row.at < time
      /\ pc[h] \in {"insert", "complete"} =>
           Belongs(b) /\ (row.status = "completed" \/ row.at = at[h])
      /\ pc[h] = "complete" => b \in events

IInv ==
  /\ StoreIsSound
  /\ mu \in Handlers \cup {Nobody} /\ outage \in BOOLEAN
  /\ pc \in [Handlers -> Steps] /\ arg \in [Handlers -> Bodies \cup {NoBody}]
  /\ at \in [Handlers -> Readings]
  /\ \A h \in Handlers : HandlerIsSound(h)
  /\ acked \in SUBSET Bodies /\ \A b \in acked : Stored(b)

\* No batch has two reservations that outlive their callers.  With two of them
\* OneBodyPerBatch is false: FundraisingStore_late.cfg shows it.
OneLate == MaxLate <= 1

\* A caller waits for its INSERT longer than the clock is ever set back: whoever comes
\* after it reads a later time.  Otherwise one late reservation is enough.
WaitsOutlastClock == MaxBack < MinWait

-----------------------------------------------------------------------------
(* Rows and statements                                                     *)

LEMMA Constants ==
  /\ BatchOf \in [Bodies -> Batches] /\ MaxTime \in Nat /\ MaxLate \in Nat
  /\ MinWait \in Nat /\ MaxBack \in Nat
  /\ NoBody \notin Bodies /\ Nobody \notin Handlers
BY FundraisingAssumption

LEMMA Rows ==
  /\ NoRow \notin LedgerRow
  /\ \A r \in LedgerRow : r.status \in {"reserved", "completed"} /\ r.body \in Bodies /\ r.at \in Nat
                          /\ r.at <= MaxTime + MaxBack + 1
  /\ \A status \in {"reserved", "completed"}, b \in Bodies, t \in 0..(MaxTime + MaxBack + 1) :
       /\ Row(status, b, t) \in LedgerRow
       /\ Row(status, b, t).status = status /\ Row(status, b, t).body = b
       /\ Row(status, b, t).at = t
BY Constants DEF NoRow, LedgerRow, Row

LEMMA Replaced ==
  ASSUME NEW old \in LedgerRow \cup {NoRow}, NEW new \in LedgerRow
  PROVE  /\ Replace(old, new) \in LedgerRow /\ Replace(old, new) # NoRow
         /\ \/ Replace(old, new) = new /\ (old # NoRow => new.at >= old.at)
            \/ old # NoRow /\ old.at > new.at /\ Replace(old, new) = old
BY Rows DEF Replace

LEMMA Statements ==
  ASSUME NEW q \in Statement
  PROVE  /\ q.into \in {"ledger", "events"}
         /\ q.into = "events" => q.body \in Bodies
         /\ q.into # "events" => q.row \in LedgerRow /\ q.row.body \in Bodies
         /\ Batch(q) \in Batches
BY Rows, Constants DEF Statement, Batch

LEMMA LedgerApplied ==
  ASSUME StoreIsSound, NEW new \in LedgerRow, NEW q, q.into = "ledger", q.row = new, Apply(q)
  PROVE  LET n == BatchOf[new.body]
         IN  /\ events' = events
             /\ ledger' \in [Batches -> LedgerRow \cup {NoRow}]
             /\ n \in Batches
             /\ ledger'[n] = Replace(ledger[n], new)
             /\ \A m \in Batches : m # n => ledger'[m] = ledger[m]
<1> DEFINE n == BatchOf[new.body]
<1>1. n \in Batches /\ ledger \in [Batches -> LedgerRow \cup {NoRow}]
  BY Rows, Constants DEF StoreIsSound
<1>2. ledger' = [ledger EXCEPT ![n] = Replace(@, new)] /\ events' = events
  BY DEF Apply
<1>3. Replace(ledger[n], new) \in LedgerRow
  BY <1>1, Replaced
<1> QED BY <1>1, <1>2, <1>3

\* A late INSERT stays what it is as long as bodies keep their batches and rows
\* only get younger.
LEMMA LateStays ==
  ASSUME StoreIsSound, time' \in 0..MaxTime, skew' \in 0..MaxBack, time <= time', late' \subseteq late, overdue' = overdue,
         ledger' \in [Batches -> LedgerRow \cup {NoRow}], events \subseteq events',
         \A q \in late' : \A c \in Bodies : BatchOf[c] = Batch(q) /\ Belongs(c) => Belongs(c)',
         \A n \in Batches :
           \/ \A q \in late' : Batch(q) # n
           \/ ledger'[n] = ledger[n]
           \/ ledger'[n] # NoRow /\ ledger'[n].at >= time
           \/ ledger'[n] # NoRow /\ ledger[n] # NoRow /\ ledger'[n].at >= ledger[n].at
  PROVE  LateAreSound'
<1>. SUFFICES ASSUME NEW q \in late'
              PROVE  LateIsSound(q)'
  BY DEF StoreIsSound, LateAreSound, IsReservation, Batch
<1>1. q \in late /\ q \in Statement /\ LateIsSound(q) /\ time \in Nat /\ time' \in Nat
  BY Constants DEF StoreIsSound, LateAreSound
<1>2. CASE q.into = "events"
  BY <1>1, <1>2, Statements DEF LateIsSound, Belongs, Batch
<1>3. CASE q.into # "events" /\ q.row.status = "completed"
  BY <1>1, <1>3, Statements DEF LateIsSound, Belongs, Batch
<1>4. CASE q.into # "events" /\ q.row.status # "completed"
  <2> DEFINE n == BatchOf[q.row.body]
  <2>1. q.row \in LedgerRow /\ n \in Batches /\ q.row.at \in Nat
    BY <1>1, <1>4, Statements, Rows, Constants
  <2>2. overdue[n] = 1 /\ q.row.at < time /\ (ledger[n] # NoRow => ledger[n].at > q.row.at)
    BY <1>1, <1>4 DEF LateIsSound
  <2>3. /\ ledger[n] # NoRow => ledger[n].at \in Nat
        /\ ledger'[n] # NoRow => ledger'[n].at \in Nat
    BY <2>1, Rows DEF StoreIsSound
  <2>4. ledger'[n] # NoRow => ledger'[n].at > q.row.at
    <3>1. Batch(q) = n
      BY <1>4 DEF Batch
    <3> QED BY <1>1, <2>1, <2>2, <2>3, <3>1
  <2> QED BY <1>1, <1>4, <2>1, <2>2, <2>4 DEF LateIsSound
<1> QED BY <1>2, <1>3, <1>4

-----------------------------------------------------------------------------
(* What the statements do                                                  *)

\* A reservation of a batch that has no row, or the row of a reservation that came late.
LEMMA ReservationApplied ==
  ASSUME StoreIsSound, NEW b \in Bodies, NEW t \in Readings, time <= t,
         Apply(Reservation(b, t)),
         late' = late, overdue' = overdue, time' \in 0..MaxTime, skew' \in 0..MaxBack, time <= time',
         ledger[BatchOf[b]] # NoRow =>
           /\ \A q \in late : Batch(q) # BatchOf[b]
           /\ ledger[BatchOf[b]].status = "reserved" /\ \A c \in events : BatchOf[c] # BatchOf[b]
           /\ ledger[BatchOf[b]].at < time
  PROVE  /\ StoreIsSound' /\ Belongs(b)' /\ ledger'[BatchOf[b]].at = t
         /\ \A c \in Bodies : Stored(c) => Stored(c)'
<1> DEFINE n == BatchOf[b]
           new == Row("reserved", b, t)
<1>1. /\ new \in LedgerRow /\ new # NoRow /\ new.status = "reserved" /\ new.body = b
      /\ new.at = t /\ t \in Nat /\ time \in Nat /\ time' \in Nat
  BY Rows, Constants DEF StoreIsSound, Readings
<1> HIDE DEF new
<1>2. /\ events' = events /\ n \in Batches
      /\ ledger' \in [Batches -> LedgerRow \cup {NoRow}]
      /\ ledger'[n] = Replace(ledger[n], new)
      /\ \A m \in Batches : m # n => ledger'[m] = ledger[m]
  <2> DEFINE q == Reservation(b, t)
  <2>1. q.into = "ledger" /\ q.row = new
    BY DEF Reservation, new
  <2> HIDE DEF q
  <2>2. Apply(q)
    BY DEF q
  <2> QED BY <1>1, <2>1, <2>2, LedgerApplied
<1>3. ledger'[n] = new
  <2>1. ledger[n] \in LedgerRow \cup {NoRow}
    BY <1>2 DEF StoreIsSound
  <2>2. ledger[n] # NoRow => ledger[n].at < time
    OBVIOUS
  <2>3. \/ ledger'[n] = new
        \/ ledger[n] # NoRow /\ ledger[n].at > new.at
    BY <1>1, <1>2, <2>1, Replaced
  <2>4. ledger[n] # NoRow => ledger[n].at \in Nat
    BY <2>1, Rows
  <2> QED BY <1>1, <2>2, <2>3, <2>4
<1>4. \A c \in events : BatchOf[c] # n
  BY <1>2 DEF StoreIsSound, EventsAreReserved
<1>5. \A c \in Bodies : BatchOf[c] # n => (Belongs(c)' <=> Belongs(c))
  BY <1>2, Constants DEF Belongs
<1>6. EventsAreReserved'
  BY <1>2, <1>4, <1>5 DEF StoreIsSound, EventsAreReserved, Belongs
<1>7. CompletedIsStored'
  BY <1>1, <1>2, <1>3 DEF StoreIsSound, CompletedIsStored
<1>8. \A m \in Batches :
        ledger'[m] # NoRow /\ ledger'[m].status = "reserved" => ledger'[m].at \in Readings
  <2>. SUFFICES ASSUME NEW m \in Batches, ledger'[m] # NoRow, ledger'[m].status = "reserved"
                PROVE  ledger'[m].at \in Readings
    OBVIOUS
  <2>1. CASE m = n
    BY <1>1, <1>3, <2>1
  <2>2. CASE m # n
    <3>1. ledger[m].at \in Readings
      BY <1>2, <2>2 DEF StoreIsSound
    <3> QED BY <1>1, <1>2, <2>2, <3>1
  <2> QED BY <2>1, <2>2
<1>9. LateAreSound'
  <2>1. \A q \in late' : \A c \in Bodies : BatchOf[c] = Batch(q) /\ Belongs(c) => Belongs(c)'
    BY <1>5 DEF Belongs
  <2>2. \A m \in Batches : ledger'[m] = ledger[m] \/ (ledger'[m] # NoRow /\ ledger'[m].at >= time)
    BY <1>1, <1>2, <1>3
  <2> QED BY <1>2, <2>1, <2>2, LateStays
<1>10. \A c \in Bodies : Stored(c) => Stored(c)'
  BY <1>2, <1>4, Constants DEF Stored, Completed, Belongs
<1> QED BY <1>1, <1>2, <1>3, <1>6, <1>7, <1>8, <1>9, <1>10 DEF StoreIsSound, Belongs

\* The events of a body, sent under its reservation, now or when nobody waits for them.
LEMMA EventsApplied ==
  ASSUME StoreIsSound, NEW b \in Bodies, Belongs(b), Apply(Events(b)),
         late' \subseteq late, overdue' = overdue, time' \in 0..MaxTime, skew' \in 0..MaxBack, time <= time'
  PROVE  /\ StoreIsSound' /\ ledger' = ledger /\ events' = events \cup {b}
         /\ \A c \in Bodies : Stored(c) => Stored(c)'
<1>1. ledger' = ledger /\ events' = events \cup {b} /\ time \in Nat /\ time' \in Nat
  BY Constants DEF Apply, Events, StoreIsSound
<1>2. EventsAreReserved' /\ CompletedIsStored'
  BY <1>1 DEF StoreIsSound, EventsAreReserved, CompletedIsStored, Belongs
<1>3. \A c \in Bodies : (Belongs(c) <=> Belongs(c)') /\ (Stored(c) => Stored(c)')
  BY <1>1 DEF Belongs, Stored, Completed
<1>4. LateAreSound'
  BY <1>1, <1>3, LateStays DEF StoreIsSound
<1>5. \A m \in Batches :
        ledger'[m] # NoRow /\ ledger'[m].status = "reserved" => ledger'[m].at \in Readings
  BY <1>1 DEF StoreIsSound
<1> QED BY <1>1, <1>2, <1>3, <1>4, <1>5 DEF StoreIsSound

\* The completion of a body whose events are there.
LEMMA CompletionApplied ==
  ASSUME StoreIsSound, NEW b \in events, Belongs(b), NEW t \in 0..(MaxTime + MaxBack + 1),
         Apply(Completion(b, t)),
         late' \subseteq late, overdue' = overdue, time' \in 0..MaxTime, skew' \in 0..MaxBack, time <= time'
  PROVE  /\ StoreIsSound' /\ events' = events
         /\ \A c \in Bodies : (Belongs(c) => Belongs(c)') /\ (Stored(c) => Stored(c)')
         /\ \A n \in Batches :
              ledger'[n] = ledger[n] \/ (n = BatchOf[b] /\ ledger'[n].status = "completed")
         /\ (ledger[BatchOf[b]].status = "completed" \/ ledger[BatchOf[b]].at <= t) => Completed(b)'
<1> DEFINE n == BatchOf[b]
           new == Row("completed", b, t)
<1>1. b \in Bodies /\ time \in Nat /\ time' \in Nat
  BY Constants DEF StoreIsSound
<1>2. /\ new \in LedgerRow /\ new # NoRow /\ new.status = "completed" /\ new.body = b
      /\ new.at = t /\ t \in Nat
  BY <1>1, Rows, Constants
<1> HIDE DEF new
<1>3. /\ events' = events /\ n \in Batches
      /\ ledger' \in [Batches -> LedgerRow \cup {NoRow}]
      /\ ledger'[n] = Replace(ledger[n], new)
      /\ \A m \in Batches : m # n => ledger'[m] = ledger[m]
  <2> DEFINE q == Completion(b, t)
  <2>1. q.into = "ledger" /\ q.row = new
    BY DEF Completion, new
  <2> HIDE DEF q
  <2>2. Apply(q)
    BY DEF q
  <2> QED BY <1>2, <2>1, <2>2, LedgerApplied
<1>4. ledger[n] \in LedgerRow /\ ledger[n] # NoRow /\ ledger[n].body = b /\ ledger[n].at \in Nat
  BY <1>3, Rows DEF StoreIsSound, Belongs
<1>5. \/ ledger'[n] = new /\ new.at >= ledger[n].at
      \/ ledger[n].at > new.at /\ ledger'[n] = ledger[n]
  BY <1>2, <1>3, <1>4, Replaced
<1>6. ledger'[n] # NoRow /\ ledger'[n].body = b
  BY <1>2, <1>4, <1>5
<1>7. \A c \in Bodies : (Belongs(c) => Belongs(c)') /\ (Stored(c) => Stored(c)')
  <2>. SUFFICES ASSUME NEW c \in Bodies
                PROVE  (Belongs(c) => Belongs(c)') /\ (Stored(c) => Stored(c)')
    OBVIOUS
  <2>1. CASE BatchOf[c] = n
    BY <1>2, <1>3, <1>4, <1>5, <1>6, <2>1 DEF Belongs, Stored, Completed
  <2>2. CASE BatchOf[c] # n
    BY <1>3, <2>2, Constants DEF Belongs, Stored, Completed
  <2> QED BY <2>1, <2>2
<1>8. EventsAreReserved'
  BY <1>3, <1>7 DEF StoreIsSound, EventsAreReserved, Belongs
<1>9. CompletedIsStored'
  BY <1>3, <1>6 DEF StoreIsSound, CompletedIsStored
<1>10. \A m \in Batches :
        ledger'[m] # NoRow /\ ledger'[m].status = "reserved" => ledger'[m].at \in Readings
  <2>. SUFFICES ASSUME NEW m \in Batches, ledger'[m] # NoRow, ledger'[m].status = "reserved"
                PROVE  ledger'[m].at \in Readings
    OBVIOUS
  <2>1. ledger'[m] = ledger[m]
    BY <1>2, <1>3, <1>5
  <2> QED BY <2>1 DEF StoreIsSound
<1>11. LateAreSound'
  <2>1. \A m \in Batches :
          \/ ledger'[m] = ledger[m]
          \/ ledger'[m] # NoRow /\ ledger[m] # NoRow /\ ledger'[m].at >= ledger[m].at
    BY <1>2, <1>3, <1>4, <1>5
  <2> QED BY <1>3, <1>7, <2>1, LateStays
<1>12. StoreIsSound'
  BY <1>3, <1>8, <1>9, <1>10, <1>11 DEF StoreIsSound
<1>13. \A m \in Batches :
         ledger'[m] = ledger[m] \/ (m = n /\ ledger'[m].status = "completed")
  BY <1>2, <1>3, <1>5
<1>14. ASSUME ledger[n].status = "completed" \/ ledger[n].at <= t
       PROVE  Completed(b)'
  <2>1. ledger'[n].status = "completed"
    BY <1>2, <1>4, <1>5, <1>14
  <2> QED BY <1>6, <2>1 DEF Completed, Belongs
<1> QED BY <1>3, <1>7, <1>12, <1>13, <1>14

LEMMA StoreWaits ==
  ASSUME StoreIsSound, UNCHANGED store, time' \in 0..MaxTime, skew' \in 0..MaxBack, time <= time'
  PROVE  StoreIsSound' /\ \A c \in Bodies : Stored(c) => Stored(c)'
<1>1. UNCHANGED <<ledger, events, late, overdue>> /\ time \in Nat /\ time' \in Nat
  BY Constants DEF StoreIsSound, store
<1>2. EventsAreReserved' /\ CompletedIsStored' /\ \A c \in Bodies : Belongs(c) <=> Belongs(c)'
  BY <1>1 DEF StoreIsSound, EventsAreReserved, CompletedIsStored, Belongs
<1>3. LateAreSound'
  BY <1>1, <1>2, LateStays DEF StoreIsSound
<1>4. \A m \in Batches :
        ledger'[m] # NoRow /\ ledger'[m].status = "reserved" => ledger'[m].at \in Readings
  BY <1>1 DEF StoreIsSound
<1> QED BY <1>1, <1>2, <1>3, <1>4 DEF StoreIsSound, Stored, Completed, Belongs

\* A reservation that nobody waits for makes a row only where there is none.
LEMMA ReservationLands ==
  ASSUME StoreIsSound, NEW q \in late, q.into # "events", q.row.status # "completed", Apply(q),
         late' = late \ {q}, overdue' = overdue, UNCHANGED clock
  PROVE  /\ StoreIsSound' /\ events' = events
         /\ \A c \in Bodies : (Belongs(c) => Belongs(c)') /\ (Stored(c) => Stored(c)')
         /\ \A n \in Batches :
              \/ ledger'[n] = ledger[n]
              \/ /\ ledger[n] = NoRow /\ ledger'[n].status = "reserved"
                 /\ overdue[n] = 1 /\ \A p \in late' : Batch(p) # n
                 /\ \A c \in events' : BatchOf[c] # n
                 /\ ledger'[n].at < time'
<1> DEFINE n == BatchOf[q.row.body]
<1>1. /\ q \in Statement /\ LateIsSound(q) /\ time \in Nat /\ IsReservation(q) /\ Batch(q) = n
      /\ q.row \in LedgerRow /\ q.row.status = "reserved" /\ q.row # NoRow
      /\ q.into = "ledger"
  BY Statements, Rows, Constants DEF StoreIsSound, LateAreSound, IsReservation, Batch
<1>2. PICK new \in LedgerRow : new = q.row
  BY <1>1
<1>3. /\ events' = events /\ n \in Batches
      /\ ledger' \in [Batches -> LedgerRow \cup {NoRow}]
      /\ ledger'[n] = Replace(ledger[n], new)
      /\ \A m \in Batches : m # n => ledger'[m] = ledger[m]
  BY <1>1, <1>2, LedgerApplied
<1>4. overdue[n] = 1 /\ new.at < time /\ new.at \in Nat /\ (ledger[n] # NoRow => ledger[n].at > new.at)
  BY <1>1, <1>2, Rows DEF LateIsSound
<1>c. time' = time /\ time' \in 0..MaxTime /\ skew' \in 0..MaxBack /\ time <= time' /\ skew' = skew
  BY <1>1 DEF clock, StoreIsSound
<1>5. CASE ledger[n] # NoRow
  <2>1. ledger' = ledger
    <3>1. ledger[n] \in LedgerRow
      BY <1>3, <1>5 DEF StoreIsSound
    <3>2. ledger'[n] = ledger[n]
      BY <1>3, <1>4, <1>5 DEF Replace
    <3> QED BY <1>3, <3>2 DEF StoreIsSound
  <2>2. \A c \in Bodies : (Belongs(c) <=> Belongs(c)') /\ (Stored(c) => Stored(c)')
    BY <1>3, <2>1 DEF Belongs, Stored, Completed
  <2>3. EventsAreReserved' /\ CompletedIsStored'
    BY <1>3, <2>1 DEF StoreIsSound, EventsAreReserved, CompletedIsStored
  <2>4. LateAreSound'
    <3>1. late' \subseteq late /\ events \subseteq events'
      BY <1>3
    <3> QED BY <1>3, <1>c, <2>1, <2>2, <3>1, LateStays
  <2>5. late' \in SUBSET Statement
    BY DEF StoreIsSound
  <2> QED BY <1>3, <1>c, <2>1, <2>2, <2>3, <2>4, <2>5 DEF StoreIsSound
<1>6. CASE ledger[n] = NoRow
  <2>1. ledger'[n] = new
    BY <1>2, <1>3, <1>6 DEF Replace
  <2>2. \A c \in events : BatchOf[c] # n
    BY <1>6 DEF StoreIsSound, EventsAreReserved
  <2>3. ASSUME NEW p \in late'
        PROVE  Batch(p) # n
    <3>1. /\ p \in Statement /\ p # q /\ LateIsSound(p)
          /\ IsReservation(p) => Batch(p) # Batch(q)
      BY <1>1 DEF StoreIsSound, LateAreSound
    <3>2. CASE IsReservation(p)
      BY <1>1, <3>1, <3>2
    <3>3. CASE ~IsReservation(p)
      <4>1. p.into = "events" => ledger[BatchOf[p.body]] # NoRow
        BY <3>1 DEF LateIsSound, Belongs
      <4>2. p.into # "events" => p.row.status = "completed" /\ ledger[BatchOf[p.row.body]] # NoRow
        BY <3>1, <3>3, Statements, Rows DEF LateIsSound, Belongs, IsReservation
      <4> QED BY <1>6, <4>1, <4>2 DEF Batch
    <3> QED BY <3>2, <3>3
  <2>4. \A c \in Bodies : (Belongs(c) => Belongs(c)') /\ (Stored(c) => Stored(c)')
    BY <1>3, <1>6, Constants DEF Belongs, Stored, Completed
  <2>5. EventsAreReserved'
    BY <1>3, <2>4 DEF StoreIsSound, EventsAreReserved, Belongs
  <2>6. CompletedIsStored'
    BY <1>1, <1>2, <1>3, <2>1 DEF StoreIsSound, CompletedIsStored
  <2>7. new.at \in Readings
    BY <1>4, <1>c, Constants DEF Readings
  <2>10. \A m \in Batches :
           ledger'[m] # NoRow /\ ledger'[m].status = "reserved" => ledger'[m].at \in Readings
    BY <1>3, <2>1, <2>7 DEF StoreIsSound
  <2>8. LateAreSound'
    <3>1. late' \subseteq late /\ events \subseteq events'
      BY <1>3
    <3> QED BY <1>3, <1>c, <2>3, <2>4, <3>1, LateStays
  <2>9. StoreIsSound'
    BY <1>1, <1>3, <1>c, <2>5, <2>6, <2>8, <2>10 DEF StoreIsSound
  <2> QED BY <1>1, <1>2, <1>3, <1>4, <1>6, <1>c, <2>1, <2>2, <2>3, <2>4, <2>9
<1> QED BY <1>5, <1>6

-----------------------------------------------------------------------------
(* The handlers                                                            *)

LEMMA Times ==
  ASSUME IInv
  PROVE  /\ time \in 0..MaxTime /\ skew \in 0..MaxBack /\ time \in Nat
         /\ Now \in Readings /\ Now \in Nat /\ time <= Now /\ Now <= time + MaxBack
         /\ \A h \in Handlers : at[h] \in Readings /\ at[h] \in Nat
BY Constants DEF IInv, StoreIsSound, Now, Readings

\* Only one handler is past the mutex.
LEMMA OthersWait ==
  ASSUME IInv, NEW h \in Handlers, mu = h, NEW u \in Handlers \ {h}
  PROVE  pc[u] \in {"idle", "lock"}
BY DEF IInv, HandlerIsSound

\* The holder of the mutex answers.
LEMMA Answered ==
  ASSUME IInv, NEW h \in Handlers, mu = h, Answer(h), StoreIsSound',
         outage' \in BOOLEAN, acked' \in SUBSET Bodies, \A b \in acked' : Stored(b)'
  PROVE  IInv'
<1>1. /\ pc' = [pc EXCEPT ![h] = "idle"] /\ arg' = [arg EXCEPT ![h] = NoBody]
      /\ at' = [at EXCEPT ![h] = 0] /\ mu' = Nobody
  BY DEF Answer
<1>2. /\ pc' \in [Handlers -> Steps] /\ arg' \in [Handlers -> Bodies \cup {NoBody}]
      /\ at' \in [Handlers -> Readings]
  BY <1>1, Constants DEF IInv, Steps, Readings
<1>3. ASSUME NEW u \in Handlers
      PROVE  HandlerIsSound(u)'
  <2>1. CASE u = h
    BY <1>1, <2>1 DEF IInv, HandlerIsSound
  <2>2. CASE u # h
    <3>1. pc'[u] = pc[u] /\ arg'[u] = arg[u] /\ at'[u] = at[u] /\ pc[u] \in {"idle", "lock"}
      BY <1>1, <2>2, OthersWait DEF IInv
    <3>2. (pc[u] # "idle" => arg[u] \in Bodies) /\ at[u] \in Readings
      BY Times DEF IInv, HandlerIsSound
    <3> QED BY <1>1, <3>1, <3>2 DEF HandlerIsSound
  <2> QED BY <2>1, <2>2
<1> QED BY <1>1, <1>2, <1>3 DEF IInv

\* It goes on, with what it has found out.
LEMMA WentOn ==
  ASSUME IInv, NEW h \in Handlers, mu = h, pc[h] # "idle",
         NEW step \in {"reserve", "insert", "complete"}, NEW t \in Readings, Goto(h, step, t),
         StoreIsSound', \A c \in Bodies : Stored(c) => Stored(c)',
         UNCHANGED outage,
         step = "reserve" /\ ledger'[BatchOf[arg[h]]] # NoRow =>
           /\ overdue'[BatchOf[arg[h]]] = 1 /\ \A q \in late' : Batch(q) # BatchOf[arg[h]]
           /\ ledger'[BatchOf[arg[h]]].status = "reserved"
           /\ \A c \in events' : BatchOf[c] # BatchOf[arg[h]]
           /\ ledger'[BatchOf[arg[h]]].at < time',
         step # "reserve" =>
           /\ ledger'[BatchOf[arg[h]]] # NoRow /\ ledger'[BatchOf[arg[h]]].body = arg[h]
           /\ \/ ledger'[BatchOf[arg[h]]].status = "completed"
              \/ ledger'[BatchOf[arg[h]]].at = t,
         step = "complete" => arg[h] \in events'
  PROVE  IInv'
<1>1. /\ pc' = [pc EXCEPT ![h] = step] /\ at' = [at EXCEPT ![h] = t]
      /\ UNCHANGED <<mu, arg, acked>> /\ arg[h] \in Bodies
  BY DEF Goto, IInv, HandlerIsSound
<1>2. pc' \in [Handlers -> Steps] /\ at' \in [Handlers -> Readings]
  BY <1>1 DEF IInv, Steps
<1>3. HandlerIsSound(h)'
  <2>1. pc'[h] = step /\ at'[h] = t /\ arg'[h] = arg[h] /\ mu' = h
    BY <1>1 DEF IInv
  <2> QED BY <1>1, <2>1 DEF HandlerIsSound, Belongs
<1>4. ASSUME NEW u \in Handlers \ {h}
      PROVE  HandlerIsSound(u)'
  <2>1. pc'[u] = pc[u] /\ arg'[u] = arg[u] /\ at'[u] = at[u] /\ pc[u] \in {"idle", "lock"}
    BY <1>1, OthersWait DEF IInv
  <2>2. pc[u] # "idle" => arg[u] \in Bodies
    BY DEF IInv, HandlerIsSound
  <2> QED BY <2>1, <2>2 DEF HandlerIsSound
<1> QED BY <1>1, <1>2, <1>3, <1>4 DEF IInv

\* It gives up on an INSERT, which is applied all the same, or late, or never.
LEMMA GaveUp ==
  ASSUME OneLate, WaitsOutlastClock, IInv, NEW h \in Handlers, mu = h, NEW q \in Statement,
         Pass(MinWait), Answer(h), UNCHANGED <<outage, acked>>,
         \/ Apply(q) /\ UNCHANGED <<late, overdue>>
         \/ Outlive(q)
         \/ UNCHANGED store,
         Apply(q) /\ UNCHANGED <<late, overdue>> =>
           StoreIsSound' /\ \A c \in Bodies : Stored(c) => Stored(c)',
         Outlive(q) => LateIsSound(q)'
  PROVE  IInv'
<1>1. time \in Nat /\ time' \in 0..MaxTime /\ skew' \in 0..MaxBack /\ time <= time'
  BY Times, Constants DEF Pass
<1>2. CASE UNCHANGED store
  BY <1>1, <1>2, StoreWaits, Answered DEF IInv
<1>3. CASE Apply(q) /\ UNCHANGED <<late, overdue>>
  BY <1>1, <1>3, Answered DEF IInv
<1>4. CASE Outlive(q)
  <2> DEFINE n == Batch(q)
  <2>1. /\ late' = late \cup {q} /\ UNCHANGED <<ledger, events>> /\ n \in Batches
        /\ overdue \in [Batches -> 0..MaxLate] /\ LateAreSound
    BY <1>4, Statements DEF Outlive, IInv, StoreIsSound
  <2>2. /\ overdue' \in [Batches -> 0..MaxLate]
        /\ \A m \in Batches : m # n => overdue'[m] = overdue[m]
        /\ IsReservation(q) => overdue[n] = 0
        /\ ~IsReservation(q) => overdue' = overdue
    BY <1>4, <2>1, Constants DEF Outlive, OneLate
  <2>3. ASSUME NEW p \in late
        PROVE  /\ IsReservation(p) /\ IsReservation(q) => Batch(p) # n
               /\ LateIsSound(p)'
    <3>1. p \in Statement /\ LateIsSound(p) /\ Batch(p) \in Batches
      BY <2>1, Statements DEF IInv, StoreIsSound, LateAreSound
    <3>2. IsReservation(p) => overdue[Batch(p)] = 1
      BY <3>1 DEF LateIsSound, IsReservation, Batch
    <3>3. IsReservation(p) => overdue'[Batch(p)] = 1
      BY <2>2, <3>1, <3>2
    <3>4. CASE IsReservation(p)
      <4>1. p.row \in LedgerRow /\ p.row.at \in Nat
        BY <3>1, <3>4, Statements, Rows DEF IsReservation
      <4>2. /\ p.row.at < time'
            /\ ledger[Batch(p)] # NoRow => ledger[Batch(p)].at > p.row.at
        BY <1>1, <3>1, <3>4, <4>1 DEF LateIsSound, IsReservation, Batch
      <4> QED BY <2>1, <2>2, <3>2, <3>3, <3>4, <4>2 DEF LateIsSound, IsReservation, Batch
    <3>5. CASE ~IsReservation(p)
      <4>1. p.into = "events" \/ p.row.status = "completed"
        BY <3>1, <3>5, Statements, Rows DEF IsReservation
      <4> QED BY <2>1, <3>1, <3>5, <4>1 DEF LateIsSound, Belongs
    <3> QED BY <2>2, <3>2, <3>4, <3>5
  <2>4. LateAreSound'
    <3>1. \A p \in late' : LateIsSound(p)'
      BY <1>4, <2>1, <2>3
    <3>2. \A p, r \in late' :
            IsReservation(p) /\ IsReservation(r) /\ Batch(p) = Batch(r) => p = r
      BY <2>1, <2>3 DEF LateAreSound
    <3> QED BY <3>1, <3>2 DEF LateAreSound, IsReservation, Batch
  <2>5. EventsAreReserved' /\ CompletedIsStored'
        /\ \A c \in Bodies : Stored(c) => Stored(c)'
    BY <2>1 DEF IInv, StoreIsSound, EventsAreReserved, CompletedIsStored, Stored, Completed, Belongs
  <2>6. \A m \in Batches :
          ledger'[m] # NoRow /\ ledger'[m].status = "reserved" => ledger'[m].at \in Readings
    BY <2>1 DEF IInv, StoreIsSound
  <2>7. StoreIsSound'
    BY <1>1, <2>1, <2>2, <2>4, <2>5, <2>6 DEF IInv, StoreIsSound
  <2> QED BY <1>1, <2>5, <2>7, Answered DEF IInv
<1> QED BY <1>2, <1>3, <1>4

LEMMA BeginKeepsIInv ==
  ASSUME IInv, NEW h \in Handlers, NEW b \in Bodies, Begin(h, b)
  PROVE  IInv'
<1>1. /\ pc' = [pc EXCEPT ![h] = "lock"] /\ arg' = [arg EXCEPT ![h] = b]
      /\ UNCHANGED <<store, clock, mu, at, outage, acked>>
      /\ UNCHANGED time /\ UNCHANGED skew
  BY DEF Begin, clock
<1>2. StoreIsSound' /\ \A c \in Bodies : Stored(c) => Stored(c)'
  BY <1>1, StoreWaits DEF IInv, StoreIsSound
<1>3. pc' \in [Handlers -> Steps] /\ arg' \in [Handlers -> Bodies \cup {NoBody}]
  BY <1>1 DEF IInv, Steps
<1>4. HandlerIsSound(h)'
  BY <1>1 DEF IInv, HandlerIsSound
<1>5. ASSUME NEW u \in Handlers \ {h}
      PROVE  HandlerIsSound(u)'
  <2>1. pc'[u] = pc[u] /\ arg'[u] = arg[u] /\ HandlerIsSound(u)
    BY <1>1 DEF IInv
  <2> QED BY <1>1, <2>1 DEF HandlerIsSound, Belongs, store
<1> QED BY <1>1, <1>2, <1>3, <1>4, <1>5 DEF IInv

LEMMA LockKeepsIInv ==
  ASSUME IInv, NEW h \in Handlers, Lock(h)
  PROVE  IInv'
<1>1. /\ pc[h] = "lock" /\ mu = Nobody /\ mu' = h /\ pc' = [pc EXCEPT ![h] = "read"]
      /\ UNCHANGED <<store, clock, arg, at, outage, acked>>
      /\ UNCHANGED time /\ UNCHANGED skew
  BY DEF Lock, clock
<1>2. StoreIsSound' /\ \A c \in Bodies : Stored(c) => Stored(c)'
  BY <1>1, StoreWaits DEF IInv, StoreIsSound
<1>3. pc' \in [Handlers -> Steps]
  BY <1>1 DEF IInv, Steps
<1>4. HandlerIsSound(h)'
  BY <1>1 DEF IInv, HandlerIsSound
<1>5. ASSUME NEW u \in Handlers \ {h}
      PROVE  HandlerIsSound(u)'
  <2>1. pc'[u] = pc[u] /\ HandlerIsSound(u) /\ mu # u
    BY <1>1, Constants DEF IInv
  <2> QED BY <1>1, <2>1 DEF HandlerIsSound
<1> QED BY <1>1, <1>2, <1>3, <1>4, <1>5 DEF IInv

LEMMA ReadLedgerKeepsIInv ==
  ASSUME IInv, NEW h \in Handlers, ReadLedger(h)
  PROVE  IInv'
<1> DEFINE b == arg[h]
           row == ledger[BatchOf[b]]
<1>1. /\ pc[h] = "read" /\ mu = h /\ b \in Bodies /\ BatchOf[b] \in Batches 
      /\ UNCHANGED <<store, outage>> /\ UNCHANGED time /\ UNCHANGED skew
  BY Times, Constants DEF ReadLedger, IInv, HandlerIsSound, clock
<1>2. StoreIsSound' /\ \A c \in Bodies : Stored(c) => Stored(c)'
  BY <1>1, StoreWaits DEF IInv, StoreIsSound
<1>3. UNCHANGED <<ledger, events, late, overdue>>
  BY <1>1 DEF store
<1>4. CASE Answer(h) /\ UNCHANGED acked
  BY <1>1, <1>2, <1>4, Answered DEF IInv
<1>5. CASE /\ row # NoRow /\ row.body = b /\ row.status = "completed"
           /\ Answer(h) /\ acked' = acked \cup {b}
  <2>1. Stored(b)
    BY <1>1, <1>5 DEF IInv, StoreIsSound, CompletedIsStored, Stored, Completed, Belongs
  <2>2. \A c \in acked' : Stored(c)'
    BY <1>1, <1>2, <1>5, <2>1 DEF IInv
  <2>3. acked' \in SUBSET Bodies
    BY <1>1, <1>5 DEF IInv
  <2> QED BY <1>1, <1>2, <1>5, <2>2, <2>3, Answered DEF IInv
<1>6. CASE row = NoRow /\ Goto(h, "reserve", 0)
  <2>1. 0 \in Readings
    BY Constants DEF Readings
  <2> QED BY <1>1, <1>2, <1>3, <1>6, <2>1, WentOn
<1>7. CASE /\ row # NoRow /\ row.body = b /\ row.status = "reserved"
           /\ Goto(h, "insert", row.at)
  <2>1. row.at \in Readings
    BY <1>1, <1>7 DEF IInv, StoreIsSound
  <2> QED BY <1>1, <1>2, <1>3, <1>7, <2>1, WentOn
<1> QED BY <1>4, <1>5, <1>6, <1>7 DEF ReadLedger

\* The statements are statements.
LEMMA StatementsOf ==
  ASSUME NEW b \in Bodies, NEW t \in 0..(MaxTime + MaxBack + 1)
  PROVE  /\ Reservation(b, t) \in Statement /\ Completion(b, t) \in Statement
         /\ Events(b) \in Statement
BY Rows DEF Reservation, Completion, Events, Statement

LEMMA ReserveKeepsIInv ==
  ASSUME OneLate, WaitsOutlastClock, IInv, NEW h \in Handlers, Reserve(h)
  PROVE  IInv'
<1>1. PICK b \in Bodies : b = arg[h]
  BY DEF IInv, HandlerIsSound, Reserve
<1> DEFINE n == BatchOf[b]
<1>2. /\ pc[h] = "reserve" /\ mu = h /\ n \in Batches /\ StoreIsSound
      /\ ledger[n] # NoRow =>
           /\ overdue[n] = 1 /\ \A p \in late : Batch(p) # n
           /\ ledger[n].status = "reserved" /\ \A c \in events : BatchOf[c] # n
           /\ ledger[n].at < time
  BY <1>1, Times, Constants DEF IInv, HandlerIsSound, Reserve, StoreIsSound
<1>3. PICK t \in Readings : t = Now /\ time <= t /\ t <= time + MaxBack /\ t \in 0..(MaxTime + MaxBack + 1)
  BY Times, Constants DEF Readings
<1>t. PICK q \in Statement : q = Reservation(b, t)
  BY <1>3, StatementsOf
<1>4. ASSUME Apply(q), UNCHANGED <<late, overdue>>, time' \in 0..MaxTime, skew' \in 0..MaxBack, time <= time'
      PROVE  /\ StoreIsSound' /\ Belongs(b)' /\ ledger'[n].at = t
             /\ \A c \in Bodies : Stored(c) => Stored(c)'
  BY <1>2, <1>3, <1>t, <1>4, ReservationApplied
<1>5. ASSUME Outlive(q), Pass(MinWait)
      PROVE  LateIsSound(q)'
  <2>1. q.into = "ledger" /\ q.row.status = "reserved" /\ q.row.body = b /\ q.row.at = t
    BY <1>3, <1>t, Rows DEF Reservation
  <2>2. /\ overdue[n] < MaxLate /\ overdue' = [overdue EXCEPT ![n] = @ + 1]
        /\ UNCHANGED <<ledger, events>> /\ overdue \in [Batches -> 0..MaxLate]
    BY <1>2, <1>5, <2>1 DEF Outlive, IsReservation, Batch, StoreIsSound
  <2>3. overdue[n] = 0 /\ overdue'[n] = 1
    BY <1>2, <2>2, Constants DEF OneLate
  <2>4. t < time'
    BY <1>3, <1>5, Times, Constants DEF Pass, WaitsOutlastClock, Readings
  <2>5. ledger'[n] # NoRow => ledger'[n].at > t
    BY <1>2, <2>2, <2>3
  <2> QED BY <2>1, <2>3, <2>4, <2>5 DEF LateIsSound
<1>6. CASE Apply(q) /\ Goto(h, "insert", t) /\ UNCHANGED <<late, overdue, clock, outage>>
  <2>1. /\ StoreIsSound' /\ Belongs(b)' /\ ledger'[n].at = t
        /\ \A c \in Bodies : Stored(c) => Stored(c)'
    BY <1>4, <1>6, Times DEF clock
  <2> QED BY <1>1, <1>2, <1>3, <1>6, <2>1, WentOn DEF Belongs
<1>7. CASE /\ Pass(MinWait) /\ Answer(h) /\ UNCHANGED <<outage, acked>>
           /\ \/ Apply(q) /\ UNCHANGED <<late, overdue>>
              \/ Outlive(q)
              \/ UNCHANGED store
  <2>1. time' \in 0..MaxTime /\ skew' \in 0..MaxBack /\ time <= time'
    BY <1>7, Times, Constants DEF Pass
  <2>2. Apply(q) /\ UNCHANGED <<late, overdue>> =>
          StoreIsSound' /\ \A c \in Bodies : Stored(c) => Stored(c)'
    BY <1>4, <2>1
  <2>3. Outlive(q) => LateIsSound(q)'
    BY <1>5, <1>7
  <2> QED BY <1>2, <1>7, <2>2, <2>3, GaveUp
<1> QED BY <1>1, <1>3, <1>t, <1>6, <1>7 DEF Reserve, Execute

LEMMA InsertEventsKeepsIInv ==
  ASSUME OneLate, WaitsOutlastClock, IInv, NEW h \in Handlers, InsertEvents(h)
  PROVE  IInv'
<1>1. PICK b \in Bodies : b = arg[h]
  BY DEF IInv, HandlerIsSound, InsertEvents
<1> DEFINE n == BatchOf[b]
<1>2. /\ pc[h] = "insert" /\ mu = h /\ StoreIsSound
      /\ Belongs(b) /\ (ledger[n].status = "completed" \/ ledger[n].at = at[h])
      /\ at[h] \in Readings
  BY <1>1, Times, Constants DEF IInv, HandlerIsSound, InsertEvents, StoreIsSound
<1>3. PICK q \in Statement : q = Events(b)
  BY <1>2, StatementsOf, Constants
<1>4. ASSUME Apply(q), UNCHANGED <<late, overdue>>, time' \in 0..MaxTime, skew' \in 0..MaxBack, time <= time'
      PROVE  /\ StoreIsSound' /\ ledger' = ledger /\ events' = events \cup {b}
             /\ \A c \in Bodies : Stored(c) => Stored(c)'
  BY <1>2, <1>3, <1>4, EventsApplied
<1>5. ASSUME UNCHANGED <<ledger, events>>
      PROVE  LateIsSound(q)'
  <2>1. q.into = "events" /\ q.body = b
    BY <1>3 DEF Events
  <2> QED BY <1>2, <1>5, <2>1 DEF LateIsSound, Belongs
<1>6. CASE Apply(q) /\ Goto(h, "complete", at[h]) /\ UNCHANGED <<late, overdue, clock, outage>>
  <2>1. /\ StoreIsSound' /\ ledger' = ledger /\ events' = events \cup {b}
        /\ \A c \in Bodies : Stored(c) => Stored(c)'
    BY <1>4, <1>6, Times DEF clock
  <2> QED BY <1>1, <1>2, <1>6, <2>1, WentOn DEF Belongs
<1>7. CASE /\ Pass(MinWait) /\ Answer(h) /\ UNCHANGED <<outage, acked>>
           /\ \/ Apply(q) /\ UNCHANGED <<late, overdue>>
              \/ Outlive(q)
              \/ UNCHANGED store
  <2>1. time' \in 0..MaxTime /\ skew' \in 0..MaxBack /\ time <= time'
    BY <1>7, Times, Constants DEF Pass
  <2>2. Apply(q) /\ UNCHANGED <<late, overdue>> =>
          StoreIsSound' /\ \A c \in Bodies : Stored(c) => Stored(c)'
    BY <1>4, <2>1
  <2> QED BY <1>2, <1>5, <1>7, <2>2, GaveUp DEF Outlive
<1> QED BY <1>1, <1>3, <1>6, <1>7 DEF InsertEvents, Execute

LEMMA CompleteKeepsIInv ==
  ASSUME OneLate, WaitsOutlastClock, IInv, NEW h \in Handlers, Complete(h)
  PROVE  IInv'
<1>1. PICK b \in Bodies : b = arg[h]
  BY DEF IInv, HandlerIsSound, Complete
<1> DEFINE n == BatchOf[b]
<1>2. /\ pc[h] = "complete" /\ mu = h /\ StoreIsSound
      /\ b \in events /\ Belongs(b) /\ (ledger[n].status = "completed" \/ ledger[n].at = at[h])
      /\ at[h] \in Readings /\ at[h] \in Nat
  BY <1>1, Times, Constants DEF IInv, HandlerIsSound, Complete, StoreIsSound
<1>3. PICK t \in 0..(MaxTime + MaxBack + 1) : t = CompletedAt(h) /\ at[h] <= t
  BY <1>2, Times, Constants DEF CompletedAt, Readings
<1>4. PICK q \in Statement : q = Completion(b, t)
  BY StatementsOf
<1>5. ASSUME Apply(q), UNCHANGED <<late, overdue>>, time' \in 0..MaxTime, skew' \in 0..MaxBack, time <= time'
      PROVE  /\ StoreIsSound' /\ events' = events /\ Completed(b)'
             /\ \A c \in Bodies : Stored(c) => Stored(c)'
  <2>1. ledger[n].status = "completed" \/ ledger[n].at <= t
    BY <1>2, <1>3
  <2> QED BY <1>2, <1>4, <1>5, <2>1, CompletionApplied
<1>6. ASSUME UNCHANGED <<ledger, events>>
      PROVE  LateIsSound(q)'
  <2>1. q.into = "ledger" /\ q.row.status = "completed" /\ q.row.body = b
    BY <1>4, Rows DEF Completion
  <2> QED BY <1>2, <1>6, <2>1 DEF LateIsSound, Belongs
<1>7. CASE /\ Apply(q) /\ Answer(h) /\ acked' = acked \cup {b}
           /\ UNCHANGED <<late, overdue, clock, outage>>
  <2>1. /\ StoreIsSound' /\ events' = events /\ Completed(b)'
        /\ \A c \in Bodies : Stored(c) => Stored(c)'
    BY <1>5, <1>7, Times DEF clock
  <2>2. Stored(b)'
    BY <1>2, <2>1 DEF Stored
  <2>3. \A c \in acked' : Stored(c)'
    BY <1>7, <2>1, <2>2 DEF IInv
  <2>4. acked' \in SUBSET Bodies
    BY <1>7 DEF IInv
  <2> QED BY <1>2, <1>7, <2>1, <2>3, <2>4, Answered DEF IInv
<1>8. CASE /\ Pass(MinWait) /\ Answer(h) /\ UNCHANGED <<outage, acked>>
           /\ \/ Apply(q) /\ UNCHANGED <<late, overdue>>
              \/ Outlive(q)
              \/ UNCHANGED store
  <2>1. time' \in 0..MaxTime /\ skew' \in 0..MaxBack /\ time <= time'
    BY <1>8, Times, Constants DEF Pass
  <2>2. Apply(q) /\ UNCHANGED <<late, overdue>> =>
          StoreIsSound' /\ \A c \in Bodies : Stored(c) => Stored(c)'
    BY <1>5, <2>1
  <2> QED BY <1>2, <1>6, <1>8, <2>2, GaveUp DEF Outlive
<1> QED BY <1>1, <1>3, <1>4, <1>7, <1>8 DEF Complete, Execute

-----------------------------------------------------------------------------
(* ClickHouse and the clock                                                *)

\* A step beside the handlers: what they have found out still is so.
LEMMA Beside ==
  ASSUME IInv, UNCHANGED <<mu, pc, arg, at, acked>>, outage' \in BOOLEAN,
         StoreIsSound', \A c \in Bodies : Stored(c) => Stored(c)', time <= time',
         overdue' = overdue, late' \subseteq late, events \subseteq events',
         \A c \in Bodies : Belongs(c) => Belongs(c)',
         \A n \in Batches : (\A q \in late : Batch(q) # n) =>
           ledger'[n] = ledger[n] /\ \A c \in events' : BatchOf[c] = n => c \in events,
         \A n \in Batches :
           \/ ledger'[n] = ledger[n]
           \/ ledger[n] # NoRow /\ ledger'[n].status = "completed"
           \/ /\ ledger[n] = NoRow /\ ledger'[n].status = "reserved"
              /\ overdue[n] = 1 /\ \A q \in late' : Batch(q) # n
              /\ \A c \in events' : BatchOf[c] # n
              /\ ledger'[n].at < time'
  PROVE  IInv'
<1>1. ASSUME NEW h \in Handlers
      PROVE  HandlerIsSound(h)'
  <2> DEFINE n == BatchOf[arg[h]]
  <2>1. HandlerIsSound(h) /\ time \in Nat /\ time' \in Nat
    BY Times, Constants DEF IInv, StoreIsSound
  <2>2. at'[h] = at[h] /\ pc'[h] = pc[h] /\ arg'[h] = arg[h] /\ mu' = mu
    OBVIOUS
  <2>3. pc[h] # "idle" => arg[h] \in Bodies /\ n \in Batches
    BY <2>1, Constants DEF HandlerIsSound
  <2>4. ASSUME pc[h] = "reserve", ledger'[n] # NoRow
        PROVE  /\ overdue'[n] = 1 /\ \A q \in late' : Batch(q) # n
               /\ ledger'[n].status = "reserved" /\ \A c \in events' : BatchOf[c] # n
               /\ ledger'[n].at < time'
    <3>1. CASE ledger[n] = NoRow
      BY <2>3, <2>4, <3>1
    <3>2. CASE ledger[n] # NoRow
      <4>1. /\ overdue[n] = 1 /\ \A q \in late : Batch(q) # n
            /\ ledger[n].status = "reserved" /\ \A c \in events : BatchOf[c] # n
            /\ ledger[n].at < time
        BY <2>1, <2>4, <3>2 DEF HandlerIsSound
      <4>2. n \in Batches /\ overdue' = overdue /\ late' \subseteq late
        BY <2>3, <2>4
      <4>3. ledger'[n] = ledger[n] /\ \A c \in events' : BatchOf[c] = n => c \in events
        BY <4>1, <4>2
      <4>4. \A c \in events' : BatchOf[c] # n
        BY <4>1, <4>3
      <4>5. ledger[n] \in LedgerRow
        BY <3>2, <4>2 DEF IInv, StoreIsSound
      <4>6. ledger'[n].at < time'
        BY <2>1, <4>1, <4>3, <4>5, Rows
      <4>7. overdue'[n] = 1 /\ \A q \in late' : Batch(q) # n
        BY <4>1, <4>2
      <4> QED BY <4>1, <4>3, <4>4, <4>6, <4>7
    <3> QED BY <3>1, <3>2
  <2>5. ASSUME pc[h] \in {"insert", "complete"}
        PROVE  /\ Belongs(arg[h]) /\ ledger'[n] # NoRow /\ ledger'[n].body = arg[h]
               /\ ledger'[n].status = "completed" \/ ledger'[n].at = at[h]
               /\ pc[h] = "complete" => arg[h] \in events'
    <3>1. /\ Belongs(arg[h]) /\ (ledger[n].status = "completed" \/ ledger[n].at = at[h])
          /\ pc[h] = "complete" => arg[h] \in events
      BY <2>1, <2>5 DEF HandlerIsSound
    <3>2. PICK b \in Bodies : b = arg[h]
      BY <2>3, <2>5
    <3>3. Belongs(b)'
      BY <3>1, <3>2
    <3> QED BY <2>3, <2>5, <3>1, <3>2, <3>3 DEF Belongs
  <2> QED BY <2>1, <2>2, <2>3, <2>4, <2>5 DEF HandlerIsSound, Belongs
<1> QED BY <1>1 DEF IInv

LEMMA LandKeepsIInv ==
  ASSUME IInv, NEW q \in late, Land(q)
  PROVE  IInv'
<1>1. /\ late' = late \ {q} /\ q \in Statement /\ LateIsSound(q)
      /\ UNCHANGED <<overdue, time, skew, mu, pc, arg, at, outage, acked>>
      /\ Apply(q) \/ UNCHANGED <<ledger, events>>
  BY DEF Land, IInv, StoreIsSound, LateAreSound, locals, clock
<1>2. time' \in 0..MaxTime /\ skew' \in 0..MaxBack /\ time <= time' /\ StoreIsSound /\ outage' \in BOOLEAN
  BY <1>1 DEF IInv, StoreIsSound
<1>3. CASE UNCHANGED <<ledger, events>>
  <2>1. \A c \in Bodies : (Belongs(c) <=> Belongs(c)') /\ (Stored(c) <=> Stored(c)')
    BY <1>3 DEF Belongs, Stored, Completed
  <2>2. LateAreSound' /\ late' \in SUBSET Statement
    BY <1>1, <1>2, <1>3, <2>1, LateStays DEF StoreIsSound
  <2>3. StoreIsSound'
    BY <1>1, <1>2, <1>3, <2>2 DEF StoreIsSound, EventsAreReserved, CompletedIsStored
  <2> QED BY <1>1, <1>2, <1>3, <2>1, <2>3, Beside
<1>4. CASE Apply(q) /\ q.into = "events"
  <2>1. PICK b \in Bodies : b = q.body
    BY <1>1, <1>4, Statements
  <2>2. Belongs(b) /\ Apply(Events(b)) /\ Batch(q) = BatchOf[b]
    BY <1>1, <1>4, <2>1 DEF LateIsSound, Apply, Events, Batch
  <2>3. /\ StoreIsSound' /\ ledger' = ledger /\ events' = events \cup {b}
        /\ \A c \in Bodies : Stored(c) => Stored(c)'
    BY <1>1, <1>2, <2>2, EventsApplied
  <2>4. \A c \in Bodies : Belongs(c) => Belongs(c)'
    BY <2>3 DEF Belongs
  <2> QED BY <1>1, <1>2, <2>2, <2>3, <2>4, Beside
<1>5. CASE Apply(q) /\ q.into # "events" /\ q.row.status = "completed"
  <2>1. q.row \in LedgerRow /\ q.into = "ledger"
    BY <1>1, <1>5, Statements
  <2>2. PICK b \in Bodies, t \in 0..(MaxTime + MaxBack + 1) : b = q.row.body /\ t = q.row.at
    BY <2>1 DEF LedgerRow
  <2>3. b \in events /\ Belongs(b) /\ Batch(q) = BatchOf[b]
    BY <1>1, <1>5, <2>2 DEF LateIsSound, Batch
  <2>4. q.row = Row("completed", b, t)
    BY <1>5, <2>1, <2>2 DEF LedgerRow, Row
  <2>5. Apply(Completion(b, t))
    BY <1>5, <2>1, <2>4 DEF Apply, Completion
  <2>6. /\ StoreIsSound' /\ events' = events
        /\ \A c \in Bodies : (Belongs(c) => Belongs(c)') /\ (Stored(c) => Stored(c)')
        /\ \A n \in Batches :
             ledger'[n] = ledger[n] \/ (n = BatchOf[b] /\ ledger'[n].status = "completed")
    BY <1>1, <1>2, <2>3, <2>5, CompletionApplied
  <2> QED BY <1>1, <1>2, <2>3, <2>6, Beside DEF Belongs
<1>6. CASE Apply(q) /\ q.into # "events" /\ q.row.status # "completed"
  <2>1. /\ StoreIsSound' /\ events' = events
        /\ \A c \in Bodies : (Belongs(c) => Belongs(c)') /\ (Stored(c) => Stored(c)')
        /\ \A n \in Batches :
             \/ ledger'[n] = ledger[n]
             \/ /\ ledger[n] = NoRow /\ ledger'[n].status = "reserved"
                /\ overdue[n] = 1 /\ \A p \in late' : Batch(p) # n
                /\ \A c \in events' : BatchOf[c] # n
                /\ ledger'[n].at < time'
    BY <1>1, <1>2, <1>6, ReservationLands DEF clock
  <2>2. \A n \in Batches : n # Batch(q) => ledger'[n] = ledger[n]
    BY <1>2, <1>6 DEF Apply, Batch, StoreIsSound
  <2> QED BY <1>1, <1>2, <2>1, <2>2, Beside
<1> QED BY <1>1, <1>3, <1>4, <1>5, <1>6

\* Time passes, or failures end.
LEMMA WaitKeepsIInv ==
  ASSUME IInv, UNCHANGED <<store, mu, pc, arg, at, acked>>, outage' \in BOOLEAN,
         time' \in 0..MaxTime, skew' \in 0..MaxBack, time <= time'
  PROVE  IInv'
<1>1. StoreIsSound' /\ \A c \in Bodies : Stored(c) => Stored(c)'
  BY StoreWaits DEF IInv
<1>2. \A c \in Bodies : Belongs(c) => Belongs(c)'
  BY DEF Belongs, store
<1> QED BY <1>1, <1>2, Beside DEF store

-----------------------------------------------------------------------------
(* The theorems                                                            *)

LEMMA InitIInv == Init => IInv
<1>. SUFFICES ASSUME Init PROVE IInv
  OBVIOUS
<1>1. StoreIsSound
  BY Constants DEF Init, StoreIsSound, LateAreSound, EventsAreReserved, CompletedIsStored, Statement
<1>2. ASSUME NEW h \in Handlers
      PROVE  HandlerIsSound(h)
  <2>1. pc[h] = "idle"
    BY DEF Init
  <2> QED BY <2>1 DEF HandlerIsSound
<1> QED BY <1>1, <1>2, Constants DEF Init, IInv, Steps, Readings

LEMMA NextKeepsIInv ==
  ASSUME OneLate, WaitsOutlastClock, IInv, [Next \/ Recover]_vars
  PROVE  IInv'
<1>1. ASSUME NEW h \in Handlers, InsertFundraising(h)
      PROVE  IInv'
  BY <1>1, ReadLedgerKeepsIInv, ReserveKeepsIInv, InsertEventsKeepsIInv, CompleteKeepsIInv
     DEF InsertFundraising
<1>2. CASE Tick \/ SetClock
  <2>1. time' \in 0..MaxTime /\ skew' \in 0..MaxBack /\ time <= time' /\ outage' \in BOOLEAN
    BY <1>2, Times, Constants DEF Tick, Pass, SetClock, IInv
  <2> QED BY <1>2, <2>1, WaitKeepsIInv DEF Tick, SetClock, locals
<1>3. CASE Recover
  <2>1. time' \in 0..MaxTime /\ skew' \in 0..MaxBack /\ time <= time'
    BY <1>3, Times DEF Recover, clock
  <2> QED BY <1>3, <2>1, WaitKeepsIInv DEF Recover, locals
<1>4. CASE UNCHANGED vars
  <2>1. time' \in 0..MaxTime /\ skew' \in 0..MaxBack /\ time <= time' /\ outage' \in BOOLEAN
    BY <1>4, Times DEF vars, clock, IInv
  <2> QED BY <1>4, <2>1, WaitKeepsIInv DEF vars, store
<1>5. CASE Next
  BY <1>1, <1>2, <1>5, BeginKeepsIInv, LockKeepsIInv, LandKeepsIInv DEF Next
<1> QED BY <1>3, <1>4, <1>5

\* The inductive invariant: INSERTs that land late are older than the reservation
\* that holds, or were sent under it.
THEOREM FundraisingInvariance == ASSUME OneLate, WaitsOutlastClock PROVE FairSpec => []IInv
<1>1. IInv /\ [Next \/ Recover]_vars => IInv'
  BY OneLate, WaitsOutlastClock, NextKeepsIInv
<1> QED BY <1>1, InitIInv, PTL DEF FairSpec

\* Ledger and events agree both ways, through a statement that lands late.
THEOREM FundraisingIsSound == ASSUME OneLate, WaitsOutlastClock PROVE FairSpec => []Inv
<1>1. IInv => Inv
  <2>. SUFFICES ASSUME IInv PROVE Inv
    OBVIOUS
  <2>1. TypeOK
    BY DEF IInv, StoreIsSound, TypeOK, Statement, Steps, HandlerIsSound
  <2> QED BY <2>1 DEF IInv, StoreIsSound, Inv
<1> QED BY <1>1, OneLate, WaitsOutlastClock, FundraisingInvariance, PTL

\* A batch id accounts for the donations of one body only.
THEOREM BatchesHaveOneBody == ASSUME OneLate, WaitsOutlastClock PROVE FairSpec => []OneBodyPerBatch
<1>1. IInv => OneBodyPerBatch
  BY DEF IInv, StoreIsSound, EventsAreReserved, OneBodyPerBatch
<1> QED BY <1>1, OneLate, WaitsOutlastClock, FundraisingInvariance, PTL

\* A 202 means stored and completed, for good.
THEOREM AcknowledgedIsStored == ASSUME OneLate, WaitsOutlastClock PROVE FairSpec => []AckedIsStored
<1>1. IInv => AckedIsStored
  BY DEF IInv, Stored, Completed, Belongs, AckedIsStored
<1> QED BY <1>1, OneLate, WaitsOutlastClock, FundraisingInvariance, PTL
=============================================================================
