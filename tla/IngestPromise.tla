---------------------------- MODULE IngestPromise ----------------------------
(***************************************************************************)
(* What the V2 store promises its clients, without tables, statements,     *)
(* mutexes, retries or crashes: a batch id is claimed by one body, the     *)
(* body's events are held, the batch is done, the client is told so; a     *)
(* muted body gains nothing any more, and only a muted body is erased.     *)
(***************************************************************************)
CONSTANTS Bodies, Batches, BatchOf, RecordsOf, Unclaimed

VARIABLES
  claim,  \* [Batches -> Bodies, or Unclaimed]
  held,   \* bodies whose events are in the store
  done,   \* batches that are complete
  acked,  \* bodies whose client was told 202
  muted   \* bodies under a suppression

vars == <<claim, held, done, acked, muted>>

Init ==
  /\ claim = [n \in Batches |-> Unclaimed]
  /\ held = {} /\ done = {} /\ acked = {} /\ muted = {}

Claim(b) ==
  /\ b \notin muted
  /\ claim[BatchOf[b]] = Unclaimed
  /\ claim' = [claim EXCEPT ![BatchOf[b]] = b]
  /\ UNCHANGED <<held, done, acked, muted>>

Hold(b) ==
  /\ b \notin muted
  /\ claim[BatchOf[b]] = b
  /\ \A c \in held : RecordsOf[c] \cap RecordsOf[b] # {} => c = b
  /\ held' = held \cup {b}
  /\ UNCHANGED <<claim, done, acked, muted>>

Finish(b) ==
  /\ b \notin muted
  /\ claim[BatchOf[b]] = b /\ b \in held
  /\ done' = done \cup {BatchOf[b]}
  /\ acked' \in {acked, acked \cup {b}}
  /\ UNCHANGED <<claim, held, muted>>

\* The answer to a repeated body.
Repeat(b) ==
  /\ claim[BatchOf[b]] = b /\ BatchOf[b] \in done
  /\ acked' = acked \cup {b}
  /\ UNCHANGED <<claim, held, done, muted>>

Mute ==
  /\ muted' \in SUBSET Bodies
  /\ muted \subseteq muted'
  /\ UNCHANGED <<claim, held, done, acked>>

EraseEvents ==
  /\ held' \subseteq held /\ held \ held' \subseteq muted
  /\ UNCHANGED <<claim, done, acked, muted>>

\* A claim is forgotten only after the events of its body.
EraseClaims ==
  LET gone == {n \in Batches : claim'[n] # claim[n]}
  IN  /\ claim' \in [Batches -> Bodies \cup {Unclaimed}]
      /\ \A n \in gone : /\ claim[n] \in muted \ held
                         /\ claim'[n] = Unclaimed
      /\ done' = done \ gone
      /\ UNCHANGED <<held, acked, muted>>

Next ==
  \/ \E b \in Bodies : Claim(b) \/ Hold(b) \/ Finish(b) \/ Repeat(b)
  \/ Mute \/ EraseEvents \/ EraseClaims

Spec == Init /\ [][Next]_vars
=============================================================================
