----------------------------- MODULE ImportBatches -----------------------------
(***************************************************************************)
(* How cmd/import-legacy cuts its input into batches.  The store knows a   *)
(* batch by an id made of its subject and of its first and last record, so *)
(* an import that is cut short and run again is safe only if it cuts the   *)
(* lines it has read before at the same places.                            *)
(***************************************************************************)
EXTENDS Integers, SequencesExt

CONSTANTS
  Lines,           \* lines of the input, each with the record id of its own
  SubjectOf,       \* [Lines -> (source, product, source_subject)]
  Sound,           \* the lines decodeEvent accepts
  MaxImportBatch,
  MaxLines         \* bound on the length of an input

ASSUME ImportAssumption ==
  /\ DOMAIN SubjectOf = Lines /\ Sound \subseteq Lines
  /\ MaxImportBatch \in Nat \ {0} /\ MaxLines \in Nat

\* batches: those built for InsertV2, in order; read: the lines it has decoded, and the
\* end of the input as one more; fails: the number of the batch whose flush returns an
\* error, 0 for none.  Such a batch may be stored all the same.
NewImporter(fails) ==
  [ok |-> TRUE, read |-> 0, current |-> <<>>, closed |-> {}, batches |-> <<>>, fails |-> fails]

CurrentKey(i) == SubjectOf[Head(i.current)]

\* The store may be down, suppress the subject or hold another batch of this id, and the
\* delay between batches may be interrupted; an error ends the import.
Flush(i) ==
  LET given == [i EXCEPT !.batches = Append(@, i.current)]
  IN  IF Len(given.batches) = i.fails THEN [given EXCEPT !.ok = FALSE]
      ELSE [given EXCEPT !.current = <<>>]

\* The part of the loop in consume that ends a batch before a line of this key.
FlushBefore(i, key) ==
  LET j == Flush(i)
  IN  IF i.current = <<>> \/ (key = CurrentKey(i) /\ Len(i.current) < MaxImportBatch) THEN i
      ELSE IF ~j.ok \/ key = CurrentKey(i) THEN j
      ELSE [j EXCEPT !.closed = @ \cup {CurrentKey(i)}]

\* A line that was decoded.
Gather(i, line) ==
  LET j == FlushBefore([i EXCEPT !.read = @ + 1], SubjectOf[line])
  IN  IF ~j.ok THEN j
      ELSE IF SubjectOf[line] \in j.closed THEN [j EXCEPT !.ok = FALSE]
      ELSE [j EXCEPT !.current = Append(@, line)]

\* Fault: what has been gathered is written before a line is refused.
ConsumeFlushing(i, line) ==
  IF ~i.ok THEN i
  ELSE IF line \notin Sound THEN [(IF i.current = <<>> THEN i ELSE Flush(i)) EXCEPT !.ok = FALSE]
  ELSE Gather(i, line)

\* One line of consume; an error ends the import with what has been written so far.
\* A cancelled context or a line too long ends it as a line that cannot be decoded does.
Consume(i, line) ==
  IF ~i.ok THEN i
  ELSE IF line \notin Sound THEN [i EXCEPT !.ok = FALSE]
  ELSE Gather(i, line)

\* The importer after each line of its input, and before the first.
Progress(input, fails) ==
  LET after[n \in 0..Len(input)] ==
        IF n = 0 THEN NewImporter(fails) ELSE Consume(after[n - 1], input[n])
  IN  after

Import(input, fails) ==
  LET last == Progress(input, fails)[Len(input)]
      done == [last EXCEPT !.read = @ + 1]
  IN  IF ~last.ok THEN last
      ELSE IF last.current = <<>> THEN done
      ELSE Flush(done)

BatchID(batch) == <<SubjectOf[Head(batch)], Head(batch), Last(batch)>>

-----------------------------------------------------------------------------
(* Properties                                                              *)

Inputs == BoundedSeq(Lines, MaxLines)
Failures == 0..MaxLines
Imported == [input \in Inputs |-> [fails \in Failures |-> Import(input, fails)]]

Grouped(input) ==
  \A i, j, k \in DOMAIN input :
    i < j /\ j < k /\ SubjectOf[input[i]] = SubjectOf[input[k]] => SubjectOf[input[j]] = SubjectOf[input[i]]

\* An import succeeds exactly when its lines are sound and grouped by subject and none
\* of the batches they make fails; then every line is in one batch, in order.  Batches
\* are of one subject, and those of different lines have different ids, however the
\* import ends (cmd/import-legacy/main.go:172-199, 245-275, 302).
EveryLineIsImported ==
  \A input \in Inputs, fails \in Failures :
    LET i == Imported[input][fails]
        batches == i.batches
    IN  /\ i.ok <=> /\ Range(input) \subseteq Sound /\ Grouped(input)
                    /\ fails \notin 1..Len(Imported[input][0].batches)
        /\ i.ok => FlattenSeq(batches) = input
        /\ \A n \in DOMAIN batches :
             /\ Len(batches[n]) \in 1..MaxImportBatch
             /\ \A a, b \in Range(batches[n]) : SubjectOf[a] = SubjectOf[b]
        /\ IsInjective(input) => \A m, n \in DOMAIN batches :
             BatchID(batches[m]) = BatchID(batches[n]) => m = n

\* Two inputs have the same first n lines, the end of an input counting as one.
Agree(input, again, n) ==
  \A k \in 1..n :
    /\ k \in DOMAIN input <=> k \in DOMAIN again
    /\ k \in DOMAIN input => again[k] = input[k]

\* What an import gave to the store before it ended, in success, at a line that cannot
\* be decoded, at one out of its group or at a batch that fails, is given again batch
\* for batch when it is run again with the lines that it had read: the second import
\* replays all of it, or stops at the store within it, and no batch is a conflict
\* (main.go:172-181, 197-199).  Only an undecodable line is not read: an input refused
\* for its grouping and then regrouped has lost a line that cut a batch, and one that
\* goes on where another ended has lost its end.
StoppedImportIsReplayed ==
  \A input \in Inputs, fails \in Failures :
    LET i == Imported[input][fails]
    IN  \A again \in Inputs :
          Agree(input, again, i.read) =>
            \A failing \in Failures :
              LET j == Imported[again][failing]
              IN  \/ IsPrefix(i.batches, j.batches)
                  \/ ~j.ok /\ IsPrefix(j.batches, i.batches)

\* A rerun replays: batches are a function of the lines, and of no line that was not
\* read (docs/legacy-import.md:39 has the operator repeat the input and count replays).
RerunsReplay == EveryLineIsImported /\ StoppedImportIsReplayed
=============================================================================
