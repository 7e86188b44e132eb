------------------------------- MODULE DiskAlert -------------------------------
(***************************************************************************)
(* cmd/disk-alert: a timer starts it, it mails once when the disk is past  *)
(* the threshold, and remembers that in a file on this very disk.  A       *)
(* history is a sequence of runs, each of which finds the disk over the    *)
(* threshold or not and may fail somewhere.                                *)
(***************************************************************************)
EXTENDS Integers, SequencesExt

CONSTANTS MaxRuns  \* bound on the length of a history

ASSUME DiskAlertAssumption == MaxRuns \in Nat

\* Where a run fails: at statfs or the state file, before the mail is taken over or
\* after it, before the state file is truncated, after it, or once it is written.
Fates == {"none", "read", "mail", "mailed", "write", "torn", "late"}
Ticks == [over : BOOLEAN, fate : Fates]

\* What a run leaves: the state file, whether a mail went out and how the run ended.
NoRun == [over |-> FALSE, mailed |-> FALSE, ok |-> TRUE, file |-> "missing"]

Ended(file, tick, mailed, ok) ==
  [over |-> tick.over, mailed |-> mailed, ok |-> ok, file |-> file]

\* writeAlertState, the last step of a run.
Save(file, tick, mailed, state) ==
  CASE tick.fate = "write" -> Ended(file, tick, mailed, FALSE)
    [] tick.fate = "torn" -> Ended("empty", tick, mailed, FALSE)
    [] OTHER -> Ended(state, tick, mailed, tick.fate # "late")

\* Fault: the state is written before the mail is sent.
AlertSaving(file, tick) ==
  IF tick.fate \in {"mail", "mailed"} THEN Ended("alerted", tick, tick.fate = "mailed", FALSE)
  ELSE Save(file, tick, TRUE, "alerted")

Alert(file, tick) ==
  IF tick.fate \in {"mail", "mailed"} THEN Ended(file, tick, tick.fate = "mailed", FALSE)
  ELSE Save(file, tick, TRUE, "alerted")

\* One run of the program over the state file the runs before have left.
Check(file, tick) ==
  LET alerted == file = "alerted"
  IN  CASE tick.fate = "read" -> Ended(file, tick, FALSE, FALSE)
        [] tick.fate # "read" /\ tick.over = alerted -> Ended(file, tick, FALSE, TRUE)
        [] tick.fate # "read" /\ alerted /\ ~tick.over -> Save(file, tick, FALSE, "ok")
        [] OTHER -> Alert(file, tick)

-----------------------------------------------------------------------------
\* The runs of a history; 0 stands for the host before the first.
History(ticks) ==
  LET run[n \in 0..Len(ticks)] == IF n = 0 THEN NoRun ELSE Check(run[n - 1].file, ticks[n])
  IN  run

Logs == {[n \in DOMAIN ticks |-> History(ticks)[n]] : ticks \in BoundedSeq(Ticks, MaxRuns)}

\* A run that finds the disk too full and says nothing comes after a mail that went
\* out, and after no run that has seen the disk below the threshold and ended well: no
\* episode passes in silence because of what failed before (main.go:40-60).
SilenceIsJustified ==
  \A log \in Logs : \A i \in DOMAIN log :
    log[i].over /\ log[i].ok /\ ~log[i].mailed =>
      \E j \in 1..(i - 1) :
        log[j].mailed /\ \A k \in (j + 1)..i : log[k].ok => log[k].over

\* Within one episode a second mail is sent only when the run of the first failed, the
\* price of mailing before the state is written (main.go:50-60).
OneMailPerEpisode ==
  \A log \in Logs : \A i, j \in DOMAIN log :
    i < j /\ log[i].mailed /\ log[j].mailed /\ (\A k \in i..j : log[k].over) => ~log[i].ok

\* One mail per episode, up to the failures of the run that sends it.
MailsFollowEpisodes == SilenceIsJustified /\ OneMailPerEpisode
=============================================================================
