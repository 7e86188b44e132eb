----------------------------- MODULE OperatorTools -----------------------------
(***************************************************************************)
(* The programs an operator runs by hand and the one a timer starts: the   *)
(* migrations with the files they are read from, the import of legacy      *)
(* events, and the disk alert.  What the latter compute depends on no      *)
(* variable of the runners, so it is stated where the runners start.       *)
(***************************************************************************)
EXTENDS MigrationRunner, SplitStatements, DiskAlert, ImportBatches

\* A file is executed statement by statement as SQL sees it (migrations/runner.go:125-204).
FilesAreStatements == Init => SplitsAtStatements

\* An episode of a full disk is mailed, and once (cmd/disk-alert/main.go:40-60).
EpisodesAreMailed == Init => MailsFollowEpisodes

\* An import that is run again with the lines it had read makes the requests it made, as
\* far as the store lets it: batch for batch the same ones (cmd/import-legacy/main.go:172-199).
ImportsAreRepeats == Init => RerunsReplay
=============================================================================
