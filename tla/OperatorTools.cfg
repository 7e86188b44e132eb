\* Two runners at once, of three releases, one of them with an edited migration, over an empty or a prepared database.
CONSTANTS
  Runners = {r1, r2}
  Releases <- WithAnEdit
  Shipped <- OldAndNew
  Statements <- MCStatements
  Objects = {table, view}
  table = table  view = view  c = c  edited = edited
  MaxLexemes = 4
  MaxRuns = 4
  Lines <- MCLines
  SubjectOf <- MCSubjectOf
  Sound <- MCSound
  MaxImportBatch = 2
  MaxLines = 4
  MaxCrashes = 2
  NoChecksum = NoChecksum
SPECIFICATION FairSpec
INVARIANTS Inv SameAsUndisturbed FilesAreStatements EpisodesAreMailed ImportsAreRepeats
PROPERTIES MigratesInTheEnd
