\* Two overlapping runners, two edits of the source, one crash.
SPECIFICATION FairSpec
CONSTANTS
  t1 = t1
  t2 = t2
  c1 = c1
  c2 = c2
  r1 = r1
  r2 = r2
  NoTable = NoTable
  Tables <- TwoTables
  Columns <- TwoColumns
  Runners <- TwoRunners
  FirstRelease <- OneEntity
  MatchesPath <- NamesApart
  References <- T2BelongsToT1
  MaxEdits = 2
  MaxCrashes = 1
INVARIANTS
  AppliedOnce
  LedgerTruthful
  PassedIsRecorded
  SuccessMeansSchema
PROPERTIES
  EventuallyInstalled
CHECK_DEADLOCK FALSE
