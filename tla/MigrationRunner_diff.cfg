\* An edited column with its diff file.
SPECIFICATION Spec
CONSTANTS
  t1 = t1
  t2 = t2
  c1 = c1
  c2 = c2
  r1 = r1
  r2 = r2
  NoTable = NoTable
  Tables <- TwoTables
  Columns <- TwoColumns
  Runners <- OneRunner
  FirstRelease <- OneEntity
  MatchesPath <- NamesApart
  MaxEdits = 1
  References <- T2BelongsToT1
  MaxCrashes = 0
INVARIANT
  DiffInsteadOfRefusal
CHECK_DEADLOCK FALSE
