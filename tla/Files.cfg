CONSTANTS
  good1 = good1
  good2 = good2
  bad = bad
  Invalid = Invalid
  Stock = Stock
  Regular = Regular
  None = None
  Specs <- AllSpecs
  Runnable <- GoodSpecs
  MaxWrites = 4
  MaxTampers = 1
  s1 = s1
  s2 = s2
  s3 = s3
  d1 = d1
  f1 = f1
  f2 = f2
  p1 = p1
  p2 = p2
  NoFile = NoFile
  Procs = {p1, p2}
  Files = {f1, f2}
  Sources = {s1, s2, s3, d1}
  Assets <- ThreeAssets
  Digests = {d1}
  Bodies <- AllBodies
  MaxSize = 2
  pre1 = pre1
  pre2 = pre2
  Unknown = Unknown
  InvalidPrefix = InvalidPrefix
  Databases <- SomeDatabases
  Damaged <- DamagedFiles
  DbFiles <- AllFiles
  Replacements <- SomeReplacements
  Numbers = {1, 2, 3, 4, 5, 6}
  MaxLog = 2
  MaxLines = 5
  MaxFailures = 1
  Hole = Hole
SPECIFICATION FilesSpec
INVARIANTS
  FilesTypeOK ActiveRuns AllOrNothing AnswerIsListed WrittenIsAnswered
  OneRotationLosesNothing
PROPERTIES
  ImplementsSwitch FallbackWorks FileWorkEnds
