\* One migration after another from a source of two processes to a target.
SPECIFICATION Spec
CONSTANTS
  s1 = s1
  s2 = s2
  t1 = t1
  freezer = freezer
  exporter = exporter
  importer = importer
  writer = writer
  newcomer = newcomer
  Sources = {s1, s2}
  Targets = {t1}
  Calls = {writer, newcomer}
  Operators = {freezer, exporter, importer}
  ProcOf <- Placement
  NoOne = NoOne
  LastTable = 2
  Queues = 1
  MigrationIds = {m1, m2}
  MayReuse = FALSE
  NoBundle = NoBundle
  Mistyped = Mistyped
  MaxWrites = 2
  MaxBusy = 2
  MaxSetbacks = 1
SYMMETRY IdSymmetry
INVARIANTS
  TypeOK
  GateHoldsInItsProcess
  ExportIsCurrent
  ImportIsExact
PROPERTIES
  CutoverMovesEverything
CHECK_DEADLOCK FALSE
