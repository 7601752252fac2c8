SPECIFICATION Spec
CONSTANTS
  MaxTools = 2
  MaxPages = 2
  MaxBytes = 2
  Runs = {"p1", "p2"}
  Invocations <- MCInvocations
  Names <- MCNames
  Transport <- MCTransport
  RawSurfaces <- MCRawSurfaces
  Versions <- MCVersions
INVARIANTS
  WorstIsReported
  VerdictIsTheRollups
  WritesOnlySelected
  NothingLostAlone
  FileIsSound
  PromptDriftIsWorst
