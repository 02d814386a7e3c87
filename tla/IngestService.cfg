\* ProcessCsvAsync against S3: one report and its overwrite.
SPECIFICATION Spec
CONSTANTS
  s1 = s1
  s2 = s2
  p1 = p1
  p2 = p2
  u1 = u1
  u2 = u2
  Legacy = Legacy
  NoObject = NoObject
  Partial = Partial
  Source = {s1}
  BaseName <- MCBaseName
  Partition = {p1, p2}
  User = {u1, u2}
  TargetLists = {{}, {u1}, {u1, u2}}
  Report <- OverwrittenReport
  LegacyOutputs <- MCLegacyOutputs
INVARIANTS
  FactsWholeAtRest
  PublicationIsExact
  SavedSequencerWasPublished
PROPERTIES
  EventsOfAReportAreInOrder
  ImplementsFactStore
