\* two reports with one base name, and termination.
SPECIFICATION FairSpec
CONSTANTS
  s1 = s1
  s2 = s2
  p1 = p1
  p2 = p2
  u1 = u1
  u2 = u2
  Legacy = Legacy
  NoObject = NoObject
  Partial = Partial
  Source = {s1, s2}
  BaseName <- MCBaseName
  Partition = {p1}
  User = {u1, u2}
  TargetLists = {{u1}, {u1, u2}}
  Report <- SharedNameReport
  LegacyOutputs <- MCLegacyOutputs
INVARIANTS
  FactsWholeAtRest
PROPERTIES
  CallsOnlyAdvance
  EveryCallEnds
