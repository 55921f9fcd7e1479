SPECIFICATION FairSpec
CONSTANTS
  Readers = {r1}
  Writers = {w1, w2}
  Probes = {p1, p2}
  Keys = {report, history}
  History = history
  MaxVersion = 2
  MaxFaults = 1
INVARIANTS
  StaleExplained
  ReportExplained
PROPERTIES
  StaleIsBrief
