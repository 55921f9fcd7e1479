SPECIFICATION Spec
CONSTANTS
  Readers = {r1}
  Writers = {w1}
  Probes = {p1}
  Keys = {report, history}
  History = history
  MaxVersion = 2
  MaxFaults = 0
INVARIANTS
  HistoryNeverOutlivesAChange
