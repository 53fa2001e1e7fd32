\* The smallest instance: two processes call search_code on one repository.
SPECIFICATION Spec
CONSTANTS
  Processes = {p1, p2}
  Roots = {r1}
  Files = {f1, f2}
  Cut = Cut
  MaxCalls = 2
  MaxFaults = 1
  MaxRemovals = 0
INVARIANTS
  AnswersFromBuiltIndex
\* The calls come to their bound.
CHECK_DEADLOCK FALSE
