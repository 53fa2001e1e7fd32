\* Two processes, two repositories of two files each, four calls: two builds
\* of one index at once, or two registrations of different ones, with two faults.
SPECIFICATION Spec
CONSTANTS
  Processes = {p1, p2}
  Roots = {r1, r2}
  Files = {f1, f2}
  Cut = Cut
  MaxCalls = 4
  MaxFaults = 2
  MaxRemovals = 1
SYMMETRY Symmetric
INVARIANTS
  TypeOK
  NoTornRegistry
  RecordedStays
  GapsAreClosed
\* The calls come to their bound.
CHECK_DEADLOCK FALSE
