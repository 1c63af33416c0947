SPECIFICATION Spec
CHECK_DEADLOCK FALSE
CONSTANTS
  Workflows = {a}
  Holds = {h1, h2}
  Ticks = {p1}
  Consoles = {c1, c2, c3}
  Nil = Nil  Answered = Answered
  BatchSize = 2
  MaxSteps = 2
  MaxHolds = 1
  MaxFaults = 0
INVARIANT NothingSpentUnapproved
