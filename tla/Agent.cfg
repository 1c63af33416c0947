SPECIFICATION MCSpec
\* Every workflow may be parked for good, done or failed.
CHECK_DEADLOCK FALSE
CONSTANTS
  Workflows = {a}
  Holds = {h1, h2}
  Ticks = {p1, p2}
  Consoles = {c1, c2, c3}
  Nil = Nil
  Answered = Answered
  BatchSize = 2
  MaxSteps = 2
  MaxHolds = 1
  MaxFaults = 1
INVARIANTS
  ChatTypeOK
  OneBookingPerWorkflow
PROPERTIES
  SpendsOnlyWhatIsParked
  EveryRunEnds
  EveryTurnIsFetched
