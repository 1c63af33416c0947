SPECIFICATION MCSpec
\* The page may rest, with nothing due and nothing cached.
CHECK_DEADLOCK FALSE
CONSTANTS
  s1 = s1  d1 = d1  d2 = d2
  Seats = {s1}
  Dates = {d1, d2}
  DateOf <- MCDateOf
  Pages = {p1}
  Others = {c1}
  Direct = {b1}
  Loads = {l1}
  Nil = Nil
  MaxChanges = 3
PROPERTIES
  CacheHeals
  EveryEventIsRefetched
