SPECIFICATION FairSpec
CONSTANTS
  Reservations = {o1}
  Notifiers = {n1}
  Posters = {w1, w2}
  Urls = {url}
  Nil = Nil
  BatchSize = 2
  MaxAttempts = 2
  MaxAborts = 2
INVARIANTS
  TypeOK
  NotifiedExactlyWhenDone
  DuplicatesHaveCauses
  DoneMeansDelivered
PROPERTY EveryJobIsResolved
