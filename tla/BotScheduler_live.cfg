SPECIFICATION FairSpec
CONSTANTS
  Keys = {k1}
  Promos = {p1, p2}
  MaxUpdates = 2
  BatchLimit = 1
  None = none
CHECK_DEADLOCK FALSE
INVARIANTS MutexIsTheCycle WatchersAgree
PROPERTIES OnlyWatchedIsPromoted NoOlderPlanUnlessCrossed HealthyIsNotPromoted ChangesAreSeen
