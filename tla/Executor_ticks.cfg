SPECIFICATION Spec
CONSTANTS
  k1 = k1
  k2 = k2
  Keys <- MCKeys
  Callers = {"scheduler", "import"}
  Once = {"import"}
  Dry = {"import"}
  MaxAttempts = 2
  SetupCache = TRUE
INVARIANTS OneTickWorks DryNeverSends
PROPERTIES HealthyIsLeftAlone PoorIsLeftAlone
