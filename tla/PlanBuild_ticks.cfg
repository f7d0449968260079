SPECIFICATION Spec
CONSTANTS
  r1 = r1
  r2 = r2
  r3 = r3
  m1 = m1
  m2 = m2
  Reserves = {r1, r2, r3}
  NoReserve = NoReserve
  NoMint = NoMint
  NoTable = NoTable
  None = None
  Mint <- MCMint
  Worth <- MCWorth
  CollFarm = {r1}
  DebtFarm = {r3}
  MaxFull = 3
  Obligations <- MCObligations
  Plans <- MCPlans
  AtaNames = {"ata:repay"}
  PreMode = "auto"
  Limit = 12
  Prices = {0}
  Samples = {3}
  Floor = 1
  Cap = 1
  Bump = 1
  JitoTip = TRUE
  MaxAttempts = 2
  MaxAddresses = 2
  BatchSize = 1
INVARIANTS
  TypeOK
  IndexMovesOnlyWithBudget
  SentWasValidated
  FarmsNeverDropped
  PlannedPairOnly
  ReservesAreFresh
  OversizeIsBudgetOrTip
  SavedIsOnChain
PROPERTIES
  RepeatsOnlyFromStaleCopy
CHECK_DEADLOCK FALSE

