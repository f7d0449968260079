SPECIFICATION Spec
CONSTANTS
  usd = usd
  sol = sol
  o1 = o1
  o2 = o2
  NoPrice = NoPrice
  None = None
  Mints = {usd, sol}
  Kind <- MCKind
  Stable = {usd}
  StableLow = 99
  StableHigh = 101
  Dollar = 100
  PythUnit = 1
  Pegged = {usd}
  SaneLow = 50
  SaneHigh = 200
  MaxAge <- MCMaxAge
  File <- MCFile
  Allowed = {}
  UsdcMint = usd
  SolMint = sol
  Threshold <- MCThreshold
  Factor <- MCFactor
  MinBonus <- MCMinBonus
  MaxBonus <- MCMaxBonus
  ProtocolFee <- MCProtocolFee
  CloseFactor = 50
  LegacyBonus = 50
  FullGap = 100
  FlashloanFee = 2
  Slippage = 5
  SameMintSlippage = 0
  GasUsd = 1
  Alpha = 25
  MinutesPerPct <- MCMinutesPerPct
  LegacyPerPct = 5
  MaxMove = 20
  Near = 1020
  MinBorrow = 10
  MinRepayUsd = 0
  MinCollUsd = 0
  TopN = 1
  TopK = 1
  MinEv = 0
  MaxTtl = 30
  MinHazard = 0
  ForecastTtl = 1
  Obs <- MCObs
  Outcomes <- MCOutcomes
  NewPrices <- MCNewPrices
  StartPrices <- MCStartPrices
  Configs <- MCConfigs
  KlendAnswers <- MCKlendAnswers
  MaxTime = 3
  MaxRounds = 2
  MaxPublished = 2
  MaxInFlight = 2
INVARIANTS
  TypeOK
  TtlIsRecent
PROPERTIES
  QueuedWasPriced
  LiquidatableFirst
  VerdictDecides
  NoOldPlansOnceScored
  LiveUpdateApplied
CHECK_DEADLOCK FALSE
