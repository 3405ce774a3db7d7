SPECIFICATION EconomySpec
CONSTANTS
  Claims <- SomeClaims
  Utxos = {"k1", "k2", "k3", "k4"}
  Envs = {"e1", "e2"}
  Minutes = {1, 2}
  Difficulty <- DifficultyOf
  Novelty <- NoveltyOf
  MicroPerMinute = 1000000
  Wallets = 1440
  MaxBatch = 3
  MaxCalls = 3
  Addresses = {a1, a2}
  Tiles = {t1}
  Objects = {o1, o2}
  NoTile = noTile
  Coins = 2
  Stakes = {1}
  Fees = {3, 100}
  Scores = {0, 333, 1000}
  MaxMints = 2
  Workers = {w1}
  Deltas = {40, 500, 2600, 8000}
  MaxEvaluations = 4
  MaxSessions = 2
CHECK_DEADLOCK FALSE
INVARIANTS
  OneRoundPerUtxo
  MinuteIsPaidOut
  
  MintsAddUp
  EmbodimentStaysEarned
