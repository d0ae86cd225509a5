SPECIFICATION Spec
CONSTANTS
  Calls = {c1, c2, c3, c4}
  Operations <- Everything
  Environments <- InKeyOrder
  Starters <- TwoStarters
  Keys = {k1, k2, k3}
  Issued <- OneKeyEach
  Everywhere = Everywhere
  Seed = Seed
  development = development
  production = production
  staging = staging
  k1 = k1
  k2 = k2
  k3 = k3
SYMMETRY CallSymmetry
CHECK_DEADLOCK FALSE
INVARIANTS BadgeIsKept EmptiedOnlyByCircle ArchiveWithdrawsKeys LeakedSecretIsDead
