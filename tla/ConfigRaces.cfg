SPECIFICATION Spec
CONSTANTS
  Calls = {c1, c2, c3}
  Operations <- Everything
  Flags <- BothFlags
  Environments <- Three
  OwnKeys <- Search
  FirstFlags <- Checkout
  FirstEnvironments <- Production
  None = None
  Seed = Seed
  checkout = checkout
  search = search
  production = production
  staging = staging
  preview = preview
SYMMETRY CallSymmetry
CHECK_DEADLOCK FALSE
INVARIANTS CoveredUnlessCrossed OldReferencesResolve
