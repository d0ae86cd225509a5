SPECIFICATION Spec
CONSTANTS
  Calls = {c1, c2}
  Operations <- CreateBoth
  Flags <- BothFlags
  Environments <- Three
  OwnKeys <- Search
  FirstFlags <- Checkout
  FirstEnvironments <- Production
  None = None
  Seed = Seed
  checkout = checkout
  search = search
  production = production
  staging = staging
  preview = preview
CHECK_DEADLOCK FALSE
INVARIANT ConfigsResolve
