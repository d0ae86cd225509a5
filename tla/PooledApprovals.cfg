SPECIFICATION PooledFairSpec
CONSTANTS
  Users = {alice, bob}
  Flags = {flag}
  Environments = {production}
  Calls = {c1, c2, c3}
  Operations <- AllButPublishes
  Payloads <- SinglePart
  AssignableRoles <- ViewerOrAdmin
  None = None
  PoolMax = 2
CHECK_DEADLOCK FALSE
INVARIANT FourEyes
PROPERTIES EveryCallEnds DecisionsAreFinal
