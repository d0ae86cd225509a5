SPECIFICATION Spec
CONSTANTS
  Users = {alice, bob}
  Flags = {flag}
  Environments = {production}
  Calls = {c1, c2, c3, c4}
  Operations <- EveryOperation
  Payloads <- TwoParts
  AssignableRoles <- ViewerOrAdmin
  None = None
SYMMETRY CallSymmetry
CHECK_DEADLOCK FALSE
INVARIANTS OnePending VersionsGapless AppliedIffApproved
PROPERTY ImplementsGate
