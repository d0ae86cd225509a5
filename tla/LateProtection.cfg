SPECIFICATION Spec
CONSTANTS
  Users = {alice, bob}
  Flags = {flag}
  Environments = {production}
  Calls = {c1, c2}
  Operations <- EveryOperation
  Payloads <- TwoParts
  AssignableRoles <- ViewerOrAdmin
  None = None
CHECK_DEADLOCK FALSE
PROPERTY ProtectedNeedsApproval
