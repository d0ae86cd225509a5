SPECIFICATION WebSpec
CONSTANTS
  Catalogue <- AllScreens
  MaxRequests = 2
  MaxElsewhere = 1
  Users = {ann, bob}
  Members = {bob}
  Visitors = {ann}
  Nobody = Nobody
  MaxSent = 1
  MaxSignIns = 1
  MaxSessions = 1
  Environments = {"dev", "prod"}
  MaxMade = 2
  FirstKey = "on"
  OtherKey = "off"
  NewKey = "new"
  Nothing = Nothing
  MaxEdits = 1
  MaxWrites = 2
CHECK_DEADLOCK FALSE
INVARIANTS DraftStaysInScope NewSecretIsShown NoPageOutlivesSignIn
PROPERTIES ConfirmedIsStored CreatedAsReviewed TabsKeepToThemselves EveryScreenSettles EveryVisitSettles SourceListComesUp
