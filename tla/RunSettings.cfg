SPECIFICATION SettingsSpec
CONSTANTS
  MaxToolNameLen = 8
  RefOrder <- MCRefOrder
  Inventory <- MCInventory
  Builtin <- MCBuiltin
  BadSchemas <- MCBadSchemas
  FirstRequests <- MCFirstRequests
  Offers <- MCOffers
  MaxTurns = 3
INVARIANTS OffersObeyChoice ReplayIsConsistent UpstreamAgrees
CHECK_DEADLOCK FALSE
