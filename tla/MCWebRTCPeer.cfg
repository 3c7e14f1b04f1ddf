SPECIFICATION PeerSpec
CONSTANTS
  Medias <- MCMedias
  Encoders = {red, rtx}
  MaxQueued = 1
  MaxOffers = 2
  MaxLosses = 2
INVARIANTS
  PeerInv
  OffersAreClean
PROPERTIES
  KillerSparesConnected
  NeverConnectedIsEnded
  LostIsEnded
CHECK_DEADLOCK FALSE
