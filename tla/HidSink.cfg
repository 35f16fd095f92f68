CONSTANTS
  Viewers <- MCViewers
  Saved <- MCSaved
  Phys <- MCPhys
  Layout <- MCLayout
  Usages <- MCUsages
  Slots = 2
  Texts <- MCTexts
  Sizes = {1, 3}
  DefaultSize = 3
  AbsMax = 7
  MaxActs = 3
  MaxPastes = 1
SPECIFICATION FairSpec
INVARIANTS NoStuckKey HostInSync PasteExact PointerOnTarget
PROPERTY KeysComeUp
CHECK_DEADLOCK FALSE
