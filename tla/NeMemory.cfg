CONSTANTS
  Addr = {0, 1, 2, 3, 4, 5, 6, 7}
  Page <- MCPage
  Size <- MCSize
  Phys <- MCPhys
  Usable = {0, 2, 3, 6}
  RegionSize = {0, 1, 2, 3, 4}
  MaxRegions = 3
  MaxCalls = 4
SPECIFICATION Spec
INVARIANTS
  DonatedIsPinned
  SizeIsDonated
  
PROPERTY AddsItsPages
