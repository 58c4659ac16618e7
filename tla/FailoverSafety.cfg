SPECIFICATION Spec
CONSTANTS
  blue = blue
  green = green
  Colors = {blue, green}
  First = {blue, green}
  TriggerAfter = 1
  ResolveAfter = 1
  MaxPromotions = 2
  MaxFaults = 2
INVARIANT HandoversKeepTheTruth
SYMMETRY Interchangeable
