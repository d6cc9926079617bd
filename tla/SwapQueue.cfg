SPECIFICATION FairSpec
CONSTANTS
  Size = 2
  Buffer = {b1, b2, b3, b4}
  Value = {v1, v2}
  proto = v1
  Nothing = Nothing
  Refused = Refused
INVARIANTS
  IndexesAgree
  NoSlotRace
  BuffersConserved
  SizeIsLowerBound
PROPERTIES
  ImplementsBoundedFifo
  InsertedIsHandedOver
