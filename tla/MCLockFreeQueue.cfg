CONSTANTS
  Size = 3
  Values = {v1, v2}
  Null = Null
  Writers = {p, q}
  Parent = p
SPECIFICATION Spec
INVARIANTS NoSlotRace
PROPERTIES ImplementsFifo
