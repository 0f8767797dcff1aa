CONSTANTS
  Codes = {35, 103}
  Keys = {104, 72, 107}
  Shifts = {42}
  Size = 3
  DeviceRoom = 6
  MaxEvents = 5
SPECIFICATION Spec
INVARIANTS
  KeysInOrder
  LossOnlyCosts
  ShiftReleased
PROPERTIES
  Answered
  ImplementsQueue
