CONSTANTS
  W = 20
  H = 20
  GRID_W = 1
  GRID_H = 2
  MIN_ROOM_W = 4
  MIN_ROOM_H = 3
  Draws = {64, 65, 89}
SPECIFICATION Spec
CHECK_DEADLOCK FALSE
INVARIANTS
  SingleContact
