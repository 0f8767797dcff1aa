CONSTANTS
  W = 11
  H = 5
  LOS_RADIUS = 3
  WIDTH = 104
  HEIGHT = 136
  Dungeons <- MCDungeons
  Bytes <- MCBytes
  StartHitPoints = 3
  Strength = 4
  MonsterHp = 3
  MonsterAttack = 2
SPECIFICATION ScreenSpec
\* quit ends the program
CHECK_DEADLOCK FALSE
INVARIANTS
  DisplayFollows
  ShowsPicture
  SeenIsHit
