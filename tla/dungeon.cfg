CONSTANTS
  W = 12
  H = 6
  LOS_RADIUS = 2
  Dungeons <- MCDungeons
  Bytes <- MCBytes
  StartHitPoints = 7
  Strength = 4
  MonsterHp = 5
  MonsterAttack = 2
SPECIFICATION Spec
\* quit ends the program
CHECK_DEADLOCK FALSE
INVARIANTS
  TypeOK
  PlayerOnFloor
  KillsPayOnce
  DamageLedger
  FontShown
  OnlyBornUnderfoot
  NothingBehindMenu
PROPERTIES
  NoUnseenFoe
