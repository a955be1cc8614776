SPECIFICATION Spec
CONSTANTS
  Player = {p1, p2, p3}
  Connected = {p1, p2, p3}
  Master = p1
  Diverging = {}
  Input = {idle, dash}
  Neutral = idle
  MaxPlayerInputNmb = 1
  GameFrames = 4
  CatchUp = 0
CONSTRAINTS
  OneTickAtATime
  OneRestless
CHECK_DEADLOCK FALSE
INVARIANTS
  NoFalseAlarm
