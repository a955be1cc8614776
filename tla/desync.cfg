SPECIFICATION Spec
CONSTANTS
  Player = {p1, p2}
  Connected = {p1, p2}
  Master = p1
  Diverging = {p2}
  Input = {idle, dash}
  Neutral = idle
  MaxPlayerInputNmb = 1
  GameFrames = 2
  CatchUp = 1
CHECK_DEADLOCK FALSE
INVARIANTS
  ConfirmedAgree
  NoFalseAlarm
