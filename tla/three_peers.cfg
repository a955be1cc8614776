SPECIFICATION Spec
CONSTANTS
  Player = {p1, p2, p3}
  Connected = {p1, p2, p3}
  Master = p1
  Diverging = {}
  Input = {idle, dash}
  Neutral = idle
  MaxPlayerInputNmb = 2
  GameFrames = 2
  CatchUp = 0
CONSTRAINTS OneTickAtATime NoEndScreen
CHECK_DEADLOCK FALSE
INVARIANTS
  ConfirmedIsPressed
