SPECIFICATION Spec
CONSTANTS
  Player = {p1, p2}
  Connected = {p1, p2}
  Master = p1
  Diverging = {}
  Input = {idle, dash}
  Neutral = idle
  MaxPlayerInputNmb = 3
  GameFrames = 4
  CatchUp = 0
CONSTRAINTS OneTickAtATime NoEndScreen
CHECK_DEADLOCK FALSE
INVARIANTS
  RowsTruthful
  ConfirmedIsPressed
PROPERTIES
  ConfirmedRowsFinal
