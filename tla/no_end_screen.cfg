SPECIFICATION FairSpec
CONSTANTS
  Player = {p1, p2}
  Connected = {p1, p2}
  Master = p1
  Diverging = {}
  Input = {idle, dash}
  Neutral = idle
  MaxPlayerInputNmb = 2
  GameFrames = 2
  CatchUp = 0
CHECK_DEADLOCK FALSE
PROPERTIES
  EndScreenShown
