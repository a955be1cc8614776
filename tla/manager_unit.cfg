SPECIFICATION Spec
CONSTANTS
  Player = {p1, p2, p3}
  Connected = {p1, p2}
  Input = {idle, dash}
  Neutral = idle
  MaxPlayerInputNmb = 2
  LastFrame = 2
INVARIANTS
  ManagerSound
