SPECIFICATION Spec
CONSTANTS
  Player = {p1, p2, p3}
  Connected = {p1, p2}
  Master = p1
  Diverging = {}
  Input = {idle, dash}
  Neutral = idle
  MaxPlayerInputNmb = 3
  GameFrames = 3
  CatchUp = 0
CHECK_DEADLOCK FALSE
INVARIANTS
  TypeOK
  RowsExist
  LocalInputKept
  ConfirmedWasPlayed
  MasterDisplayCurrent
  PacketsSuffice
PROPERTIES
  ImplementsAgreedLog
