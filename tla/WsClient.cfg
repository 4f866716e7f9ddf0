CONSTANTS
  MaxConns = 2
  Callers = {c1}
  RepeatTimes = 2
  RandomRange = 1
  WaitMinimum = 2
SPECIFICATION Spec
CHECK_DEADLOCK FALSE
INVARIANT OnePump
INVARIANT DisconnectedFirst
INVARIANT BackOff
INVARIANT PausedWhileDown
PROPERTY KeepsTrying
PROPERTY StopEnds
