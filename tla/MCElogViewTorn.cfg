CONSTANTS
  Cap = 2
  Writers = {w1, w2}
  w1 = w1
  w2 = w2
  MaxEvents = 3
  Times = {1, 2, 3}
  Res = 6
  Tick = 600
  ViewStart = 1300

SPECIFICATION Spec
CONSTRAINT StartTimeBound

INVARIANT ViewNeverTorn
