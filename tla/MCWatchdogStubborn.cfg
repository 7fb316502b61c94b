SPECIFICATION Spec
CONSTANTS
  w1 = w1
  w2 = w2
  Workers = {w1}
  NoWorker = NoWorker
  MaxRelaunch = 1
  DeadTicks = 1
  Stubborn = {w1}
  Races = {}
PROPERTIES SwitchHonoured
