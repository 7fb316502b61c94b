SPECIFICATION Spec
CONSTANTS
  w1 = w1
  w2 = w2
  Workers = {w1}
  NoWorker = NoWorker
  MaxRelaunch = 2
  DeadTicks = 2
  Stubborn = {}
  Races = {}
INVARIANTS TypeOK WorkingIsTracked ParkedIsHonest CapBoundsLoops
PROPERTIES UnfinishedIsRevived SwitchHonoured
