SPECIFICATION Spec
CONSTANTS
  m1 = m1
  m2 = m2
  m3 = m3
  b1 = b1
  b2 = b2
  b3 = b3
  b4 = b4
  Msgs = {m1, m2, m3}
  Boots = {b1, b2, b3, b4}
  NoBoot = NoBoot
  NoMsg = NoMsg
  Kind <- Mixed
  Races = {"drain"}
INVARIANTS NoMailLost
