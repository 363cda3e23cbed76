CONSTANTS
  neutral = neutral
  happy = happy
  sad = sad
  None = None
  Same = Same
  Neutral <- neutral
  Expression <- MCThree
  Endings <- MCClosed
  Rates <- MCRate
  Beeps = TRUE
  Events = 3
  EventMax = 1
  Capacity = 2
  Modulus = 11
  SinkDepth = 2
  TurnTicks = 3
SPECIFICATION Spec
INVARIANT TailIsHeard
INVARIANT WaitIsShort
INVARIANT RightFace
INVARIANT OnlyBreachFails
