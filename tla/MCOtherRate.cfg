CONSTANTS
  neutral = neutral
  happy = happy
  sad = sad
  None = None
  Same = Same
  Neutral <- neutral
  Expression <- MCExpression
  Endings <- MCClosed
  Rates <- MCAnyRate
  Beeps = FALSE
  Events = 3
  EventMax = 2
  Capacity = 2
  Modulus = 1
  SinkDepth = 0
  TurnTicks = 0
SPECIFICATION Spec
INVARIANT OnlyBreachFails
