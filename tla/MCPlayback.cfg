CONSTANTS
  neutral = neutral
  happy = happy
  sad = sad
  None = None
  Same = Same
  Neutral <- neutral
  Expression <- MCExpression
  Endings <- MCAny
  Rates <- MCAnyRate
  Beeps = TRUE
  Events = 3
  EventMax = 2
  Capacity = 2
  Modulus = 1
  SinkDepth = 0
  TurnTicks = 0
SPECIFICATION FairSpec
INVARIANT InOrder
INVARIANT NothingLost
PROPERTY SilentOnceEnded
PROPERTY BufferingEnds
