CONSTANTS
  Stable = 2
  Window = 8
  Hold = 7
  MaxClicks = 2
  Modulus = 12
  MaxGap = 3
  Neutral = neutral
  Expressions = {neutral, happy}
  ClockRange = 10
  NoticeTime = 3
  GuideTime = 2
  MaxLate = 2
  Values = {a, b, c, d}
  Unset = Unset
  Unusable = Unusable
SPECIFICATION DeviceSpec
INVARIANT OnTime
INVARIANT ReportedOnce
INVARIANT HeldAtStartIsSilent
INVARIANT NoticeIsTimed
INVARIANT TurnLeavesNoFace
INVARIANT FaceIsReported
INVARIANT ReplyIsDurable
INVARIANT CopyIsWhole
