SPECIFICATION AnswersOnly
CONSTANTS
  t1 = t1
  t2 = t2
  Turns = {t1, t2}
  SmallTalk = {t2}
  Trigger = 1
  Keep = 1
  MaxSteps = 1
INVARIANT AnsweredOnce
CHECK_DEADLOCK FALSE
