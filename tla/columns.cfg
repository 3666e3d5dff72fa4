CONSTANTS
  Word = 6
  HalfWord = 4
  Mantissa = 15
  DayNanos = 40
  MonthStarts <- MCMonthStarts
  NullText = 110
  Spelling <- MCSpelling
  KeyStep = 2
  Saturates = FALSE
  Tasks <- MCTasks
SPECIFICATION Spec
INVARIANTS
  ElementsAsDefined
  TypeTold
  FramesAsDefined
  WindowsAsDefined
CHECK_DEADLOCK FALSE
