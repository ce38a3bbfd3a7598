CONSTANTS
  minute = minute
  hour = hour
  Ticks = Ticks
  Intervals <- OneInterval
  Recorded <- Minutes
  DayLength = 2
  MonthStart <- Calendar
  LastMonth = 2
  ArchiveFrom = 0
  Retention = 2
  MaxLag = 0
  Nights <- Middays
  Pins <- NoPins
  MaxTime = 7
SPECIFICATION Spec
PROPERTIES NeverLost
