CONSTANTS
  minute = minute
  hour = hour
  Ticks = Ticks
  Intervals <- OneInterval
  Recorded <- MinutesAndTicks
  DayLength = 2
  MonthStart <- Calendar
  LastMonth = 2
  ArchiveFrom = 1
  Retention = 2
  MaxLag = 1
  Nights <- Middays
  Pins <- FirstDayPinned
  MaxTime = 7
SPECIFICATION FairSpec
INVARIANT ArchivedIsGone
PROPERTIES OnlyRegisteredIsLost EventuallyCold
