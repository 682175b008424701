\* Five days in which the clocks go forward once.
CONSTANTS
  sarah = sarah
  tom = tom
  ann = ann
  empty = empty
  LastDay = 4
  Midnight <- SpringCalendar
  Connections = {sarah, tom, ann, empty}
  Unreadable = {empty}
  WithPhone = {sarah, tom, empty}
  Events = {1, 2, 3, 4, 5}
  Of <- EventConnection
  Birthdays = {2, 3, 5}
  At <- EventHour
  NoEvent = NoEvent
  MaxRuns = 1
SPECIFICATION Spec
INVARIANTS
  OnTheRightDay
\* On the last day the check has run as often as it may.
CHECK_DEADLOCK FALSE
