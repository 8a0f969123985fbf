CONSTANTS
  Second = 10
  WaitSec = 1
  WaitNsec = 5
  Width = 64
  Rate = 3
  Points = {1, 2, 3}
  MaxTime = 45
  MaxTotal = 12
SPECIFICATION Spec
INVARIANTS DeadlineExact ScheduleMatches TruncationBounded
PROPERTIES RowsEvenlySpaced
CHECK_DEADLOCK FALSE
