SPECIFICATION StatusSpec
INVARIANT DeadlineKept
CONSTANTS
  Caller = {c1}
  Changing = {"implementation"}
  MaxChanges = 1
  Ttl = 2
  Timeout = 1
  Horizon = 4
