\* The bounded operations and confirmations run out: no successor is left.
SPECIFICATION Spec
CHECK_DEADLOCK FALSE
INVARIANTS
  OneOpPerConfirmation
  FreshReviewWasExecuted
  NothingUndone
PROPERTIES
  NoSecondRegistration
  NoticesHold
SYMMETRY Alike
CONSTANTS
  Buildings = {quarry, timber}
  Drafts = {d1}
  FirstDraft = d1
  MaxOps = 2
  MaxConfirms = 2
  MaxAdapters = 2
  MaxRegistrations = 3
  Tab = {t1, t2}
  Slot = {0, 1}
  MaxTime = 1
  None = None
