CONSTANTS
  Proposal = {p1}
  Thread = {q1, q2, q3}
  Nil = Nil
SPECIFICATION FairSpec
INVARIANTS TypeOK RecordedOnce RejectedStaysOut ConfirmedIsRecorded
PROPERTIES ClosedForGood BusyEnds
CHECK_DEADLOCK FALSE
