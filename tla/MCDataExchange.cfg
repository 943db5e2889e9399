\* Two outputs, limits 0 and 1, requests on both sides of them.
CONSTANTS
  Outputs = {1, 2}
  Requested <- RequestedValues
  Inputs = {3}
  Measurements = {m1, m2}
  min = 0
  max = 1
  Unmeasured = Unmeasured
  Garbage = Garbage
  None = None

SPECIFICATION Spec

INVARIANTS ExchangeInv OnlyRequestedValuesSent ReportedValueWasSet AnswersAreCurrent
PROPERTY RetriedUntilConfirmed
