\* Two inputs, one client that may retry, one revert; every schedule of wakes.
CONSTANTS
  Session = session
  NoRow = NoRow
  Client = {c1}
  Request <- TwoPrompts
  MaxSteps = 2
  MaxReverts = 1
  MaxCrashes = 0
SPECIFICATION Spec
PROPERTIES
  WokenInputIsPromoted
