\* Three publications and two edits; bundles of two components, a variable and two groups;
\* two accounts of two payees, two judgements by an officer, two bank files.
CONSTANTS
  p1 = p1  p2 = p2
  Publishers = {p1, p2}
  MaxDay = 2
  MaxEdits = 2
  MaxVersions = 3
  Names <- MCNames
  Setups <- MCSetups
  Sorted <- MCSorted
  Payees = {"e1", "e2"}
  Starts = {1, 2, 3}
  PeriodEnd = 2
  Branches = {"u"}
  Ifsc = {"i1", "i2"}
  Malformed = "?"
  Officers = {"o1"}
  MaxAdded = 2
  MaxVerdicts = 2
  MaxFilings = 2
  MaxRecoded = 1
SYMMETRY Symmetry
SPECIFICATION MCSpec
CHECK_DEADLOCK FALSE
INVARIANTS OneVersionInForce PaidAsDefined  CalculatorsAgree FilesAgree
PROPERTIES PastKept EditsStayOut 
