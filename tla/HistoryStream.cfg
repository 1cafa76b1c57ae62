CONSTANTS
  Width = 16
  Inputs <- MCInputs
  MaxAddress = 47
SPECIFICATION Spec
INVARIANTS TypeOK StaysInObject ReadsBack EofMeansMissing Compact
PROPERTIES EveryObjectTravels
CHECK_DEADLOCK FALSE
