CONSTANTS
  Width = 16
  Inputs <- MCInputs
  MaxAddress = 47
SPECIFICATION Spec

PROPERTIES EveryReadEnds
CHECK_DEADLOCK FALSE
