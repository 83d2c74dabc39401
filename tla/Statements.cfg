\* A control stack of three frames, a switch table of two cases.
SPECIFICATION Spec
CONSTANTS
  Programs <- Ordinary
  MaxCtrl = 3
  MaxCases = 2
  Values = {0, 1, 2, 3}
INVARIANTS TypeOK  RejectedForCause ReturnsWhenGuaranteed
 
