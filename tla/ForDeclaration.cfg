\* for (int i = 0; ...): a declaration with an initialiser.
SPECIFICATION Spec
CONSTANTS
  Programs <- Declaring
  MaxCtrl = 3
  MaxCases = 2
  Values = {0, 1, 2, 3}
INVARIANT SameBehaviour
