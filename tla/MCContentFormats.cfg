SPECIFICATION Spec
CONSTANTS
  j1 = j1
  j2 = j2
  Job = {j1, j2}
  Machines <- MCMachines
  Options <- MCOptions
  Offers <- MCOffers
  MaxCopies = 1
SYMMETRY Symmetry
CONSTRAINT Undisturbed
INVARIANTS
  EveryFormat
CHECK_DEADLOCK FALSE
