SPECIFICATION Spec
CONSTANTS
  n1 = n1
  n2 = n2
  Names = {n1, n2}
  Limits = {"macos", "total"}
  Max <- MCMax
  Asked <- MCAsked
  Guests <- MCGuests
  MaxExternal = 1
  MaxFailures = 1
INVARIANTS TypeOK HostWithinLimits 
PROPERTIES GoneWhenDestroyReturns SlotsKept
CHECK_DEADLOCK FALSE
SYMMETRY Symmetry
