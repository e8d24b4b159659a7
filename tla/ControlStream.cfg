SPECIFICATION Spec
CONSTANTS
  Requests <- AllRequests
  Probes <- TwoProbes
  Headers <- SomeHeaders
  MaxRequests = 2
  MinHeader = 2
  Capacity = 4
INVARIANTS Delivered HeaderExact NoLineWaits
CHECK_DEADLOCK FALSE
