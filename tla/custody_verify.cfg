\* Logs of up to three entries with a torn line, then every pair of changes to them.
SPECIFICATION Spec
CONSTANTS
  MaxEntries = 3
  MaxTears = 1
  MaxUnsigned = 1
  MaxAnchors = 2
  MaxChanges = 2
INVARIANTS
  UntouchedVerifies
  
  OneChangeIsLocated
  AnchorsExposeTruncation
CHECK_DEADLOCK FALSE
