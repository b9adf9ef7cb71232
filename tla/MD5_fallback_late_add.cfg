SPECIFICATION Spec
CONSTANTS
  Byte = {{0}, {1, 2}}
  MaxLen = 3
INVARIANT AddAfterFinalizeIsIgnored
