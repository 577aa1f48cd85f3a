\* Clears while interrupts go on.  Wrap is larger than Size, as 2^16 is larger
\* than 256.
CONSTANTS
  Size = 4
  Wrap = 16
  Bytes = {b1, b2}
  MaxClears = 2
SPECIFICATION Spec
INVARIANT PopsOnlyFilled
PROPERTY ImplementsFifo
