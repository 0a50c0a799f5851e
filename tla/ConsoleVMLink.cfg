SPECIFICATION Spec
CONSTANTS
  Initial <- MCInitial
  MaxEvents = 0
INVARIANT VMLinkArrives
