SPECIFICATION Spec
CONSTANTS
  Sizes <- Boundaries
INVARIANTS PacketsFillBuffer ContinuityKept UnitArrivesWhole
