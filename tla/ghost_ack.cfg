\* What the renderer is told to draw and no longer holds: an acknowledgment of
\* a delivery withdrawn and made again.
SPECIFICATION Spec
CONSTANTS
  Resource = {r1}
  Policies = {"Interactive"}
  MaxLooks = 6
  MaxEpochs = 0
  MaxFaults = 0
  MaxSqueezes = 1
INVARIANT DrawnIsHeld
CHECK_DEADLOCK FALSE
