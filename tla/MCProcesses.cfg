SPECIFICATION Spec
CONSTANTS
  File = {f, g, h}
  Mode = {"r", "w"}
  Pid = {p, q, r}
  Limit = 5
SYMMETRY Symmetry
INVARIANTS
  HandlesOwned
  ModeIsAsked
  StackBounded
\* The last program ends and TOS with it.
CHECK_DEADLOCK FALSE
