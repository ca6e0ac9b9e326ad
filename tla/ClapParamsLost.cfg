\* One parameter driven by the chain alone.
CONSTANTS
  Params = {p1}
  Values = {v1, v2}
  Slots = 0
SPECIFICATION Spec
INVARIANT AcceptedIsDelivered
