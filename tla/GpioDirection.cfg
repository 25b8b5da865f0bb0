SPECIFICATION Spec
CONSTANT Pins = {p1, p2}
INVARIANT DirectionKept
