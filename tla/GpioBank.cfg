SPECIFICATION QuietSpec
CONSTANT Pins = {p1, p2}
SYMMETRY Symmetry
VIEW View
CONSTRAINT FewLevels
INVARIANT NoSpurious
PROPERTY ImplementsPins
