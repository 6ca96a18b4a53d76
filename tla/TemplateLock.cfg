SPECIFICATION Spec
CONSTANTS
    Process = {p0, p1}
    MaxHeight = 1
    MaxStray = 1
SYMMETRY
    Symmetry
INVARIANTS
    TypeOK
PROPERTIES
    ImplementsSource
    NewestRowKept
