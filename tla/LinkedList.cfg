CONSTANTS
    Keys = {k1, k2, k3, k4}
    NULL = NULL
    Span = 3
SPECIFICATION Spec
INVARIANTS WellFormed AheadOfCursor BehindCursor
PROPERTY Implements
