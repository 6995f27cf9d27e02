\* Over MetaBlkArea, which returns copies.
SPECIFICATION Spec
CONSTANTS
    MaxId = 4
    Fhash = {1, 2, 3, 4}
    Mobj = {m1}
    Dir_Node_Half_Degree = 1
    InPlace = FALSE
    NoFile = NoFile
    Null = Null
    m1 = m1
INVARIANT SplitsAreWritten
CHECK_DEADLOCK FALSE
