\* Nodes of one to three entries, trees of up to three levels.
SPECIFICATION Spec
CONSTANTS
    MaxId = 8
    Fhash = {1, 2, 3, 4, 5, 6, 7, 8, 9}
    Mobj = {m1}
    Dir_Node_Half_Degree = 1
    InPlace = TRUE
    NoFile = NoFile
    Null = Null
    m1 = m1
INVARIANTS
    FindsTheFiles
    WellFormed
    NoNodeLost
    CallsHaveRoom
PROPERTIES
    ImplementsDirectory
    CallsGoDown
