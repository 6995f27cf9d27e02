SPECIFICATION MCSpec
CONSTANTS
    blk_st = 1
    blk_ed = 14
    ext_size = 2
    Ext_Node_Half_Degree = 2
    MaxId = 4
    File = {f1, f2}
    InPlace = TRUE
    NoFile = NoFile
    Null = Null
SYMMETRY FileSymmetry
INVARIANT FilesAreDisjoint
CHECK_DEADLOCK FALSE
