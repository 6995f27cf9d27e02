SPECIFICATION FsSpec
CONSTANTS
    blk_st = 1
    blk_ed = 9
    ext_size = 2
    Ext_Node_Half_Degree = 3
    MaxId = 3
    File = {f1, f2}
    InPlace = FALSE
    NoFile = NoFile
    Null = Null
INVARIANT FilesAreDisjoint
