\* One block of two pages of two objects; two ids.
SPECIFICATION Spec
CONSTANTS
    data_blk_nr = 1
    npages = 2
    obj_nr_per_page = 2
    nat_max_length = 3
    Value = {v1}
    Null = Null
    Zeroed = Zeroed
    Junk = Junk
    v1 = v1
    MaxDead = 5
INVARIANT
    StillInBuf
