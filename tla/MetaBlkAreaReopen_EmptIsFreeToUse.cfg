\* One block of two pages of two objects; one id.
SPECIFICATION ReopenSpec
CONSTANTS
    data_blk_nr = 1
    npages = 2
    obj_nr_per_page = 2
    nat_max_length = 2
    Value = {v1}
    Null = Null
    Zeroed = Zeroed
    Junk = Junk
    v1 = v1
    MaxDead = 1
INVARIANT
    EmptIsFreeToUse
CHECK_DEADLOCK FALSE
