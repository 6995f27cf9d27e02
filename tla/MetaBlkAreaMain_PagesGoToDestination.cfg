SPECIFICATION MainSpec
CONSTANTS
    data_blk_nr = 4
    npages = 3
    obj_nr_per_page = 1
    nat_max_length = 9
    test_size = 8
    Value = {v1}
    Null = Null
    Zeroed = Zeroed
    Junk = Junk
    v1 = v1
    MaxDead = 8
PROPERTY PagesGoToDestination
CHECK_DEADLOCK FALSE
