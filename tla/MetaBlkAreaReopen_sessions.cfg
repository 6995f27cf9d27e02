\* Two blocks of two pages of two objects; two ids.
SPECIFICATION ReopenSpec
CONSTANTS
    data_blk_nr = 2
    npages = 2
    obj_nr_per_page = 2
    nat_max_length = 3
    Value = {v1}
    Null = Null
    Zeroed = Zeroed
    Junk = Junk
    v1 = v1
    MaxDead = 1
INVARIANTS
    NatSlotsTaken
PROPERTIES
    ImplementsDurableStore
CHECK_DEADLOCK FALSE
