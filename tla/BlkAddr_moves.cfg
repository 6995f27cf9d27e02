SPECIFICATION Spec
CONSTANTS
    nchannels = 2
    nblocks = 3
    nplanes = 2
    nluns = 3
    Holder = {st, ed}
INVARIANTS
    OrderAndDistance
    EraseWalk
    MovesAreLinear
