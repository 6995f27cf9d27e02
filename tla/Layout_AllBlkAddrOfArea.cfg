SPECIFICATION SbSpec
CONSTANTS
    Geometry <- Small
    Unset = Unset
    OCSSD_REFORMAT_SSD = {0, 1}
    MaxVersion = 1
    Closed = Closed
    Lost = Lost
INVARIANT AllBlkAddrOfArea
