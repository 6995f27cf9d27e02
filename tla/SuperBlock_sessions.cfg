SPECIFICATION SbSpec
CONSTANTS
    Geometry <- Devices
    Unset = Unset
    OCSSD_REFORMAT_SSD = {0, 1}
    MaxVersion = 1
    Closed = Closed
    Lost = Lost
INVARIANTS
    LayoutIsSound
    NatsHaveRoom
    FormattedAreasAreBlank
PROPERTY KeepsNats
