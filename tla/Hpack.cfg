SPECIFICATION Spec
CONSTANTS
    Static <- MCStatic
    Path = ":path"
    Fields <- MCFields
    Length <- MCLength
    Garbled = "garbled"
    HeaderTableSizes = {2000, 4096, 6000}
    UpdateSizes = {0, 2000, 4096}
    Clients <- MCClients
    MaxBlock = 2
    MaxSent = 3
    MaxTable = 3
INVARIANTS
    FieldsAsSent
    LegalBlocksAccepted
CHECK_DEADLOCK FALSE
