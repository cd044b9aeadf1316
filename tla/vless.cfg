SPECIFICATION VlessSpec
CONSTANTS
    Servers <- MCServers
    MaxRecord = 12
    HandshakeRead = 11
    CompactAt = 3
    MaxIterations = 5
    MaxPlain = 2
    Overhead = 1
    MaxBytes = 3
    FilterCount = 3
    MaxPayload = 20
    Dialogues <- MCDialogues
    MaxWrite = 6
    MaxRead = 3
    Rooms <- MCRooms
    Paddings <- MCPaddings
INVARIANTS   StreamFaithful WriteLossless ReadFaithful
