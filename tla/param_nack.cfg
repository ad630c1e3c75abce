\* The EEPROM may leave a byte unacknowledged, in a read or in a page write.
SPECIFICATION ParSpec
CONSTANTS
    Addrs = {10, 11}
    Servers = {20, 21}
    PortArgs = {50000}
    DefAddr = 10
    DefServer = 20
    Junk = {33}
    Faults = {"nack_read", "nack_write"}
    Null = Null
INVARIANT MemoryMatchesStore
