\* The server has room for two more descriptors, three clients connect and
\* keep their connections, and one io thread serves one file meanwhile.
CONSTANTS
    FdSlots = 2
    Clients = 3
    Readers = {r1}
    Reads = 1
SPECIFICATION Spec
PROPERTY NoAcceptSpin
CHECK_DEADLOCK FALSE
