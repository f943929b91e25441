CONSTANTS
    Images <- MCImages
    Layouts <- MCLayouts
    Paths <- MCPaths
    Counts <- MCCounts
    Rests <- MCRests
    WORD64 = 4096
    NDIRECT = 2
    NPOINTERS = 2
    DISK_SECTOR_SIZE = 4
    KB = 8
    DEVICE_START = 16
    WORD = 1024
    HEAP_MINBLOCK = 128
    HEAP_LEVELS = 2
    MAX_FILE_DESC = 2
    Procs = {p1, p2}
SPECIFICATION FdSpec
SYMMETRY Symmetry
INVARIANTS LookupSound DescriptorNamesFile ReadDelivers BufferFits AddressesExact
