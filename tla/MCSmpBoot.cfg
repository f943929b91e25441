CONSTANTS
    Tables <- MCTables
    BSP = 0
    NULL = NULL
    MaxLost = 1
SPECIFICATION Spec
INVARIANTS CpuTableExact StacksPrivate
PROPERTIES BootFinishes
CHECK_DEADLOCK FALSE
