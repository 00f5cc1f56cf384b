SPECIFICATION Spec
CONSTANTS
    Capacity = 4
    Modulus = 8
    Sample = {0, 1, 2}
    Zero = 0
    Batches <- MCBatches
    Requests <- MCRequests
INVARIANTS
    TypeOK
    NoOverrun
    NoSlotConflict
    CopiedOk
PROPERTY
    FifoQueue
