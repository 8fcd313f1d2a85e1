CONSTANT
    PhysSize = 65536
    MaxUses = 2
    UseCounts <- MCUseCounts
SPECIFICATION VregSpec
INVARIANTS
    VregTypeOK
    OneSlotEach
    FilledFromTop
    MostUsedMapped
PROPERTY
    EndsInOrder
CHECK_DEADLOCK FALSE
