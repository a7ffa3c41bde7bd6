CONSTANTS
    a = a
    b = b
    h = h
    z = z
    idle = idle
    Null = Null
    Threads <- MCThreads
    Prio <- MCPrio
    Idle = idle
    Irqs = {"irq"}
    Mortal = {a, b, h, z}
SPECIFICATION FairKernelSpec
INVARIANTS
    KernelTypeOK
    KernelPlacement
    CurrNeverNull
    ReadyQueueOrdered
    HighestPriorityRuns
PROPERTIES
    TimeSliceOnlyOnTick
    ReadyFifo
    RoundRobin
