CONSTANTS
    a = a
    h = h
    idle = idle
    Null = Null
    Threads <- MCThreads
    Prio <- MCPrio
    Idle = idle
    Irqs = {"irq", "fast"}
    Mortal = {}
    Urgency <- MCUrgency
SPECIFICATION CortexSpec
INVARIANTS
    ContextsSound
    NestedPlacement
    HighestPriorityOnCpu
PROPERTIES
    HighestGetsCpu
