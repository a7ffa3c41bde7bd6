CONSTANTS
    a = a
    h = h
    idle = idle
    Null = Null
    Threads <- MCThreads
    Prio <- MCPrio
    Idle = idle
    Irqs = {"irq"}
    Mortal = {a}
    AppTimers = {}
    Ticks = {1}
    TickMod = 1
    NewTimes = {}
    Mutexes = {m1, m2}
    MaxCount = 2
    HandlersPut = FALSE
    CallbacksDelete = FALSE
SPECIFICATION MutexSpec
INVARIANTS
    MutexPlacement
    TimeoutsSound
    OwnershipSound
PROPERTIES
    OwnerOnly
    ImplementsMutex
