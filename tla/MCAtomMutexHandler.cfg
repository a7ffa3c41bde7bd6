CONSTANTS
    a = a
    h = h
    idle = idle
    Null = Null
    Threads <- MCThreads
    Prio <- MCPrio
    Idle = idle
    Irqs = {"irq"}
    Mortal = {}
    AppTimers = {}
    Ticks = {1}
    TickMod = 1
    NewTimes = {}
    Mutexes = {m1}
    MaxCount = 2
    HandlersPut = TRUE
    CallbacksDelete = FALSE
SPECIFICATION MutexSpec
PROPERTIES
    OwnerOnly
