CONSTANTS
    a = a
    h = h
    idle = idle
    Null = Null
    Threads <- MCThreads
    Prio <- MCPrio
    Idle = idle
    Irqs = {}
    Mortal = {}
    AppTimers = {}
    Ticks = {1}
    TickMod = 1
    NewTimes = {}
    Msgs = {x}
    MaxMsgs = 2
    NumMod = 4
    Uses <- MCTwoGetters
    CallbacksWake = FALSE
SPECIFICATION QueueSpec
INVARIANTS
    WokenFindsWork
