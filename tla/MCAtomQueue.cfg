CONSTANTS
    a = a
    h = h
    idle = idle
    Null = Null
    Threads <- MCThreads
    Prio <- MCPrio
    Idle = idle
    Irqs = {"irq"}
    Mortal = {}
    AppTimers = {}
    Ticks = {1}
    TickMod = 1
    NewTimes = {}
    Msgs = {x, y}
    MaxMsgs = 2
    NumMod = 4
    Uses <- MCUses
    CallbacksWake = FALSE
SPECIFICATION QueueSpec
INVARIANTS
    QueuePlacement
    TimeoutsSound
    WokenFindsWork
    NobodyWaitsInVain
PROPERTIES
    ImplementsMessageQueue
