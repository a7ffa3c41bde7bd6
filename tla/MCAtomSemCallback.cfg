CONSTANTS
    a = a
    h = h
    idle = idle
    Null = Null
    Threads <- MCThreads
    Prio <- MCPrio
    Idle = idle
    Irqs = {"irq"}
    Mortal = {}
    AppTimers = {tm1}
    Ticks = {1}
    TickMod = 1
    NewTimes = {}
    Sems = {s1}
    MaxCount = 2
    InitCounts = {0, 1}
    ResetCounts = {}
    CallbacksWake = TRUE
SPECIFICATION SemSpec
PROPERTIES
    OutcomeIsFinal
