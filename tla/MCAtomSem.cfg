CONSTANTS
    a = a
    h = h
    idle = idle
    Null = Null
    Threads <- MCThreads
    Prio <- MCPrio
    Idle = idle
    Irqs = {"irq"}
    Mortal = {a}
    AppTimers = {}
    Ticks = {1}
    TickMod = 1
    NewTimes = {}
    Sems = {s1}
    MaxCount = 2
    InitCounts = {0}
    ResetCounts = {0, 1}
    CallbacksWake = FALSE
SPECIFICATION FairSemSpec
INVARIANTS
    SemPlacement
    TimeoutsSound
    HighestPriorityWithSems
PROPERTIES
    OutcomeIsFinal
    ImplementsSemaphore
    TimedWaitEnds
