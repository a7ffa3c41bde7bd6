CONSTANTS
    a = a
    h = h
    idle = idle
    Null = Null
    Threads <- MCThreads
    Prio <- MCPrio
    Idle = idle
    Irqs = {"irq"}
    Mortal = {a, h}
    AppTimers = {tm1}
    Ticks = {1, 2}
    TickMod = 3
    NewTimes = {0}
SPECIFICATION LinksSpec
INVARIANTS
    TimerPlacement
    TimerListsSound
    LinksAsListed
PROPERTIES
    FiresOnTime
