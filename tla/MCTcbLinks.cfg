CONSTANTS
    a = a
    b = b
    h = h
    l = l
    Null = Null
    Threads <- MCThreads
    Prio <- MCPrio
    Queues = {ready, susp}
SPECIFICATION TcbSpec
INVARIANTS
    LinksSound
PROPERTIES
    ImplementsLists
