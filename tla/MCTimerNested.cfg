CONSTANTS
    LinkedTimers = {tm1, tm2}
    Nil = Nil
    Ticks = {1, 2}
SPECIFICATION NestedSpec
INVARIANTS
    ListHoldsRegistered
