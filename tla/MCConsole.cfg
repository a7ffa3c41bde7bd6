CONSTANTS
    console = console
    app = app
    Threads = {console, app}
    NoByte = "nobyte"
    Space = " "
    Return = "cr"
    NewLine = "text"
    Prompt = "text"
    Report = "text"
    Arriving <- MCArriving
    Leaving <- MCLeaving
    AppMessages <- MCAppMessages
    Commands <- MCCommands
    RxSize = 2
    TxSize = 3
    TmpSize = 2
    Builds = {TRUE, FALSE}
    MaxLine = 2
SPECIFICATION FairSpec
INVARIANTS
    CommandsAsTyped
PROPERTIES
    TxDrains
    ImplementsStreams
