\* The application in which a task has not room for a message.
SPECIFICATION Spec
CONSTANTS
    A = A
    B = B
    C = C
    Daemon = Daemon
    Idle = Idle
    Task = {A, B, C, Daemon, Idle}
    configMAX_PRIORITIES = 5
    Ticks = 8
    Overflows = 2
    Object = {"q", "m", "g", "xTimerQueue"}
    NULL = NULL
    Program = {"short"}
    App <- MCApp
    StackUnits = 2
    TcbUnits = 1
    Item = {0, 1, 2, 3, 4}
PROPERTY LongMessageStays
