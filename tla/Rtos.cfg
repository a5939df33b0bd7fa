SPECIFICATION Spec
CONSTANTS
    A = A
    B = B
    C = C
    Daemon = Daemon
    Idle = Idle
    Task = {A, B, C, Daemon, Idle}
    configMAX_PRIORITIES = 5
    Ticks = 8
    Overflows = 2
    Object = {"q", "m", "g", "xTimerQueue"}
    NULL = NULL
    Program = {"queue", "full", "mutex", "recursive", "events", "sync", "stream", "interrupt",
               "message", "letter", "report", "short", "control", "notify", "create", "timer", "command", "blink"}
    App <- MCApp
    StackUnits = 2
    TcbUnits = 1
    Item = {0, 1, 2, 3, 4}
INVARIANTS
    TypeOK
    NoHalt
    ListsAgree
    RunsMostUrgent
    NoLostWakeup
    NobodyWaitsInVain
    Inheritance
    Rendezvous
    TimersOnTime
    HeapPartition
PROPERTIES
    QueuesNotEarly
    OnTime
    RingImplementsQueue
    MutexIsLock
    StreamInOrder
    EveryTaskProceeds
