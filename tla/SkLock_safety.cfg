\* Two tasks, two nesting handlers, two locks; CLREX as in the code.  Polite
\* clients: two tasks that spin for one lock, one handler that tries it.
SPECIFICATION MCSpec
CONSTANTS
    Tasks = {t1, t2}
    Isrs = {i1, i2}
    urgent = {i2}
    Priority <- MCPriority
    Locks = {l1, l2}
    FewIsrs = {i1}
    FewLocks = {l1}
    NoLock = NoLock
    Nobody = Nobody
    UseClrex = TRUE
INVARIANTS TypeOK MutualExclusion LockWordAgrees Reservation
PROPERTIES AbstractLockSpec Progress
