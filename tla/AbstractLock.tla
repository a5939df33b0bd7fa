---------------------------- MODULE AbstractLock ----------------------------
(***************************************************************************)
(* What sk_lock_t promises its callers: each lock has at most one holder,   *)
(* it is granted only while nobody holds it, and it becomes free only when  *)
(* its holder lets it go.  Nothing here says how the byte is updated.       *)
(***************************************************************************)

CONSTANTS
    Ctx,      \* the execution contexts: threads and interrupt handlers
    Locks,    \* the sk_lock_t objects of the program
    Nobody    \* the holder of a free lock

VARIABLE holder

Init == holder = [l \in Locks |-> Nobody]

Acquire(c, l) ==
    /\ holder[l] = Nobody
    /\ holder' = [holder EXCEPT ![l] = c]

Release(c, l) ==
    /\ holder[l] = c
    /\ holder' = [holder EXCEPT ![l] = Nobody]

Next == \E c \in Ctx, l \in Locks : Acquire(c, l) \/ Release(c, l)

Spec == Init /\ [][Next]_holder

=============================================================================
