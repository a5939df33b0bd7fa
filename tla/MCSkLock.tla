------------------------------ MODULE MCSkLock ------------------------------
(* Instances of SkLock for TLC, and the fair clients its liveness needs.    *)
EXTENDS SkLock

CONSTANTS
    urgent,             \* the handlers of the lower priority number
    FewIsrs, FewLocks   \* what polite clients use

VARIABLE polite         \* the clients of this behaviour are polite, or any

MCPriority == [i \in Isrs |-> IF i \in urgent THEN 0 ELSE 1]

(***************************************************************************)
(* Progress needs three things that sync.c leaves to its callers: handlers  *)
(* never spin and release before they return, a thread spins only while it  *)
(* holds nothing, and a holder unlocks in the end.                          *)
(***************************************************************************)
Polite ==
    /\ \A c \in Ctx :
          /\ spin'[c] => c \in Tasks
          /\ spin'[c] => held'[c] = {}
          /\ c \in Isrs /\ c \notin active' => held'[c] = {}
          /\ want'[c] \in FewLocks \cup {NoLock}
    /\ active' \subseteq FewIsrs

MCInit == Init /\ polite \in BOOLEAN
MCNext == Next /\ (polite => Polite) /\ UNCHANGED polite

(***************************************************************************)
(* The core executes the running context between exceptions, the kernel     *)
(* schedules every thread again and again, handlers return and holders      *)
(* unlock.  Interrupts come at a finite rate, so the few instructions from  *)
(* LDREXB to STREXB are not interrupted at every attempt: strong fairness   *)
(* of StrexOk.  None of it favours one context over another.                *)
(***************************************************************************)
Fairness ==
    /\ \A c \in Ctx : SF_vars(polite /\ (Ldrex(c) \/ Clrex(c) \/ StrexFail(c)) /\ Polite)
    /\ SF_vars(polite /\ (\E c \in Ctx : StrexOk(c)) /\ Polite)
    /\ SF_vars(polite /\ (\E c \in Ctx, l \in Locks : Unlock(c, l)) /\ Polite)
    /\ SF_vars(polite /\ (\E i \in Isrs : IsrReturn(i)) /\ Polite)
    /\ \A t \in Tasks : SF_vars(polite /\ Switch(t) /\ Polite)

MCSpec == MCInit /\ [][MCNext]_<<vars, polite>> /\ Fairness

Wanted(l) == \E c \in Ctx : spin[c] /\ want[c] = l

\* While some sk_lock_spinlock (sync.c:51) goes on, its lock is captured and
\* released again and again: nobody spins for ever on a lock that stays free
\* (however handlers break up the LDREXB/STREXB pairs) or on one that stays
\* captured.  Which of the competitors wins is not promised.
Progress ==
    polite => \A l \in Locks :
        /\ []<>(Wanted(l) => lock[l] = LOCKED)
        /\ []<>(Wanted(l) => lock[l] = UNLOCKED)

=============================================================================
