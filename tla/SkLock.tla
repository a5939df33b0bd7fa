------------------------------- MODULE SkLock -------------------------------
(***************************************************************************)
(* The lock primitives of src/src/sync.c on the single core of the STM32F4. *)
(*                                                                         *)
(* Threads (main, or the tasks of a preemptive kernel) and interrupt        *)
(* handlers share lock bytes.  One LDREXB or STREXB is one step, and        *)
(* between any two of them an exception may be taken.  The core has ONE     *)
(* exclusive monitor, which does not remember the address it was set for    *)
(* and which every exception entry and exit leaves open.                    *)
(*                                                                         *)
(* The DMB instructions order the accesses of one core with respect to      *)
(* other bus masters; the steps of this model are already in order.         *)
(***************************************************************************)
EXTENDS Naturals

CONSTANTS
    Tasks,      \* contexts of thread mode
    Isrs,       \* interrupt handlers
    Priority,   \* NVIC priority of each handler: a smaller number preempts
    Locks,      \* sk_lock_t objects
    NoLock,     \* no call in progress
    Nobody,     \* the holder of a free lock
    UseClrex    \* the failure path executes CLREX, as the code does

Ctx == Tasks \cup Isrs

ASSUME ContextAssumption  == Tasks # {} /\ Tasks \cap Isrs = {}
ASSUME PriorityAssumption == Priority \in [Isrs -> Nat]
ASSUME NoLockAssumption   == NoLock \notin Locks
ASSUME NobodyAssumption   == Nobody \notin Ctx
ASSUME ClrexAssumption    == UseClrex \in BOOLEAN

UNLOCKED == 0             \* __SK_LOCK_UNLOCKED
LOCKED_Complement == 255  \* ~ in place of !
LOCKED   == 1             \* __SK_LOCK_LOCKED, !UNLOCKED

VARIABLES
    lock,      \* the lock bytes
    monitor,   \* the exclusive monitor of the core: "open" or "exclusive"
    task,      \* the task that thread mode executes
    active,    \* the handlers entered and not yet returned from
    pc,        \* where each context is in sk_lock_trylock ("idle": outside)
    want,      \* the lock its call is about, NoLock outside a call
    spin,      \* its call was sk_lock_spinlock
    held       \* the locks a call has returned true for, not yet unlocked

machine == <<task, active>>
calls   == <<pc, want, spin>>
vars    == <<lock, monitor, task, active, pc, want, spin, held>>

-----------------------------------------------------------------------------
(* The processor. *)

\* The one context that executes: the most urgent active handler, else the task.
Running(c) ==
    \/ active = {} /\ c = task
    \/ c \in active /\ \A i \in active : Priority[c] <= Priority[i]

\* A handler preempts only what is strictly less urgent.
MayEnter(i) == i \notin active /\ \A j \in active : Priority[i] < Priority[j]

IsrEnter(i) ==
    /\ MayEnter(i)
    /\ active' = active \cup {i}
    /\ monitor' = "open"
    /\ UNCHANGED <<lock, task, calls, held>>

IsrReturn(i) ==
    /\ i \in active /\ Running(i)
    /\ pc[i] = "idle"
    /\ active' = active \ {i}
    /\ monitor' = "open"
    /\ UNCHANGED <<lock, task, calls, held>>

\* A context switch is itself an exception (PendSV), the least urgent one.
Switch(t) ==
    /\ active = {}
    /\ t # task
    /\ task' = t
    /\ monitor' = "open"
    /\ UNCHANGED <<lock, active, calls, held>>

-----------------------------------------------------------------------------
(* sk_lock_trylock, and sk_lock_spinlock as its repetition. *)

\* A call starts: s tells sk_lock_spinlock from sk_lock_trylock.
Call(c, l, s) ==
    /\ Running(c)
    /\ pc[c] = "idle"
    /\ pc'   = [pc EXCEPT ![c] = "ldrex"]
    /\ want' = [want EXCEPT ![c] = l]
    /\ spin' = [spin EXCEPT ![c] = s]
    /\ UNCHANGED <<lock, monitor, machine, held>>

\* The loaded value is not looked at.
Ldrex_Unchecked(c) ==
    /\ Running(c)
    /\ pc[c] = "ldrex"
    /\ monitor' = "exclusive"
    /\ pc' = [pc EXCEPT ![c] = "strex"]
    /\ UNCHANGED <<lock, machine, want, spin, held>>

\* LDREXB marks the byte and the branch looks at the value loaded.
Ldrex(c) ==
    /\ Running(c)
    /\ pc[c] = "ldrex"
    /\ monitor' = "exclusive"
    /\ pc' = [pc EXCEPT ![c] = IF lock[want[c]] = UNLOCKED THEN "strex" ELSE "clrex"]
    /\ UNCHANGED <<lock, machine, want, spin, held>>

\* The call is over and its result was passed on.
Return(c) ==
    /\ pc'   = [pc EXCEPT ![c] = "idle"]
    /\ want' = [want EXCEPT ![c] = NoLock]
    /\ spin' = [spin EXCEPT ![c] = FALSE]

\* The loop goes back to STREXB only.
ReturnFalse_StrexOnly(c) ==
    \/ /\ spin[c]
       /\ pc' = [pc EXCEPT ![c] = "strex"]
       /\ UNCHANGED <<want, spin>>
    \/ ~spin[c] /\ Return(c)

\* trylock returned false: the spin loop tries again, a plain call is over.
ReturnFalse(c) ==
    \/ /\ spin[c]
       /\ pc' = [pc EXCEPT ![c] = "ldrex"]
       /\ UNCHANGED <<want, spin>>
    \/ ~spin[c] /\ Return(c)

Clrex(c) ==
    /\ Running(c)
    /\ pc[c] = "clrex"
    /\ monitor' = IF UseClrex THEN "open" ELSE monitor
    /\ ReturnFalse(c)
    /\ UNCHANGED <<lock, machine, held>>

\* A plain STRB in place of STREXB.
StrexOk_PlainStore(c) ==
    /\ Running(c)
    /\ pc[c] = "strex"
    /\ monitor' = "open"
    /\ lock' = [lock EXCEPT ![want[c]] = LOCKED]
    /\ held' = [held EXCEPT ![c] = @ \cup {want[c]}]
    /\ Return(c)
    /\ UNCHANGED machine

\* STREXB stores LOCKED only while the monitor is still exclusive.
StrexOk(c) ==
    /\ Running(c)
    /\ pc[c] = "strex"
    /\ monitor = "exclusive"
    /\ monitor' = "open"
    /\ lock' = [lock EXCEPT ![want[c]] = LOCKED]
    /\ held' = [held EXCEPT ![c] = @ \cup {want[c]}]
    /\ Return(c)
    /\ UNCHANGED machine

\* The result of STREXB is not looked at.
StrexFail_Ignored(c) ==
    /\ Running(c)
    /\ pc[c] = "strex"
    /\ monitor = "open"
    /\ held' = [held EXCEPT ![c] = @ \cup {want[c]}]
    /\ Return(c)
    /\ UNCHANGED <<lock, monitor, machine>>

\* Any exception since LDREXB has opened the monitor: STREXB stores nothing.
StrexFail(c) ==
    /\ Running(c)
    /\ pc[c] = "strex"
    /\ monitor = "open"
    /\ ReturnFalse(c)
    /\ UNCHANGED <<lock, monitor, machine, held>>

-----------------------------------------------------------------------------
(* sk_lock_unlock: one byte store.  Its callers are those that hold the lock; *)
(* the function does not look.                                               *)

Unlock(c, l) ==
    /\ Running(c)
    /\ pc[c] = "idle"
    /\ l \in held[c]
    /\ lock' = [lock EXCEPT ![l] = UNLOCKED]
    /\ held' = [held EXCEPT ![c] = @ \ {l}]
    /\ UNCHANGED <<monitor, machine, calls>>

-----------------------------------------------------------------------------

Init ==
    /\ lock = [l \in Locks |-> UNLOCKED]
    /\ monitor = "open"
    /\ task \in Tasks
    /\ active = {}
    /\ pc   = [c \in Ctx |-> "idle"]
    /\ want = [c \in Ctx |-> NoLock]
    /\ spin = [c \in Ctx |-> FALSE]
    /\ held = [c \in Ctx |-> {}]

LockStep(c) ==
    \/ \E l \in Locks, s \in BOOLEAN : Call(c, l, s)
    \/ \E l \in Locks : Unlock(c, l)
    \/ Ldrex(c)
    \/ Clrex(c)
    \/ StrexOk(c)
    \/ StrexFail(c)

Next ==
    \/ \E c \in Ctx : LockStep(c)
    \/ \E i \in Isrs : IsrEnter(i) \/ IsrReturn(i)
    \/ \E t \in Tasks : Switch(t)

Spec == Init /\ [][Next]_vars

-----------------------------------------------------------------------------
(* Properties. *)

\* The values the variables range over: a lock byte is 0 or 1 (sync.h:12).
TypeOK ==
    /\ lock \in [Locks -> {0, 1}]
    /\ monitor \in {"open", "exclusive"}
    /\ task \in Tasks
    /\ active \subseteq Isrs
    /\ pc \in [Ctx -> {"idle", "ldrex", "clrex", "strex"}]
    /\ want \in [Ctx -> Locks \cup {NoLock}]
    /\ spin \in [Ctx -> BOOLEAN]
    /\ held \in [Ctx -> SUBSET Locks]

\* Two contexts never hold one lock at once, however exceptions and switches
\* fall between the LDREXB and the STREXB of sk_lock_trylock (sync.c:28, 39).
MutualExclusion == \A c, d \in Ctx : c # d => held[c] \cap held[d] = {}

\* The byte and the callers agree: a lock reads LOCKED exactly while some
\* caller holds it, so no capture is lost and no release is overwritten.
LockWordAgrees ==
    \A l \in Locks : lock[l] = LOCKED <=> \E c \in Ctx : l \in held[c]

\* A context inside a call has a lock to try, and only a context that can be
\* suspended in the middle is in a call: handlers that are not active are idle.
CallsAreLive ==
    \A c \in Ctx : /\ pc[c] # "idle" => want[c] \in Locks /\ (c \in Tasks \/ c \in active)
                   /\ pc[c] = "idle" => want[c] = NoLock /\ ~spin[c]

\* Active handlers differ in priority, so exactly one context executes.
ActiveDistinct ==
    \A i, j \in active : Priority[i] = Priority[j] => i = j

\* The reason STREXB is enough: while the monitor is still exclusive, the
\* value the executing context loaded is the value the byte has.
Reservation ==
    \A c \in Ctx : pc[c] = "strex" /\ Running(c) /\ monitor = "exclusive"
                     => lock[want[c]] = UNLOCKED

\* The inductive invariant.
IInv ==
    /\ TypeOK
    /\ CallsAreLive
    /\ ActiveDistinct
    /\ LockWordAgrees
    /\ MutualExclusion
    /\ Reservation

-----------------------------------------------------------------------------
(* Implementation of the abstract lock. *)

HolderIn(h, l) ==
    IF \E c \in Ctx : l \in h[c] THEN CHOOSE c \in Ctx : l \in h[c] ELSE Nobody

ABS == INSTANCE AbstractLock WITH
           holder <- [l \in Locks |-> HolderIn(held, l)]

\* sync.c implements the lock its header promises.
AbstractLockSpec == ABS!Spec

=============================================================================
