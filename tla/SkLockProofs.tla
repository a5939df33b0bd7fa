---------------------------- MODULE SkLockProofs ----------------------------
(* The safety of SkLock for any tasks, handlers, priorities and locks, with *)
(* and without the CLREX.                                                   *)
EXTENDS SkLock, TLAPS

\* Only one context executes: the reservation of one is not disturbed by
\* another one that believes it executes too.
LEMMA OneRuns ==
    ASSUME TypeOK, ActiveDistinct,
           NEW c \in Ctx, NEW d \in Ctx, Running(c), Running(d)
    PROVE  c = d
<1>1. CASE active = {}
  BY <1>1 DEF Running
<1>2. CASE active # {}
  <2>1. c \in active /\ d \in active
    BY <1>2 DEF Running
  <2>2. Priority[c] <= Priority[d] /\ Priority[d] <= Priority[c]
    BY <1>2, <2>1 DEF Running
  <2>3. Priority[c] \in Nat /\ Priority[d] \in Nat
    BY <2>1, PriorityAssumption DEF TypeOK
  <2> QED
    BY <2>1, <2>2, <2>3 DEF ActiveDistinct
<1> QED
  BY <1>1, <1>2

LEMMA InitIInv == Init => IInv
  BY ContextAssumption, NoLockAssumption
     DEF Init, IInv, TypeOK, CallsAreLive, ActiveDistinct, LockWordAgrees,
         MutualExclusion, Reservation, Ctx, LOCKED, UNLOCKED

LEMMA TypeStep == TypeOK /\ CallsAreLive /\ [Next]_vars => TypeOK'
<1> SUFFICES ASSUME TypeOK, CallsAreLive, [Next]_vars
             PROVE  TypeOK'
  OBVIOUS
<1> USE DEF TypeOK, CallsAreLive, machine, calls, vars
<1>1. ASSUME NEW c \in Ctx, LockStep(c)
      PROVE  TypeOK'
  <2>1. ASSUME NEW l \in Locks, NEW s \in BOOLEAN, Call(c, l, s)
        PROVE  TypeOK'
    BY <2>1 DEF Call
  <2>2. ASSUME NEW l \in Locks, Unlock(c, l)
        PROVE  TypeOK'
    BY <2>2 DEF Unlock, UNLOCKED
  <2>3. CASE Ldrex(c)
    BY <2>3 DEF Ldrex
  <2>4. CASE Clrex(c)
    BY <2>4 DEF Clrex, ReturnFalse, Return
  <2>5. CASE StrexOk(c)
    <3>1. want[c] \in Locks
      BY <2>5 DEF StrexOk
    <3> QED
      BY <2>5, <3>1 DEF StrexOk, Return, LOCKED
  <2>6. CASE StrexFail(c)
    BY <2>6 DEF StrexFail, ReturnFalse, Return
  <2> QED
    BY <1>1, <2>1, <2>2, <2>3, <2>4, <2>5, <2>6 DEF LockStep
<1>2. ASSUME NEW i \in Isrs, IsrEnter(i) \/ IsrReturn(i)
      PROVE  TypeOK'
  BY <1>2 DEF IsrEnter, IsrReturn
<1>3. ASSUME NEW t \in Tasks, Switch(t)
      PROVE  TypeOK'
  BY <1>3 DEF Switch
<1>4. CASE UNCHANGED vars
  BY <1>4
<1> QED
  BY <1>1, <1>2, <1>3, <1>4 DEF Next

\* Who is inside a call, and that active handlers stay pairwise distinct.
LEMMA CallsStep == TypeOK /\ CallsAreLive /\ ActiveDistinct /\ [Next]_vars
                     => CallsAreLive' /\ ActiveDistinct'
<1> SUFFICES ASSUME TypeOK, CallsAreLive, ActiveDistinct, [Next]_vars
             PROVE  CallsAreLive' /\ ActiveDistinct'
  OBVIOUS
<1> USE DEF TypeOK, CallsAreLive, ActiveDistinct, machine, calls, vars
<1>1. ASSUME NEW c \in Ctx, LockStep(c)
      PROVE  CallsAreLive' /\ ActiveDistinct'
  <2>1. active' = active
    BY <1>1 DEF LockStep, Call, Unlock, Ldrex, Clrex, StrexOk, StrexFail
  <2>2. ActiveDistinct'
    BY <2>1
  <2>3. c \in Tasks \/ c \in active
    BY <1>1 DEF LockStep, Call, Unlock, Ldrex, Clrex, StrexOk, StrexFail, Running
  <2>4. ASSUME NEW l \in Locks, NEW s \in BOOLEAN, Call(c, l, s)
        PROVE  CallsAreLive'
    <3>1. NoLock # l
      BY NoLockAssumption
    <3> QED
      BY <2>3, <2>4, <3>1 DEF Call
  <2>5. ASSUME NEW l \in Locks, Unlock(c, l)
        PROVE  CallsAreLive'
    BY <2>5 DEF Unlock
  <2>6. CASE Ldrex(c)
    BY <2>3, <2>6 DEF Ldrex
  <2>7. CASE Clrex(c)
    BY <2>3, <2>7 DEF Clrex, ReturnFalse, Return
  <2>8. CASE StrexOk(c)
    BY <2>3, <2>8 DEF StrexOk, Return
  <2>9. CASE StrexFail(c)
    BY <2>3, <2>9 DEF StrexFail, ReturnFalse, Return
  <2> QED
    BY <1>1, <2>2, <2>4, <2>5, <2>6, <2>7, <2>8, <2>9 DEF LockStep
<1>2. ASSUME NEW i \in Isrs, IsrEnter(i)
      PROVE  CallsAreLive' /\ ActiveDistinct'
  <2>1. \A j \in active : Priority[i] # Priority[j]
    BY <1>2, PriorityAssumption DEF IsrEnter, MayEnter
  <2> QED
    BY <1>2, <2>1 DEF IsrEnter
<1>3. ASSUME NEW i \in Isrs, IsrReturn(i)
      PROVE  CallsAreLive' /\ ActiveDistinct'
  BY <1>3 DEF IsrReturn
<1>4. ASSUME NEW t \in Tasks, Switch(t)
      PROVE  CallsAreLive' /\ ActiveDistinct'
  BY <1>4 DEF Switch
<1>5. CASE UNCHANGED vars
  BY <1>5
<1> QED
  BY <1>1, <1>2, <1>3, <1>4, <1>5 DEF Next

\* Only StrexOk and Unlock change the byte and its holders, and they change
\* both: StrexOk starts from a byte that the reservation says is free.
LEMMA HoldersStep == IInv /\ [Next]_vars => LockWordAgrees' /\ MutualExclusion'
<1> SUFFICES ASSUME IInv, [Next]_vars
             PROVE  LockWordAgrees' /\ MutualExclusion'
  OBVIOUS
<1> USE DEF IInv, LockWordAgrees, MutualExclusion, machine, calls, vars
<1>1. CASE UNCHANGED <<lock, held>>
  BY <1>1
<1>2. ASSUME NEW c \in Ctx, StrexOk(c)
      PROVE  LockWordAgrees' /\ MutualExclusion'
  <2> DEFINE l == want[c]
  <2>1. l \in Locks
    BY <1>2 DEF StrexOk, CallsAreLive
  <2>2. \A d \in Ctx : l \notin held[d]
    BY <1>2, <2>1 DEF StrexOk, Reservation, LOCKED, UNLOCKED
  <2>3. /\ lock' = [lock EXCEPT ![l] = LOCKED]
        /\ held' = [held EXCEPT ![c] = @ \cup {l}]
    BY <1>2 DEF StrexOk
  <2>4. \A d \in Ctx : held'[d] = IF d = c THEN held[d] \cup {l} ELSE held[d]
    BY <2>3 DEF TypeOK
  <2>5. \A m \in Locks : lock'[m] = IF m = l THEN LOCKED ELSE lock[m]
    BY <2>3 DEF TypeOK
  <2> HIDE DEF l, IInv
  <2>6. ASSUME NEW d \in Ctx, NEW e \in Ctx, d # e,
               NEW x, x \in held'[d], x \in held'[e]
        PROVE  FALSE
    <3>1. x \notin held[d] \/ x \notin held[e]
      BY <2>6 DEF IInv
    <3>2. x = l
      BY <2>4, <2>6, <3>1
    <3> QED
      BY <2>2, <2>4, <2>6, <3>2
  <2>7. ASSUME NEW m \in Locks
        PROVE  lock'[m] = LOCKED <=> \E d \in Ctx : m \in held'[d]
    <3>1. CASE m = l
      BY <2>4, <2>5, <3>1
    <3>2. CASE m # l
      <4>1. \A d \in Ctx : m \in held'[d] <=> m \in held[d]
        BY <2>4, <3>2
      <4> QED
        BY <2>5, <3>2, <4>1 DEF IInv
    <3> QED
      BY <3>1, <3>2
  <2> QED
    BY <2>6, <2>7
<1>3. ASSUME NEW c \in Ctx, NEW l \in Locks, Unlock(c, l)
      PROVE  LockWordAgrees' /\ MutualExclusion'
  <2>1. l \in held[c] /\ \A d \in Ctx : d # c => l \notin held[d]
    BY <1>3 DEF Unlock
  <2>2. \A d \in Ctx : held'[d] = IF d = c THEN held[d] \ {l} ELSE held[d]
    BY <1>3 DEF Unlock, TypeOK
  <2>3. \A m \in Locks : lock'[m] = IF m = l THEN UNLOCKED ELSE lock[m]
    BY <1>3 DEF Unlock, TypeOK
  <2> HIDE DEF IInv
  <2>4. MutualExclusion'
    BY <2>2 DEF IInv
  <2>5. ASSUME NEW m \in Locks
        PROVE  lock'[m] = LOCKED <=> \E d \in Ctx : m \in held'[d]
    <3>1. CASE m = l
      <4>1. \A d \in Ctx : m \notin held'[d]
        BY <2>1, <2>2, <3>1
      <4> QED
        BY <2>3, <3>1, <4>1 DEF LOCKED, UNLOCKED
    <3>2. CASE m # l
      <4>1. \A d \in Ctx : m \in held'[d] <=> m \in held[d]
        BY <2>2, <3>2
      <4> QED
        BY <2>3, <3>2, <4>1 DEF IInv
    <3> QED
      BY <3>1, <3>2
  <2> QED
    BY <2>4, <2>5
<1>4. ASSUME NEW c \in Ctx, LockStep(c)
      PROVE  LockWordAgrees' /\ MutualExclusion'
  BY <1>1, <1>2, <1>3, <1>4 DEF LockStep, Call, Ldrex, Clrex, StrexFail
<1>5. ASSUME NEW i \in Isrs, IsrEnter(i) \/ IsrReturn(i)
      PROVE  LockWordAgrees' /\ MutualExclusion'
  BY <1>1, <1>5 DEF IsrEnter, IsrReturn
<1>6. ASSUME NEW t \in Tasks, Switch(t)
      PROVE  LockWordAgrees' /\ MutualExclusion'
  BY <1>1, <1>6 DEF Switch
<1> QED
  BY <1>1, <1>4, <1>5, <1>6 DEF Next

\* The reservation holds again after every step: whatever could have changed
\* the byte, or the context that executes, has opened the monitor as well.
LEMMA ReservationStep == IInv /\ [Next]_vars => Reservation'
<1> SUFFICES ASSUME IInv, [Next]_vars,
                    NEW d \in Ctx, pc'[d] = "strex", Running(d)',
                    monitor' = "exclusive"
             PROVE  lock'[want'[d]] = UNLOCKED
  BY DEF Reservation
<1> USE DEF TypeOK, machine, calls, vars
<1> TypeOK /\ ActiveDistinct /\ Reservation
  BY DEF IInv
<1>1. ASSUME NEW c \in Ctx, LockStep(c)
      PROVE  lock'[want'[d]] = UNLOCKED
  <2>1. Running(c) /\ Running(d)
    BY <1>1 DEF LockStep, Call, Unlock, Ldrex, Clrex, StrexOk, StrexFail, Running
  <2>2. c = d
    BY <2>1, OneRuns
  <2>3. CASE Ldrex(c)
    BY <2>2, <2>3 DEF Ldrex
  <2>4. CASE Clrex(c)
    BY <2>2, <2>4 DEF Clrex, ReturnFalse, Return
  <2> QED
    BY <1>1, <2>2, <2>3, <2>4
       DEF LockStep, Call, Unlock, StrexOk, StrexFail, ReturnFalse, Return
<1>2. ASSUME NEW i \in Isrs, IsrEnter(i) \/ IsrReturn(i)
      PROVE  FALSE
  BY <1>2 DEF IsrEnter, IsrReturn
<1>3. ASSUME NEW t \in Tasks, Switch(t)
      PROVE  FALSE
  BY <1>3 DEF Switch
<1>4. CASE UNCHANGED vars
  BY <1>4 DEF Reservation, Running
<1> QED
  BY <1>1, <1>2, <1>3, <1>4 DEF Next

\* The invariant of SkLock.
THEOREM Invariance == Spec => []IInv
<1>1. IInv /\ [Next]_vars => IInv'
  BY TypeStep, CallsStep, HoldersStep, ReservationStep DEF IInv
<1> QED
  BY InitIInv, <1>1, PTL DEF Spec

\* Every variable keeps its type, for any tasks, handlers and locks.
THEOREM TypeCorrect == Spec => []TypeOK
<1>1. IInv => TypeOK
  BY DEF IInv
<1> QED
  BY Invariance, <1>1, PTL

\* sk_lock_trylock and sk_lock_spinlock never let two contexts hold one lock.
THEOREM Exclusion == Spec => []MutualExclusion
<1>1. IInv => MutualExclusion
  BY DEF IInv
<1> QED
  BY Invariance, <1>1, PTL

\* A lock byte reads LOCKED exactly while a caller holds the lock.
THEOREM WordAgreement == Spec => []LockWordAgrees
<1>1. IInv => LockWordAgrees
  BY DEF IInv
<1> QED
  BY Invariance, <1>1, PTL

\* What STREXB relies on: a context about to execute one with the monitor still
\* exclusive finds the byte free, whatever ran between its LDREXB and now.
THEOREM ReservationHolds == Spec => []Reservation
<1>1. IInv => Reservation
  BY DEF IInv
<1> QED
  BY Invariance, <1>1, PTL

-----------------------------------------------------------------------------
(* Refinement of AbstractLock. *)

\* The mapped holder is the one context whose set has the lock.
LEMMA HolderIs ==
    ASSUME NEW h, NEW l,
           \A c, d \in Ctx : c # d => h[c] \cap h[d] = {},
           NEW c \in Ctx, l \in h[c]
    PROVE  HolderIn(h, l) = c
<1>1. \A d \in Ctx : l \in h[d] => d = c
  OBVIOUS
<1>2. (CHOOSE d \in Ctx : l \in h[d]) = c
  BY <1>1
<1> QED
  BY <1>2 DEF HolderIn

\* Nobody stands for the lock that no context has.
LEMMA HolderIsNobody ==
    ASSUME NEW h, NEW l, \A c \in Ctx : l \notin h[c]
    PROVE  HolderIn(h, l) = Nobody
BY DEF HolderIn

\* Two assignments of locks that agree on l have the same holder of l.
LEMMA SameHolder ==
    ASSUME NEW h, NEW k, NEW l,
           \A c, d \in Ctx : c # d => h[c] \cap h[d] = {},
           \A c, d \in Ctx : c # d => k[c] \cap k[d] = {},
           \A c \in Ctx : l \in h[c] <=> l \in k[c]
    PROVE  HolderIn(h, l) = HolderIn(k, l)
<1>1. CASE \E c \in Ctx : l \in h[c]
  <2>1. PICK c \in Ctx : l \in h[c]
    BY <1>1
  <2>2. HolderIn(h, l) = c
    BY <2>1, HolderIs
  <2>3. HolderIn(k, l) = c
    BY <2>1, HolderIs
  <2> QED
    BY <2>2, <2>3
<1>2. CASE \A c \in Ctx : l \notin h[c]
  BY <1>2, HolderIsNobody
<1> QED
  BY <1>1, <1>2

\* Capturing with STREXB is the abstract Acquire.
LEMMA AcquireStep ==
    ASSUME IInv, IInv', NEW c \in Ctx, StrexOk(c)
    PROVE  ABS!Acquire(c, want[c])
<1> DEFINE l == want[c]
<1>1. l \in Locks
  BY DEF IInv, StrexOk, CallsAreLive
<1>2. \A d \in Ctx : l \notin held[d]
  BY <1>1 DEF IInv, StrexOk, Reservation, LockWordAgrees, LOCKED, UNLOCKED
<1>3. \A d \in Ctx : held'[d] = IF d = c THEN held[d] \cup {l} ELSE held[d]
  BY DEF IInv, TypeOK, StrexOk
<1>4. HolderIn(held, l) = Nobody
  BY <1>2, HolderIsNobody
<1>5. HolderIn(held', l) = c
  <2>1. l \in held'[c]
    BY <1>3
  <2> QED
    BY <2>1, HolderIs DEF IInv, MutualExclusion
<1>6. \A m \in Locks : m # l => HolderIn(held', m) = HolderIn(held, m)
  <2> HIDE DEF l
  <2> TAKE m \in Locks
  <2> HAVE m # l
  <2>1. \A d \in Ctx : m \in held'[d] <=> m \in held[d]
    BY <1>3
  <2> QED
    BY <2>1, SameHolder DEF IInv, MutualExclusion
<1> HIDE DEF l
<1>7. ABS!Acquire(c, l)
  BY <1>1, <1>4, <1>5, <1>6 DEF ABS!Acquire
<1> QED
  BY <1>7 DEF l

\* sk_lock_unlock by the holder is the abstract Release.
LEMMA ReleaseStep ==
    ASSUME IInv, IInv', NEW c \in Ctx, NEW l \in Locks, Unlock(c, l)
    PROVE  ABS!Release(c, l)
<1>1. l \in held[c] /\ \A d \in Ctx : d # c => l \notin held[d]
  BY DEF IInv, MutualExclusion, Unlock
<1>2. \A d \in Ctx : held'[d] = IF d = c THEN held[d] \ {l} ELSE held[d]
  BY DEF IInv, TypeOK, Unlock
<1>3. HolderIn(held, l) = c
  BY <1>1, HolderIs DEF IInv, MutualExclusion
<1>4. HolderIn(held', l) = Nobody
  <2>1. \A d \in Ctx : l \notin held'[d]
    BY <1>1, <1>2
  <2> QED
    BY <2>1, HolderIsNobody
<1>5. \A m \in Locks : m # l => HolderIn(held', m) = HolderIn(held, m)
  <2> TAKE m \in Locks
  <2> HAVE m # l
  <2>1. \A d \in Ctx : m \in held'[d] <=> m \in held[d]
    BY <1>2
  <2> QED
    BY <2>1, SameHolder DEF IInv, MutualExclusion
<1> QED
  BY <1>3, <1>4, <1>5 DEF ABS!Release

\* sync.c implements the abstract lock: every step of a context, a handler or
\* the kernel is an Acquire, a Release or invisible.
THEOREM Refinement == Spec => AbstractLockSpec
<1>1. Init => ABS!Init
  <2> SUFFICES ASSUME Init, NEW l \in Locks
               PROVE  HolderIn(held, l) = Nobody
    BY DEF ABS!Init
  <2>1. \A c \in Ctx : l \notin held[c]
    BY DEF Init
  <2> QED
    BY <2>1, HolderIsNobody
<1>2. IInv /\ IInv' /\ [Next]_vars => [ABS!Next]_([l \in Locks |-> HolderIn(held, l)])
  <2> SUFFICES ASSUME IInv, IInv', [Next]_vars
               PROVE  [ABS!Next]_([l \in Locks |-> HolderIn(held, l)])
    OBVIOUS
  <2>1. ASSUME NEW c \in Ctx, StrexOk(c)
        PROVE  ABS!Next
    <3>1. want[c] \in Locks
      BY <2>1 DEF IInv, StrexOk, CallsAreLive
    <3> QED
      BY <2>1, <3>1, AcquireStep DEF ABS!Next
  <2>2. ASSUME NEW c \in Ctx, NEW l \in Locks, Unlock(c, l)
        PROVE  ABS!Next
    BY <2>2, ReleaseStep DEF ABS!Next
  <2>3. ASSUME held' = held
        PROVE  UNCHANGED [l \in Locks |-> HolderIn(held, l)]
    BY <2>3 DEF HolderIn
  <2>4. held' = held \/ (\E c \in Ctx : StrexOk(c) \/ \E l \in Locks : Unlock(c, l))
    BY DEF Next, LockStep, Call, Ldrex, Clrex, StrexFail, IsrEnter, IsrReturn, Switch, vars
  <2> QED
    BY <2>1, <2>2, <2>3, <2>4
<1> QED
  BY Invariance, <1>1, <1>2, PTL DEF Spec, AbstractLockSpec, ABS!Spec

=============================================================================
