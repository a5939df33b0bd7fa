--------------------------- MODULE RtosListProofs ---------------------------
(* The lists of tasks.c: every task is in one place, in every application,   *)
(* whatever its tasks, priorities, scripts and interrupts; and what rests on *)
(* that: the time of calls, the counts of queues and that some task is ready.*)
EXTENDS RtosProofs

----------------------------------------------------------------------------
(* The kernel's lists                                                       *)

Fields == {"ready", "top", "delayed", "overflow", "suspended", "dying", "events", "tick", "overflows",
           "next", "pended", "susp", "yield", "cur", "pendsv", "halted", "prio", "base", "held", "wake",
           "key", "bits", "note", "value"}
Time == 0 .. Ticks - 1

\* The fields that say where the tasks are, at what priority and until when.
Shape(z) ==
    /\ DOMAIN z = Fields
    /\ z.prio \in [Task -> Prio] /\ z.base \in [Task -> Prio]
    /\ z.key \in [Task -> 1 .. configMAX_PRIORITIES]
    /\ z.wake \in [Task -> Time] /\ z.tick \in Time /\ z.next \in Time
    /\ z.pended \in Nat
    /\ z.events \in [EventList -> Seq(Task)]
    /\ DOMAIN z.ready = Prio /\ \A p \in Prio : ReadyList(z.ready[p])
    /\ \A l \in Elsewhere : z[l] \in Seq(Task)

\* The sleeping tasks are in order, and none is due before n ticks have passed
\* or before xNextTaskUnblockTime; those of the overflow list have to wait for
\* the wrap of the tick count.
Asleep(z, n) ==
    /\ Sorted(z.delayed, z.wake) /\ Sorted(z.overflow, z.wake)
    /\ \A t \in Task : Contains(z.delayed, t) => z.tick + n <= z.wake[t] /\ z.next <= z.wake[t]
    /\ \A t \in Task : Contains(z.overflow, t) => z.wake[t] < z.tick

\* What few steps change: the running task, the suspension of the scheduler and
\* the time are those of the kernel "from".
SameTime(from, z) == z.tick = from.tick /\ z.overflows = from.overflows /\ z.pended = from.pended
Steady(from, z) == z.cur = from.cur /\ z.susp = from.susp /\ SameTime(from, z)

Settled(z, from, n) == Shape(z) /\ Known(z) /\ Asleep(z, n) /\ Steady(from, z)
KernelAt(z, from, n) == Settled(z, from, n) /\ OnePlace(z)
KernelOK(z, from) == KernelAt(z, from, 1)

\* In one place, but for the priority of the task o, which has just changed.
Placed(z, o) ==
    /\ \A p \in Prio : Unique(z.ready[p].items)
    /\ \A l \in Elsewhere : Unique(z[l])
    /\ \A t \in Task : \A p \in Prio : InReady(z, t, p) =>
          (t # o => z.prio[t] = p) /\ \A l \in Elsewhere : ~Contains(z[l], t)
    /\ \A t \in Task : \A l, m \in Elsewhere : Contains(z[l], t) /\ Contains(z[m], t) => l = m
Nowhere(z, t) ==
    /\ \A p \in Prio : ~InReady(z, t, p)
    /\ \A l \in Elsewhere : ~Contains(z[l], t)

\* xNextTaskUnblockTime, set anew.
Earliest(z) == IF z.delayed = <<>> THEN portMAX_DELAY ELSE z.wake[Head(z.delayed)]

Kept == {"ready", "delayed", "overflow", "suspended", "dying", "prio", "base", "key", "pended", "events",
         "wake", "tick"}
Alike(z, y) ==
    /\ DOMAIN y = Fields /\ \A f \in Kept : y[f] = z[f]
    /\ y.next = z.next \/ y.next = Earliest(z)
    /\ y.top \subseteq z.top /\ \A p \in Prio : p \in z.top /\ z.ready[p].items # <<>> => p \in y.top

LEMMA PlacedNow == ASSUME NEW z, NEW t, OnePlace(z) PROVE Placed(z, t)
  BY DEF OnePlace, Placed

LEMMA Own == ASSUME NEW z, NEW from, KernelOK(z, from) PROVE KernelOK(z, z) /\ Steady(from, z)
  BY DEF KernelOK, KernelAt, Settled, Steady, SameTime

LEMMA EarliestFirst ==
    ASSUME NEW z, Shape(z), Sorted(z.delayed, z.wake)
    PROVE  Earliest(z) \in Time /\ \A t \in Task : Contains(z.delayed, t) => Earliest(z) <= z.wake[t]
<1> DEFINE l == z.delayed
<1>1. l \in Seq(Task) /\ z.wake \in [Task -> Time]
  BY DEF Shape, Elsewhere
<1>2. CASE l = <<>>
  <2>1. portMAX_DELAY \in Time
    BY TicksAssumption DEF portMAX_DELAY, Time
  <2>2. \A t \in Task : ~Contains(l, t)
    BY <1>2 DEF Contains
  <2> QED
    BY <1>2, <2>1, <2>2 DEF Earliest
<1>3. CASE l # <<>>
  <2>1. Head(l) = l[1] /\ Head(l) \in Task /\ 1 \in DOMAIN l
    BY <1>1, <1>3
  <2>2. ASSUME NEW i \in DOMAIN l PROVE z.wake[l[1]] <= z.wake[l[i]]
    <3>1. i \in 1 .. Len(l) /\ l[i] \in Task
      BY <1>1
    <3>2. i = 1 \/ 1 < i
      BY <3>1
    <3>3. z.wake[l[i]] \in Int
      BY <1>1, <3>1, TicksAssumption DEF Time
    <3>4. 1 < i => z.wake[l[1]] <= z.wake[l[i]]
      BY <2>1 DEF Sorted
    <3> QED
      BY <3>2, <3>3, <3>4
  <2>3. \A t \in Task : Contains(l, t) => z.wake[l[1]] <= z.wake[t]
    BY <1>1, <2>2 DEF Contains
  <2> QED
    BY <1>1, <1>3, <2>1, <2>3 DEF Earliest
<1> QED
  BY <1>2, <1>3

LEMMA AlikeAt ==
    ASSUME NEW z, NEW y, NEW from, NEW n, KernelAt(z, from, n), Alike(z, y)
    PROVE  KernelAt(y, y, n) /\ (Steady(z, y) => KernelAt(y, from, n))
<1>1. /\ y.ready = z.ready /\ y.prio = z.prio /\ y.base = z.base /\ y.key = z.key
      /\ y.pended = z.pended /\ y.events = z.events /\ \A l \in Elsewhere : y[l] = z[l]
      /\ y.wake = z.wake /\ y.tick = z.tick /\ y.delayed = z.delayed /\ y.overflow = z.overflow
  BY DEF Alike, Kept, Elsewhere
<1>2. Shape(z) /\ OnePlace(z) /\ Known(z) /\ Asleep(z, n) /\ Steady(from, z)
  BY DEF KernelAt, Settled
<1>3. y.next \in Time /\ \A t \in Task : Contains(z.delayed, t) => y.next <= z.wake[t]
  <2>1. Earliest(z) \in Time /\ \A t \in Task : Contains(z.delayed, t) => Earliest(z) <= z.wake[t]
    BY <1>2, EarliestFirst DEF Asleep
  <2> QED
    BY <1>2, <2>1 DEF Alike, Asleep, Shape
<1>4. Shape(y)
  BY <1>1, <1>2, <1>3 DEF Alike, Shape
<1>5. OnePlace(y)
  BY <1>1, <1>2 DEF OnePlace, InReady
<1>6. Known(y)
  <2>1. \A p \in Prio : \A t \in Task : InReady(z, t, p) => z.ready[p].items # <<>>
    BY DEF InReady, Contains
  <2>2. \A p \in Prio : \A t \in Task : InReady(y, t, p) => InReady(z, t, p)
    BY <1>1 DEF InReady
  <2> QED
    BY <1>2, <2>1, <2>2 DEF Known, Alike
<1>7. Asleep(y, n)
  BY <1>1, <1>2, <1>3 DEF Asleep
<1>8. Steady(y, y) /\ (Steady(z, y) => Steady(from, y))
  BY <1>2 DEF Steady, SameTime
<1> QED
  BY <1>4, <1>5, <1>6, <1>7, <1>8 DEF KernelAt, Settled

LEMMA AlikeOK ==
    ASSUME NEW z, NEW y, NEW from, KernelOK(z, from), Alike(z, y)
    PROVE  KernelOK(y, y) /\ (Steady(z, y) => KernelOK(y, from))
  BY AlikeAt DEF KernelOK

LEMMA AlikeNowhere ==
    ASSUME NEW z, NEW y, NEW t, Alike(z, y)
    PROVE  Nowhere(z, t) => Nowhere(y, t)
<1>1. y.ready = z.ready /\ \A l \in Elsewhere : y[l] = z[l]
  BY DEF Alike, Kept, Elsewhere
<1> QED
  BY <1>1 DEF Nowhere, InReady

\* Steps that move no task.
LEMMA Moveless ==
    ASSUME NEW z, DOMAIN z = Fields, NEW c, NEW p
    PROVE  /\ Alike(z, configASSERT(z, c)) /\ Alike(z, YieldIf(z, c)) /\ Alike(z, portYIELD_WITHIN_API(z))
           /\ Alike(z, vTaskMissedYield(z)) /\ Alike(z, vTaskSuspendAll(z))
           /\ Alike(z, prvResetNextTaskUnblockTime(z)) /\ Alike(z, taskRESET_READY_PRIORITY(z, p))
<1>1. /\ Alike(z, configASSERT(z, c)) /\ Alike(z, YieldIf(z, c)) /\ Alike(z, portYIELD_WITHIN_API(z))
      /\ Alike(z, vTaskMissedYield(z)) /\ Alike(z, vTaskSuspendAll(z))
  BY DEF Alike, Fields, Kept, configASSERT, YieldIf, portYIELD_WITHIN_API, vTaskMissedYield, vTaskSuspendAll
<1>2. Alike(z, prvResetNextTaskUnblockTime(z))
  BY DEF Alike, Fields, Kept, prvResetNextTaskUnblockTime, Earliest
<1>3. Alike(z, taskRESET_READY_PRIORITY(z, p))
  BY DEF Alike, Fields, Kept, taskRESET_READY_PRIORITY
<1> QED
  BY <1>1, <1>2, <1>3

LEMMA MovelessSteady ==
    ASSUME NEW z, DOMAIN z = Fields, NEW c, NEW p
    PROVE  /\ Steady(z, configASSERT(z, c)) /\ Steady(z, YieldIf(z, c)) /\ Steady(z, portYIELD_WITHIN_API(z))
           /\ Steady(z, vTaskMissedYield(z))
           /\ Steady(z, prvResetNextTaskUnblockTime(z)) /\ Steady(z, taskRESET_READY_PRIORITY(z, p))
  BY DEF Steady, SameTime, Fields, configASSERT, YieldIf, portYIELD_WITHIN_API, vTaskMissedYield,
         prvResetNextTaskUnblockTime, taskRESET_READY_PRIORITY

LEMMA MovelessOK ==
    ASSUME NEW z, NEW from, KernelOK(z, from), NEW c, NEW p
    PROVE  /\ KernelOK(configASSERT(z, c), from) /\ KernelOK(YieldIf(z, c), from)
           /\ KernelOK(portYIELD_WITHIN_API(z), from) /\ KernelOK(vTaskMissedYield(z), from)
           /\ KernelOK(prvResetNextTaskUnblockTime(z), from) /\ KernelOK(taskRESET_READY_PRIORITY(z, p), from)
           /\ KernelOK(vTaskSuspendAll(z), vTaskSuspendAll(z))
<1>1. DOMAIN z = Fields
  BY DEF KernelOK, KernelAt, Settled, Shape
<1> QED
  BY <1>1, Moveless, MovelessSteady, AlikeOK

LEMMA YieldedOK ==
    ASSUME NEW z, NEW from, KernelOK(z, from), NEW v
    PROVE  KernelOK([z EXCEPT !.yield = v], from)
<1>1. Alike(z, [z EXCEPT !.yield = v]) /\ Steady(z, [z EXCEPT !.yield = v])
  BY DEF KernelOK, KernelAt, Settled, Shape, Alike, Fields, Kept, Steady, SameTime
<1> QED
  BY <1>1, AlikeOK

\* A task is taken from whatever list it is in.
LEMMA RemoveStateAt ==
    ASSUME NEW z, NEW t \in Task, NEW from, NEW n, Settled(z, from, n), Placed(z, t)
    PROVE  KernelAt(RemoveState(z, t), from, n) /\ Nowhere(RemoveState(z, t), t)
<1> DEFINE y == RemoveState(z, t)
<1>0. Shape(z) /\ Known(z) /\ Asleep(z, n) /\ Steady(from, z)
  BY DEF Settled
<1>1. /\ DOMAIN y = Fields
      /\ y.ready = [p \in Prio |-> uxListRemove(z.ready[p], t)]
      /\ \A l \in Elsewhere : y[l] = RemoveFirst(z[l], t)
      /\ y.prio = z.prio /\ y.base = z.base /\ y.key = z.key /\ y.pended = z.pended /\ y.events = z.events
      /\ y.wake = z.wake /\ y.tick = z.tick /\ y.overflows = z.overflows /\ y.next = z.next /\ y.top = z.top
      /\ y.cur = z.cur /\ y.susp = z.susp
  BY <1>0 DEF RemoveState, Shape, Fields, Elsewhere
<1> HIDE DEF y
<1>2. \A p \in Prio : ReadyList(y.ready[p]) /\ Dropped(z.ready[p].items, t, y.ready[p].items)
  BY <1>0, <1>1, ListRemoveDrops DEF Shape
<1>3. \A l \in Elsewhere : Dropped(z[l], t, y[l])
  BY <1>0, <1>1, RemoveFirstDrops DEF Shape
<1>4. Shape(y)
  BY <1>0, <1>1, <1>2, <1>3 DEF Shape, Dropped
<1>5. Nowhere(y, t)
  BY <1>2, <1>3 DEF Placed, Nowhere, InReady, Dropped
<1>7. \A u \in Task : \A p \in Prio : InReady(y, u, p) => u # t /\ InReady(z, u, p)
  BY <1>2, <1>5 DEF Nowhere, InReady, Dropped
<1>8. \A u \in Task : \A l \in Elsewhere : Contains(y[l], u) => Contains(z[l], u)
  BY <1>3 DEF Dropped
<1>6. OnePlace(y)
  <2>1. \A p \in Prio : Unique(y.ready[p].items)
    BY <1>2 DEF Placed, Dropped
  <2>2. \A l \in Elsewhere : Unique(y[l])
    BY <1>3 DEF Placed, Dropped
  <2> QED
    BY <1>1, <2>1, <2>2, <1>7, <1>8 DEF Placed, OnePlace
<1>9. Known(y) /\ Steady(from, y)
  BY <1>0, <1>1, <1>7 DEF Known, Steady, SameTime
<1>10. Asleep(y, n)
  <2>1. "delayed" \in Elsewhere /\ "overflow" \in Elsewhere
    BY DEF Elsewhere
  <2>2. Sorted(y.delayed, z.wake) /\ Sorted(y.overflow, z.wake)
    BY <1>0, <1>3, <2>1 DEF Dropped, Asleep
  <2> QED
    BY <1>0, <1>1, <1>8, <2>1, <2>2 DEF Asleep
<1> QED
  BY <1>4, <1>5, <1>6, <1>9, <1>10 DEF KernelAt, Settled, y

LEMMA RemoveStateOK ==
    ASSUME NEW z, NEW t \in Task, NEW from, Settled(z, from, 1), Placed(z, t)
    PROVE  KernelOK(RemoveState(z, t), from) /\ Nowhere(RemoveState(z, t), t)
  BY RemoveStateAt DEF KernelOK

LEMMA RemoveEventAt ==
    ASSUME NEW z, NEW from, NEW n, KernelAt(z, from, n), NEW t \in Task
    PROVE  KernelAt(RemoveEvent(z, t), from, n)
<1> DEFINE y == RemoveEvent(z, t)
<1>0. Shape(z) /\ Known(z) /\ Asleep(z, n) /\ Steady(from, z) /\ OnePlace(z)
  BY DEF KernelAt, Settled
<1>1. /\ DOMAIN y = Fields /\ y.events = [l \in EventList |-> RemoveFirst(z.events[l], t)]
      /\ \A f \in Fields \ {"events"} : y[f] = z[f]
  BY <1>0 DEF RemoveEvent, Shape, Fields
<1> HIDE DEF y
<1>5. /\ y.ready = z.ready /\ \A l \in Elsewhere : y[l] = z[l]
      /\ y.prio = z.prio /\ y.base = z.base /\ y.key = z.key /\ y.pended = z.pended
      /\ y.wake = z.wake /\ y.tick = z.tick /\ y.overflows = z.overflows /\ y.next = z.next /\ y.top = z.top
      /\ y.cur = z.cur /\ y.susp = z.susp /\ y.delayed = z.delayed /\ y.overflow = z.overflow
  BY <1>1 DEF Fields, Elsewhere
<1>2. y.events \in [EventList -> Seq(Task)]
  <2>1. \A l \in EventList : Dropped(z.events[l], t, RemoveFirst(z.events[l], t))
    BY <1>0, RemoveFirstDrops DEF Shape
  <2> QED
    BY <1>1, <2>1 DEF Dropped
<1>3. Shape(y)
  BY <1>0, <1>1, <1>2, <1>5 DEF Shape
<1>4. OnePlace(y)
  BY <1>0, <1>5 DEF OnePlace, InReady
<1>6. Known(y) /\ Asleep(y, n) /\ Steady(from, y)
  BY <1>0, <1>5 DEF Known, Asleep, Steady, SameTime, InReady
<1> QED
  BY <1>3, <1>4, <1>6 DEF KernelAt, Settled, y

LEMMA RemoveEventOK ==
    ASSUME NEW z, NEW from, KernelOK(z, from), NEW t \in Task
    PROVE  KernelOK(RemoveEvent(z, t), from)
  BY RemoveEventAt DEF KernelOK

\* A task that is nowhere becomes ready.
LEMMA AddToReadyAt ==
    ASSUME NEW z, NEW from, NEW n, KernelAt(z, from, n), NEW t \in Task, Nowhere(z, t)
    PROVE  KernelAt(prvAddTaskToReadyList(z, t), from, n)
<1> DEFINE y == prvAddTaskToReadyList(z, t)
           p == z.prio[t]
<1>0. Shape(z) /\ Known(z) /\ Asleep(z, n) /\ Steady(from, z) /\ OnePlace(z)
  BY DEF KernelAt, Settled
<1>1. p \in Prio /\ DOMAIN z.ready = Prio /\ ReadyList(z.ready[p])
  BY <1>0 DEF Shape
<1>2. /\ DOMAIN y = Fields /\ y.ready = [z.ready EXCEPT ![p] = vListInsertEnd(@, t)]
      /\ y.top = z.top \cup {p}
      /\ \A f \in Fields \ {"ready", "top"} : y[f] = z[f]
  BY <1>0 DEF prvAddTaskToReadyList, Shape, Fields
<1> HIDE DEF y
<1>7. /\ \A l \in Elsewhere : y[l] = z[l]
      /\ y.prio = z.prio /\ y.base = z.base /\ y.key = z.key /\ y.pended = z.pended /\ y.events = z.events
      /\ y.wake = z.wake /\ y.tick = z.tick /\ y.overflows = z.overflows /\ y.next = z.next
      /\ y.cur = z.cur /\ y.susp = z.susp /\ y.delayed = z.delayed /\ y.overflow = z.overflow
  BY <1>2 DEF Fields, Elsewhere
<1>3. ReadyList(y.ready[p]) /\ Added(z.ready[p].items, t, y.ready[p].items)
  BY <1>1, <1>2, ListInsertEndAdds
<1>4. DOMAIN y.ready = Prio /\ \A r \in Prio : r # p => y.ready[r] = z.ready[r]
  BY <1>1, <1>2
<1> HIDE DEF p
<1>5. Shape(y)
  BY <1>0, <1>2, <1>3, <1>4, <1>7 DEF Shape
<1>8. \A u \in Task : \A r \in Prio : InReady(y, u, r) => (u = t /\ r = p) \/ InReady(z, u, r)
  BY <1>3, <1>4 DEF InReady, Added
<1>6. OnePlace(y)
  <2>1. \A r \in Prio : Unique(y.ready[r].items)
    BY <1>0, <1>1, <1>3, <1>4 DEF OnePlace, Nowhere, InReady, Added
  <2> QED
    BY <1>0, <1>7, <2>1, <1>8 DEF OnePlace, Nowhere, p
<1>9. Known(y)
  BY <1>0, <1>1, <1>2, <1>8 DEF Known, p
<1>10. Asleep(y, n) /\ Steady(from, y)
  BY <1>0, <1>7 DEF Asleep, Steady, SameTime
<1> QED
  BY <1>5, <1>6, <1>9, <1>10 DEF KernelAt, Settled, y

LEMMA AddToReadyOK ==
    ASSUME NEW z, NEW from, KernelOK(z, from), NEW t \in Task, Nowhere(z, t)
    PROVE  KernelOK(prvAddTaskToReadyList(z, t), from)
  BY AddToReadyAt DEF KernelOK

\* A task that is nowhere is put into one of the other lists.
LEMMA PutOK ==
    ASSUME NEW z, NEW from, KernelOK(z, from), NEW t \in Task, Nowhere(z, t), NEW l \in Elsewhere, NEW y,
           DOMAIN y = Fields, \A f \in Fields \ {l, "wake", "next"} : y[f] = z[f], Added(z[l], t, y[l]),
           y.wake \in [Task -> Time], y.next \in Time, Asleep(y, 1)
    PROVE  KernelOK(y, from)
<1>0. Shape(z) /\ Known(z) /\ Steady(from, z) /\ OnePlace(z)
  BY DEF KernelOK, KernelAt, Settled
<1>1. /\ y.ready = z.ready /\ y.prio = z.prio /\ y.base = z.base /\ y.key = z.key
      /\ y.pended = z.pended /\ y.events = z.events /\ \A m \in Elsewhere : m # l => y[m] = z[m]
      /\ y.tick = z.tick /\ y.overflows = z.overflows /\ y.top = z.top /\ y.cur = z.cur /\ y.susp = z.susp
  BY DEF Fields, Elsewhere
<1>2. Shape(y)
  BY <1>0, <1>1 DEF Shape, Added
<1>4. Known(y) /\ Steady(from, y)
  BY <1>0, <1>1 DEF Known, Steady, SameTime, InReady
<1>3. OnePlace(y)
  <2>1. \A m \in Elsewhere : Unique(y[m])
    BY <1>0, <1>1 DEF OnePlace, Nowhere, Added
  <2>2. \A u \in Task : \A m \in Elsewhere : Contains(y[m], u) => (u = t /\ m = l) \/ Contains(z[m], u)
    BY <1>1 DEF Added
  <2>3. \A u \in Task : \A p \in Prio : InReady(y, u, p) => u # t /\ InReady(z, u, p)
    BY <1>1 DEF Nowhere, InReady
  <2>4. \A p \in Prio : Unique(y.ready[p].items)
    BY <1>0, <1>1 DEF OnePlace
  <2>5. \A u \in Task : \A p \in Prio : InReady(y, u, p) =>
            y.prio[u] = p /\ \A m \in Elsewhere : ~Contains(y[m], u)
    BY <1>0, <1>1, <2>2, <2>3 DEF OnePlace
  <2>6. \A u \in Task : \A m, n \in Elsewhere : Contains(y[m], u) /\ Contains(y[n], u) => m = n
    BY <1>0, <2>2 DEF OnePlace, Nowhere
  <2> QED
    BY <2>1, <2>4, <2>5, <2>6 DEF OnePlace
<1> QED
  BY <1>2, <1>3, <1>4 DEF KernelOK, KernelAt, Settled

LEMMA MakeReadyAt ==
    ASSUME NEW z, NEW from, NEW n, KernelAt(z, from, n), NEW t \in Task
    PROVE  KernelAt(MakeReady(z, t), from, n)
<1>1. KernelAt(RemoveEvent(z, t), from, n)
  BY RemoveEventAt
<1>2. Settled(RemoveEvent(z, t), from, n) /\ Placed(RemoveEvent(z, t), t)
  BY <1>1, PlacedNow DEF KernelAt
<1>3. KernelAt(RemoveState(RemoveEvent(z, t), t), from, n) /\ Nowhere(RemoveState(RemoveEvent(z, t), t), t)
  BY <1>2, RemoveStateAt
<1> QED
  BY <1>3, AddToReadyAt DEF MakeReady

LEMMA MakeReadyOK ==
    ASSUME NEW z, NEW from, KernelOK(z, from), NEW t \in Task
    PROVE  KernelOK(MakeReady(z, t), from)
  BY MakeReadyAt DEF KernelOK

LEMMA LeaveOK ==
    ASSUME NEW z, NEW from, KernelOK(z, from), NEW t \in Task
    PROVE  KernelOK(Leave(z, t), from) /\ Nowhere(Leave(z, t), t)
<1>1. KernelOK(RemoveState(z, t), from) /\ Nowhere(RemoveState(z, t), t)
  BY RemoveStateOK, PlacedNow DEF KernelOK, KernelAt
<1>2. DOMAIN RemoveState(z, t) = Fields
  BY <1>1 DEF KernelOK, KernelAt, Settled, Shape
<1>3. Alike(RemoveState(z, t), Leave(z, t)) /\ Steady(RemoveState(z, t), Leave(z, t))
  BY <1>2, Moveless, MovelessSteady DEF Leave
<1> QED
  BY <1>1, <1>3, AlikeOK, AlikeNowhere

\* The wake time is not the present: it is ahead, perhaps beyond the wrap.
LEMMA SleepUntilOK ==
    ASSUME NEW z, NEW from, KernelOK(z, from), NEW t \in Task, Nowhere(z, t), NEW wake \in Time, wake # z.tick
    PROVE  KernelOK(SleepUntil(z, t, wake), from)
<1> DEFINE y == SleepUntil(z, t, wake)
           value == [z.wake EXCEPT ![t] = wake]
<1>1. DOMAIN z = Fields /\ z.delayed \in Seq(Task) /\ z.overflow \in Seq(Task)
      /\ z.wake \in [Task -> Time] /\ z.tick \in Time /\ z.next \in Time /\ Asleep(z, 1)
  BY DEF KernelOK, KernelAt, Settled, Shape, Elsewhere
<1>2. Added(z.delayed, t, vListInsert(z.delayed, t, value)) /\ Added(z.overflow, t, vListInsert(z.overflow, t, value))
  BY <1>1, ListInsertAdds
<1>5. value \in [Task -> Time] /\ value \in [Task -> Int] /\ value[t] = wake
      /\ \A u \in Task : u # t => value[u] = z.wake[u]
  BY <1>1, TicksAssumption DEF Time
<1>6. ~Contains(z.delayed, t) /\ ~Contains(z.overflow, t)
  BY DEF Nowhere, Elsewhere
<1>7. \A u \in Task : Contains(z.delayed, u) \/ Contains(z.overflow, u) => value[u] = z.wake[u]
  BY <1>5, <1>6
<1>8. ASSUME NEW l \in Seq(Task), ~Contains(l, t), Sorted(l, z.wake) PROVE Sorted(l, value)
  <2>1. \A i \in DOMAIN l : l[i] \in Task /\ l[i] # t
    BY <1>8 DEF Contains
  <2>2. \A i \in DOMAIN l : value[l[i]] = z.wake[l[i]]
    BY <1>5, <2>1
  <2> QED
    BY <1>8, <2>2 DEF Sorted
<1>9. Sorted(z.delayed, value) /\ Sorted(z.overflow, value)
  BY <1>1, <1>6, <1>8 DEF Asleep
<1>10. Sorted(vListInsert(z.delayed, t, value), value) /\ Sorted(vListInsert(z.overflow, t, value), value)
  BY <1>1, <1>5, <1>9, ListInsertSorts
<1>11. z.tick \in Int /\ wake \in Int /\ z.next \in Int /\ \A u \in Task : value[u] \in Int
  BY <1>1, <1>5, TicksAssumption DEF Time
<1>3. CASE wake < z.tick
  <2>1. DOMAIN y = Fields /\ y.overflow = vListInsert(z.overflow, t, value) /\ y.wake = value
        /\ \A f \in Fields \ {"overflow", "wake"} : y[f] = z[f]
    BY <1>1, <1>3 DEF SleepUntil, Fields
  <2> HIDE DEF y
  <2>4. y.delayed = z.delayed /\ y.tick = z.tick /\ y.overflows = z.overflows /\ y.next = z.next
    BY <2>1 DEF Fields
  <2>5. Asleep(y, 1)
    BY <1>1, <1>2, <1>3, <1>5, <1>7, <1>9, <1>10, <2>1, <2>4 DEF Asleep, Added
  <2> HIDE DEF value
  <2>2. Added(z["overflow"], t, y["overflow"]) /\ "overflow" \in Elsewhere
    BY <1>2, <2>1 DEF Elsewhere
  <2>3. KernelOK(y, from)
    BY <1>1, <1>5, <2>1, <2>2, <2>4, <2>5, PutOK
  <2> QED
    BY <2>3 DEF y
<1>4. CASE ~(wake < z.tick)
  <2>1. DOMAIN y = Fields /\ y.delayed = vListInsert(z.delayed, t, value) /\ y.wake = value
        /\ y.next = (IF wake < z.next THEN wake ELSE z.next)
        /\ \A f \in Fields \ {"delayed", "wake", "next"} : y[f] = z[f]
    BY <1>1, <1>4 DEF SleepUntil, Fields
  <2> HIDE DEF y, value
  <2>4. y.overflow = z.overflow /\ y.tick = z.tick
    BY <2>1 DEF Fields
  <2>6. y.next \in Time /\ y.next <= wake /\ y.next <= z.next
    BY <1>1, <1>11, <2>1
  <2>8. \A u \in Task : Contains(y.delayed, u) => u = t \/ Contains(z.delayed, u)
    BY <1>2, <2>1 DEF Added
  <2>9. z.tick + 1 <= wake
    BY <1>4, <1>11
  <2>7. \A u \in Task : Contains(y.delayed, u) => z.tick + 1 <= value[u] /\ y.next <= value[u]
    <3> TAKE u \in Task
    <3>1. Contains(z.delayed, u) => z.tick + 1 <= value[u] /\ z.next <= value[u]
      BY <1>1, <1>7 DEF Asleep
    <3>2. y.next \in Int /\ value[u] \in Int
      BY <1>11, <2>6, TicksAssumption DEF Time
    <3> QED
      BY <1>5, <1>11, <2>6, <2>8, <2>9, <3>1, <3>2
  <2>10. \A u \in Task : Contains(z.overflow, u) => value[u] < z.tick
    BY <1>1, <1>7 DEF Asleep
  <2>5. Asleep(y, 1)
    BY <1>9, <1>10, <2>1, <2>4, <2>7, <2>10 DEF Asleep
  <2>2. Added(z["delayed"], t, y["delayed"]) /\ "delayed" \in Elsewhere
    BY <1>2, <2>1 DEF Elsewhere
  <2>3. KernelOK(y, from)
    BY <1>1, <1>5, <2>1, <2>2, <2>5, <2>6, PutOK
  <2> QED
    BY <2>3 DEF y
<1> QED
  BY <1>3, <1>4

\* A task that has left its list is suspended, or dies.
LEMMA AppendOK ==
    ASSUME NEW z, NEW from, KernelOK(z, from), NEW t \in Task, Nowhere(z, t)
    PROVE  /\ KernelOK([z EXCEPT !.suspended = Append(@, t)], from)
           /\ KernelOK([z EXCEPT !.dying = Append(@, t)], from)
<1>1. DOMAIN z = Fields /\ z.suspended \in Seq(Task) /\ z.dying \in Seq(Task)
      /\ z.wake \in [Task -> Time] /\ z.next \in Time /\ Asleep(z, 1)
  BY DEF KernelOK, KernelAt, Settled, Shape, Elsewhere
<1>2. Added(z.suspended, t, Append(z.suspended, t)) /\ Added(z.dying, t, Append(z.dying, t))
  BY <1>1, AppendedIsAdded
<1>3. ASSUME NEW l \in {"suspended", "dying"}, NEW y, y = [z EXCEPT ![l] = Append(@, t)], Added(z[l], t, Append(z[l], t))
      PROVE  KernelOK(y, from)
  <2>1. DOMAIN y = Fields /\ y[l] = Append(z[l], t) /\ \A f \in Fields \ {l} : y[f] = z[f]
    BY <1>1, <1>3 DEF Fields
  <2>2. y.wake = z.wake /\ y.next = z.next /\ y.delayed = z.delayed /\ y.overflow = z.overflow /\ y.tick = z.tick
    BY <2>1 DEF Fields
  <2>3. Asleep(y, 1)
    BY <1>1, <2>2 DEF Asleep
  <2>4. l \in Elsewhere /\ Added(z[l], t, y[l])
    BY <1>3, <2>1 DEF Elsewhere
  <2> QED
    BY <1>1, <2>1, <2>2, <2>3, <2>4, PutOK
<1>4. /\ [z EXCEPT !.suspended = Append(@, t)] = [z EXCEPT !["suspended"] = Append(@, t)]
      /\ [z EXCEPT !.dying = Append(@, t)] = [z EXCEPT !["dying"] = Append(@, t)]
  OBVIOUS
<1> QED
  BY <1>2, <1>3, <1>4

\* The remainder of a sum that is not a round of the tick count.
LEMMA WakeTime ==
    ASSUME NEW from \in Time, NEW ticks \in 1 .. Ticks - 1
    PROVE  (from + ticks) % Ticks \in Time /\ (from + ticks) % Ticks # from
<1>1. Ticks \in Nat /\ Ticks > 2
  BY TicksAssumption
<1>2. CASE from + ticks < Ticks
  <2>1. (from + ticks) % Ticks = from + ticks
    BY <1>1, <1>2 DEF Time
  <2> QED
    BY <1>1, <1>2, <2>1 DEF Time
<1>3. CASE from + ticks >= Ticks
  <2>1. (from + ticks) % Ticks = from + ticks - Ticks
    BY <1>1, <1>3 DEF Time
  <2> QED
    BY <1>1, <1>3, <2>1 DEF Time
<1> QED
  BY <1>1, <1>2, <1>3 DEF Time

LEMMA BlockOK ==
    ASSUME NEW z, NEW from, KernelOK(z, from), z.cur \in Task, NEW ticks \in 1 .. Ticks - 1, NEW indefinitely
    PROVE  KernelOK(prvAddCurrentTaskToDelayedList(z, ticks, indefinitely), from)
<1> DEFINE y == Leave(z, z.cur)
<1>1. KernelOK(y, from) /\ Nowhere(y, z.cur)
  BY LeaveOK
<1>2. KernelOK([y EXCEPT !.suspended = Append(@, z.cur)], from)
  BY <1>1, AppendOK
<1>4. y.tick = z.tick /\ z.tick \in Time
  BY <1>1 DEF KernelOK, KernelAt, Settled, Steady, SameTime, Shape
<1>5. (z.tick + ticks) % Ticks \in Time /\ (z.tick + ticks) % Ticks # y.tick
  BY <1>4, WakeTime
<1> HIDE DEF y
<1>3. KernelOK(SleepUntil(y, z.cur, (z.tick + ticks) % Ticks), from)
  BY <1>1, <1>5, SleepUntilOK
<1> QED
  BY <1>2, <1>3 DEF prvAddCurrentTaskToDelayedList, y

----------------------------------------------------------------------------
(* The loops                                                                *)

\* A set of numbers that has 0, and the next of each, has all of them.
LEMMA Climb ==
    ASSUME NEW n \in Nat
    PROVE  \A S : 0 \in S /\ (\A i \in 1 .. n : i - 1 \in S => i \in S) => n \in S
<1> TAKE S
<1> HAVE 0 \in S /\ \A i \in 1 .. n : i - 1 \in S => i \in S
<1> DEFINE missing == (0 .. n) \ S
           i == Min(missing)
<1>1. SUFFICES ASSUME missing # {} PROVE FALSE
  OBVIOUS
<1>2. i \in missing /\ \A j \in missing : i <= j
  <2>1. missing \in SUBSET Nat
    OBVIOUS
  <2> HIDE DEF missing
  <2> QED
    BY <1>1, <2>1, LeastIs
<1> HIDE DEF i
<1>3. i \in 1 .. n /\ i - 1 \in 0 .. n
  BY <1>2
<1>4. i - 1 \in S
  BY <1>2, <1>3
<1> QED
  BY <1>2, <1>3, <1>4

\* The loops of tasks.c, queue.c, event_groups.c and timers.c over a list, or
\* a number of times, are folds.  By name, what each does with an element.
Body(loop, z, x) ==
    CASE loop = "ready" -> MakeReady(z, x)
      [] loop = "admit" -> Admit(z, x)
      [] loop = "count" -> CountOne(z, x)
      [] loop = "unlock" -> WakeMissed(z, x)
      [] loop = "expire" -> Expire(z, x)
      [] loop = "tell" -> TellIfMet(z, x)
      [] loop = "dismiss" -> TellNothing(z, x)
      [] loop = "create" -> CreateFirst(z, x)

\* The function that FoldLeft is defined by, up to m.
Partial(loop, z, l, m, after) ==
    after = [I \in SUBSET (1 .. m) |->
            IF I = {} THEN z ELSE Body(loop, after[I \ {Max(I)}], l[Max(I)])]

\* What there is after each element, and in the end.
InTurn(loop, z, l, n, after) ==
    after[0] = z /\ \A i \in 1 .. n : after[i] = Body(loop, after[i - 1], l[i])
Outcome(loop, z, l, n, y) == \E after : InTurn(loop, z, l, n, after) /\ after[n] = y

LEMMA LargestIs ==
    ASSUME NEW m \in Nat, NEW I \in SUBSET (1 .. m), m \in I
    PROVE  Max(I) = m
<1>1. \A y \in I : m >= y
  OBVIOUS
<1>2. \A x \in I : (\A y \in I : x >= y) => x = m
  OBVIOUS
<1> QED
  BY <1>1, <1>2 DEF Max

LEMMA PartialExists ==
    ASSUME NEW loop, NEW z, NEW l, NEW n \in Nat
    PROVE  \E after : Partial(loop, z, l, n, after)
<1> DEFINE S == {m \in 0 .. n : \E after : Partial(loop, z, l, m, after)}
<1>1. 0 \in S
  <2> DEFINE after == [I \in SUBSET (1 .. 0) |-> z]
  <2>1. \A I \in SUBSET (1 .. 0) : I = {}
    OBVIOUS
  <2>2. Partial(loop, z, l, 0, after)
    BY <2>1 DEF Partial
  <2> QED
    BY <2>2
<1>2. ASSUME NEW m \in 1 .. n, m - 1 \in S PROVE m \in S
  <2>1. PICK after : Partial(loop, z, l, m - 1, after)
    BY <1>2
  <2> DEFINE next == [I \in SUBSET (1 .. m) |-> IF m \in I THEN Body(loop, after[I \ {m}], l[m]) ELSE after[I]]
             r(I) == IF I = {} THEN z ELSE Body(loop, next[I \ {Max(I)}], l[Max(I)])
  <2>2. ASSUME NEW I \in SUBSET (1 .. m) PROVE next[I] = r(I)
    <3>1. CASE m \in I
      <4>1. Max(I) = m
        BY <3>1, LargestIs
      <4>2. I \ {m} \in SUBSET (1 .. m) /\ m \notin I \ {m} /\ I # {}
        BY <3>1
      <4>3. next[I \ {m}] = after[I \ {m}]
        BY <4>2
      <4>4. next[I] = Body(loop, after[I \ {m}], l[m])
        BY <3>1
      <4> QED
        BY <4>1, <4>2, <4>3, <4>4
    <3>2. CASE m \notin I
      <4>1. I \in SUBSET (1 .. m - 1)
        BY <3>2
      <4>2. next[I] = after[I]
        BY <3>2
      <4>3. after[I] = IF I = {} THEN z ELSE Body(loop, after[I \ {Max(I)}], l[Max(I)])
        BY <2>1, <4>1 DEF Partial
      <4>4. I \ {Max(I)} \in SUBSET (1 .. m) /\ m \notin I \ {Max(I)}
        BY <3>2
      <4>5. next[I \ {Max(I)}] = after[I \ {Max(I)}]
        BY <4>4
      <4> QED
        BY <4>2, <4>3, <4>5
    <3> QED
      BY <3>1, <3>2
  <2>3. next = [I \in SUBSET (1 .. m) |-> r(I)]
    BY <2>2
  <2> HIDE DEF next
  <2>4. Partial(loop, z, l, m, next)
    BY <2>3 DEF Partial
  <2> QED
    BY <2>4
<1>3. n \in S
  <2> HIDE DEF S
  <2> QED
    BY <1>1, <1>2, Climb
<1> QED
  BY <1>3

\* A loop does its body with each element in turn.
LEMMA LoopRuns ==
    ASSUME NEW loop, NEW z, NEW l, NEW n \in Nat, NEW iter, Partial(loop, z, l, n, iter)
    PROVE  Outcome(loop, z, l, n, iter[1 .. n])
<1> DEFINE after == [i \in 0 .. n |-> iter[1 .. i]]
<1>1. iter[1 .. 0] = z
  <2>1. 1 .. 0 = {} /\ {} \in SUBSET (1 .. n)
    OBVIOUS
  <2> QED
    BY <2>1 DEF Partial
<1>2. ASSUME NEW i \in 1 .. n PROVE iter[1 .. i] = Body(loop, iter[1 .. i - 1], l[i])
  <2>1. Max(1 .. i) = i
    BY LargestIs
  <2>2. (1 .. i) \ {i} = 1 .. i - 1 /\ 1 .. i # {} /\ 1 .. i \in SUBSET (1 .. n)
    OBVIOUS
  <2> QED
    BY <2>1, <2>2 DEF Partial
<1>3. after[0] = z /\ after[n] = iter[1 .. n] /\ \A i \in 1 .. n : after[i] = iter[1 .. i] /\ after[i - 1] = iter[1 .. i - 1]
  BY <1>1
<1> HIDE DEF after
<1> QED
  BY <1>2, <1>3 DEF Outcome, InTurn

LEMMA Bodies ==
    ASSUME NEW z, NEW x
    PROVE  /\ Body("ready", z, x) = MakeReady(z, x)
           /\ Body("admit", z, x) = Admit(z, x)
           /\ Body("count", z, x) = CountOne(z, x)
           /\ Body("unlock", z, x) = WakeMissed(z, x)
           /\ Body("expire", z, x) = Expire(z, x)
           /\ Body("tell", z, x) = TellIfMet(z, x)
           /\ Body("dismiss", z, x) = TellNothing(z, x)
           /\ Body("create", z, x) = CreateFirst(z, x)
  BY DEF Body

LEMMA MakeReadyLoop ==
    ASSUME NEW z, NEW l, NEW n \in Nat, DOMAIN l = 1 .. n
    PROVE  Outcome("ready", z, l, n, FoldLeft(MakeReady, z, l))
<1> DEFINE b(after, I) == IF I = {} THEN z ELSE MakeReady(after[I \ {Max(I)}], l[Max(I)])
           iter == CHOOSE after : after = [I \in SUBSET (1 .. n) |-> b(after, I)]
<1>1. FoldLeft(MakeReady, z, l) = iter[1 .. n]
  BY Zenon DEF FoldLeft, MapThenFoldSet
<1>2. \A w, x : Body("ready", w, x) = MakeReady(w, x)
  BY Bodies, Zenon
<1>3. \A after : Partial("ready", z, l, n, after) <=> after = [I \in SUBSET (1 .. n) |-> b(after, I)]
  BY <1>2, Zenon DEF Partial
<1> HIDE DEF b
<1>4. Partial("ready", z, l, n, iter)
  BY <1>3, PartialExists
<1> HIDE DEF iter
<1> QED
  BY <1>1, <1>4, LoopRuns

LEMMA AdmitLoop ==
    ASSUME NEW z, NEW l, NEW n \in Nat, DOMAIN l = 1 .. n
    PROVE  Outcome("admit", z, l, n, FoldLeft(Admit, z, l))
<1> DEFINE b(after, I) == IF I = {} THEN z ELSE Admit(after[I \ {Max(I)}], l[Max(I)])
           iter == CHOOSE after : after = [I \in SUBSET (1 .. n) |-> b(after, I)]
<1>1. FoldLeft(Admit, z, l) = iter[1 .. n]
  BY Zenon DEF FoldLeft, MapThenFoldSet
<1>2. \A w, x : Body("admit", w, x) = Admit(w, x)
  BY Bodies, Zenon
<1>3. \A after : Partial("admit", z, l, n, after) <=> after = [I \in SUBSET (1 .. n) |-> b(after, I)]
  BY <1>2, Zenon DEF Partial
<1> HIDE DEF b
<1>4. Partial("admit", z, l, n, iter)
  BY <1>3, PartialExists
<1> HIDE DEF iter
<1> QED
  BY <1>1, <1>4, LoopRuns

LEMMA CountOneLoop ==
    ASSUME NEW z, NEW l, NEW n \in Nat, DOMAIN l = 1 .. n
    PROVE  Outcome("count", z, l, n, FoldLeft(CountOne, z, l))
<1> DEFINE b(after, I) == IF I = {} THEN z ELSE CountOne(after[I \ {Max(I)}], l[Max(I)])
           iter == CHOOSE after : after = [I \in SUBSET (1 .. n) |-> b(after, I)]
<1>1. FoldLeft(CountOne, z, l) = iter[1 .. n]
  BY Zenon DEF FoldLeft, MapThenFoldSet
<1>2. \A w, x : Body("count", w, x) = CountOne(w, x)
  BY Bodies, Zenon
<1>3. \A after : Partial("count", z, l, n, after) <=> after = [I \in SUBSET (1 .. n) |-> b(after, I)]
  BY <1>2, Zenon DEF Partial
<1> HIDE DEF b
<1>4. Partial("count", z, l, n, iter)
  BY <1>3, PartialExists
<1> HIDE DEF iter
<1> QED
  BY <1>1, <1>4, LoopRuns

LEMMA WakeMissedLoop ==
    ASSUME NEW z, NEW l, NEW n \in Nat, DOMAIN l = 1 .. n
    PROVE  Outcome("unlock", z, l, n, FoldLeft(WakeMissed, z, l))
<1> DEFINE b(after, I) == IF I = {} THEN z ELSE WakeMissed(after[I \ {Max(I)}], l[Max(I)])
           iter == CHOOSE after : after = [I \in SUBSET (1 .. n) |-> b(after, I)]
<1>1. FoldLeft(WakeMissed, z, l) = iter[1 .. n]
  BY Zenon DEF FoldLeft, MapThenFoldSet
<1>2. \A w, x : Body("unlock", w, x) = WakeMissed(w, x)
  BY Bodies, Zenon
<1>3. \A after : Partial("unlock", z, l, n, after) <=> after = [I \in SUBSET (1 .. n) |-> b(after, I)]
  BY <1>2, Zenon DEF Partial
<1> HIDE DEF b
<1>4. Partial("unlock", z, l, n, iter)
  BY <1>3, PartialExists
<1> HIDE DEF iter
<1> QED
  BY <1>1, <1>4, LoopRuns

LEMMA ExpireLoop ==
    ASSUME NEW z, NEW l, NEW n \in Nat, DOMAIN l = 1 .. n
    PROVE  Outcome("expire", z, l, n, FoldLeft(Expire, z, l))
<1> DEFINE b(after, I) == IF I = {} THEN z ELSE Expire(after[I \ {Max(I)}], l[Max(I)])
           iter == CHOOSE after : after = [I \in SUBSET (1 .. n) |-> b(after, I)]
<1>1. FoldLeft(Expire, z, l) = iter[1 .. n]
  BY Zenon DEF FoldLeft, MapThenFoldSet
<1>2. \A w, x : Body("expire", w, x) = Expire(w, x)
  BY Bodies, Zenon
<1>3. \A after : Partial("expire", z, l, n, after) <=> after = [I \in SUBSET (1 .. n) |-> b(after, I)]
  BY <1>2, Zenon DEF Partial
<1> HIDE DEF b
<1>4. Partial("expire", z, l, n, iter)
  BY <1>3, PartialExists
<1> HIDE DEF iter
<1> QED
  BY <1>1, <1>4, LoopRuns

LEMMA TellIfMetLoop ==
    ASSUME NEW z, NEW l, NEW n \in Nat, DOMAIN l = 1 .. n
    PROVE  Outcome("tell", z, l, n, FoldLeft(TellIfMet, z, l))
<1> DEFINE b(after, I) == IF I = {} THEN z ELSE TellIfMet(after[I \ {Max(I)}], l[Max(I)])
           iter == CHOOSE after : after = [I \in SUBSET (1 .. n) |-> b(after, I)]
<1>1. FoldLeft(TellIfMet, z, l) = iter[1 .. n]
  BY Zenon DEF FoldLeft, MapThenFoldSet
<1>2. \A w, x : Body("tell", w, x) = TellIfMet(w, x)
  BY Bodies, Zenon
<1>3. \A after : Partial("tell", z, l, n, after) <=> after = [I \in SUBSET (1 .. n) |-> b(after, I)]
  BY <1>2, Zenon DEF Partial
<1> HIDE DEF b
<1>4. Partial("tell", z, l, n, iter)
  BY <1>3, PartialExists
<1> HIDE DEF iter
<1> QED
  BY <1>1, <1>4, LoopRuns

LEMMA TellNothingLoop ==
    ASSUME NEW z, NEW l, NEW n \in Nat, DOMAIN l = 1 .. n
    PROVE  Outcome("dismiss", z, l, n, FoldLeft(TellNothing, z, l))
<1> DEFINE b(after, I) == IF I = {} THEN z ELSE TellNothing(after[I \ {Max(I)}], l[Max(I)])
           iter == CHOOSE after : after = [I \in SUBSET (1 .. n) |-> b(after, I)]
<1>1. FoldLeft(TellNothing, z, l) = iter[1 .. n]
  BY Zenon DEF FoldLeft, MapThenFoldSet
<1>2. \A w, x : Body("dismiss", w, x) = TellNothing(w, x)
  BY Bodies, Zenon
<1>3. \A after : Partial("dismiss", z, l, n, after) <=> after = [I \in SUBSET (1 .. n) |-> b(after, I)]
  BY <1>2, Zenon DEF Partial
<1> HIDE DEF b
<1>4. Partial("dismiss", z, l, n, iter)
  BY <1>3, PartialExists
<1> HIDE DEF iter
<1> QED
  BY <1>1, <1>4, LoopRuns

LEMMA CreateFirstLoop ==
    ASSUME NEW z, NEW l, NEW n \in Nat, DOMAIN l = 1 .. n
    PROVE  Outcome("create", z, l, n, FoldLeft(CreateFirst, z, l))
<1> DEFINE b(after, I) == IF I = {} THEN z ELSE CreateFirst(after[I \ {Max(I)}], l[Max(I)])
           iter == CHOOSE after : after = [I \in SUBSET (1 .. n) |-> b(after, I)]
<1>1. FoldLeft(CreateFirst, z, l) = iter[1 .. n]
  BY Zenon DEF FoldLeft, MapThenFoldSet
<1>2. \A w, x : Body("create", w, x) = CreateFirst(w, x)
  BY Bodies, Zenon
<1>3. \A after : Partial("create", z, l, n, after) <=> after = [I \in SUBSET (1 .. n) |-> b(after, I)]
  BY <1>2, Zenon DEF Partial
<1> HIDE DEF b
<1>4. Partial("create", z, l, n, iter)
  BY <1>3, PartialExists
<1> HIDE DEF iter
<1> QED
  BY <1>1, <1>4, LoopRuns

----------------------------------------------------------------------------
(* The tick, the context switch and the suspension of the scheduler         *)

\* The time may have passed, but the same task runs.
Rests(from, z) == z.cur = from.cur /\ z.susp = from.susp
Timely(z, from) == KernelOK(z, z) /\ Rests(from, z)

\* One tick later: the tick count goes on, or wraps and is counted.
NextTick(z, y) ==
    /\ y.tick = IF z.tick = Ticks - 1 THEN 0 ELSE z.tick + 1
    /\ y.overflows = IF z.tick = Ticks - 1 THEN (z.overflows + 1) % Overflows ELSE z.overflows

\* At most m ticks have passed since the tick count was noted, and it has not
\* come round to that time again.
Within(z, since, m) ==
    /\ z.overflows = since.overflows \/ z.tick < since.tick
    /\ Turn(z.tick - since.tick) <= m

\* From z to y no more than n ticks have passed.
Later(z, y, n) ==
    \A since, m : since.tick \in Time /\ m \in Int /\ m + n < Ticks /\ Within(z, since, m) => Within(y, since, m + n)

LEMMA TickLater ==
    ASSUME NEW z, z.tick \in Time, NEW y, NextTick(z, y), NEW since, since.tick \in Time, NEW m \in Int, m + 1 < Ticks,
           Within(z, since, m)
    PROVE  Within(y, since, m + 1)
<1> DEFINE a == z.tick
           b == since.tick
           c == y.tick
<1>1. a \in Time /\ b \in Time /\ Ticks \in Nat /\ Ticks > 2
  BY TicksAssumption
<1>2. c = (IF a = Ticks - 1 THEN 0 ELSE a + 1) /\ (a # Ticks - 1 => y.overflows = z.overflows)
  BY DEF NextTick
<1>3. (z.overflows = since.overflows \/ a < b) /\ Turn(a - b) <= m
  BY DEF Within
<1> HIDE DEF a, b, c
<1>4. a - b \in (-Ticks) .. (Ticks + Ticks - 1) /\ c - b \in (-Ticks) .. (Ticks + Ticks - 1) /\ c \in Time
  BY <1>1, <1>2 DEF Time
<1>5. /\ Turn(a - b) = IF a - b < 0 THEN a - b + Ticks ELSE IF a - b < Ticks THEN a - b ELSE a - b - Ticks
      /\ Turn(c - b) = IF c - b < 0 THEN c - b + Ticks ELSE IF c - b < Ticks THEN c - b ELSE c - b - Ticks
  BY <1>4, Turns
<1>6. Turn(c - b) <= m + 1 /\ (a < b => c < b) /\ (a = Ticks - 1 => c < b)
  BY <1>1, <1>2, <1>3, <1>5 DEF Time
<1>7. y.overflows = since.overflows \/ c < b
  BY <1>2, <1>3, <1>6
<1> QED
  BY <1>6, <1>7 DEF Within, b, c

\* When the tick count wraps nobody sleeps until before the wrap, and those
\* that sleep until after it take their place.
LEMMA SwitchListsOK ==
    ASSUME NEW z, Shape(z), OnePlace(z), Known(z), z.delayed = <<>>, z.tick = 0, Sorted(z.overflow, z.wake)
    PROVE  /\ KernelAt(taskSWITCH_DELAYED_LISTS(z), taskSWITCH_DELAYED_LISTS(z), 0)
           /\ Rests(z, taskSWITCH_DELAYED_LISTS(z))
<1> DEFINE w == configASSERT(z, z.delayed = <<>>)
           y == [w EXCEPT !.delayed = z.overflow, !.overflow = z.delayed, !.overflows = (@ + 1) % Overflows]
           x == prvResetNextTaskUnblockTime(y)
           Twin(l) == IF l = "delayed" THEN "overflow" ELSE IF l = "overflow" THEN "delayed" ELSE l
<1>1. w = z /\ DOMAIN z = Fields
  BY DEF configASSERT, Shape
<1> HIDE DEF w
<1>2. /\ DOMAIN y = Fields /\ y.ready = z.ready /\ y.prio = z.prio /\ y.base = z.base /\ y.key = z.key
      /\ y.pended = z.pended /\ y.events = z.events /\ y.wake = z.wake /\ y.tick = 0 /\ y.next = z.next
      /\ y.top = z.top /\ y.cur = z.cur /\ y.susp = z.susp /\ y.delayed = z.overflow /\ y.overflow = z.delayed
  BY <1>1 DEF Fields
<1>7. \A l \in Elsewhere : y[l] = z[Twin(l)]
  BY <1>1 DEF Fields, Elsewhere
<1>3. \A l \in Elsewhere : Twin(l) \in Elsewhere
  BY DEF Elsewhere
<1>4. \A l, m \in Elsewhere : Twin(l) = Twin(m) => l = m
  BY DEF Elsewhere
<1> HIDE DEF y, Twin
<1>5. Shape(y)
  BY <1>2, <1>3, <1>7 DEF Shape
<1>6. OnePlace(y) /\ Known(y) /\ Sorted(y.delayed, y.wake)
  BY <1>2, <1>3, <1>4, <1>7 DEF OnePlace, InReady, Known
<1>8. DOMAIN x = Fields /\ x.next = Earliest(y) /\ \A f \in Fields \ {"next"} : x[f] = y[f]
  BY <1>2 DEF prvResetNextTaskUnblockTime, Earliest, Fields
<1> HIDE DEF x
<1>9. /\ x.ready = y.ready /\ x.prio = y.prio /\ x.base = y.base /\ x.key = y.key
      /\ x.pended = y.pended /\ x.events = y.events /\ x.wake = y.wake /\ x.tick = y.tick
      /\ x.top = y.top /\ x.cur = y.cur /\ x.susp = y.susp /\ x.delayed = y.delayed /\ x.overflow = y.overflow
  BY <1>8 DEF Fields
<1>14. \A l \in Elsewhere : x[l] = y[l]
  BY <1>8 DEF Fields, Elsewhere
<1>10. Earliest(y) \in Time /\ \A t \in Task : Contains(y.delayed, t) => Earliest(y) <= y.wake[t]
  BY <1>5, <1>6, EarliestFirst
<1>11. Shape(x)
  BY <1>5, <1>8, <1>9, <1>10, <1>14 DEF Shape
<1>12. OnePlace(x) /\ Known(x)
  BY <1>6, <1>9, <1>14 DEF OnePlace, InReady, Known
<1>13. Asleep(x, 0)
  <2>1. Sorted(x.delayed, x.wake) /\ Sorted(x.overflow, x.wake)
    BY <1>2, <1>6, <1>9 DEF Sorted
  <2>2. \A t \in Task : 0 + 0 <= y.wake[t]
    BY <1>5, TicksAssumption DEF Shape, Time
  <2>3. \A t \in Task : ~Contains(x.overflow, t)
    BY <1>2, <1>9 DEF Contains
  <2> QED
    BY <1>2, <1>8, <1>9, <1>10, <2>1, <2>2, <2>3 DEF Asleep
<1>15. x = taskSWITCH_DELAYED_LISTS(z)
  BY DEF taskSWITCH_DELAYED_LISTS, x, y, w
<1> QED
  BY <1>2, <1>9, <1>11, <1>12, <1>13, <1>15 DEF KernelAt, Settled, Steady, SameTime, Rests

LEMMA AdvanceOK ==
    ASSUME NEW z, NEW from, KernelOK(z, from)
    PROVE  KernelAt(Advance(z), Advance(z), 0) /\ Rests(z, Advance(z))
<1>1. Shape(z) /\ OnePlace(z) /\ Known(z) /\ Asleep(z, 1)
  BY DEF KernelOK, KernelAt, Settled
<1>2. DOMAIN z = Fields /\ z.tick \in Time /\ z.delayed \in Seq(Task) /\ z.overflow \in Seq(Task)
      /\ z.wake \in [Task -> Time] /\ Ticks \in Nat /\ Ticks > 2
  BY <1>1, TicksAssumption DEF Shape, Elsewhere
<1>3. ASSUME NEW v \in Time, NEW y, y = [z EXCEPT !.tick = v]
      PROVE  /\ Shape(y) /\ OnePlace(y) /\ Known(y) /\ Rests(z, y) /\ y.tick = v /\ y.next = z.next
             /\ y.delayed = z.delayed /\ y.overflow = z.overflow /\ y.wake = z.wake
  <2>1. DOMAIN y = Fields /\ y.tick = v /\ \A f \in Fields \ {"tick"} : y[f] = z[f]
    BY <1>2, <1>3 DEF Fields
  <2>2. /\ y.ready = z.ready /\ y.prio = z.prio /\ y.base = z.base /\ y.key = z.key
        /\ y.pended = z.pended /\ y.events = z.events /\ y.wake = z.wake /\ y.next = z.next
        /\ y.top = z.top /\ y.cur = z.cur /\ y.susp = z.susp /\ y.delayed = z.delayed /\ y.overflow = z.overflow
        /\ \A l \in Elsewhere : y[l] = z[l]
    BY <2>1 DEF Fields, Elsewhere
  <2>3. Shape(y)
    BY <1>1, <2>1, <2>2 DEF Shape
  <2>4. OnePlace(y) /\ Known(y)
    BY <1>1, <2>2 DEF OnePlace, Known, InReady
  <2> QED
    BY <2>1, <2>2, <2>3, <2>4 DEF Rests
<1>4. CASE z.tick = Ticks - 1
  <2> DEFINE y == [z EXCEPT !.tick = 0]
  <2>1. 0 \in Time
    BY <1>2 DEF Time
  <2>2. /\ Shape(y) /\ OnePlace(y) /\ Known(y) /\ Rests(z, y) /\ y.tick = 0
        /\ y.delayed = z.delayed /\ y.overflow = z.overflow /\ y.wake = z.wake
    BY <1>3, <2>1
  <2> HIDE DEF y
  <2>3. \A t \in Task : ~Contains(z.delayed, t)
    <3>1. \A t \in Task : z.wake[t] \in Int /\ z.wake[t] < Ticks
      BY <1>2 DEF Time
    <3> QED
      BY <1>1, <1>2, <1>4, <3>1 DEF Asleep
  <2>4. z.delayed = <<>>
    <3>1. ASSUME z.delayed # <<>> PROVE FALSE
      <4>1. 1 \in DOMAIN z.delayed /\ z.delayed[1] \in Task
        BY <1>2, <3>1
      <4> QED
        BY <2>3, <4>1 DEF Contains
    <3> QED
      BY <3>1
  <2>5. KernelAt(taskSWITCH_DELAYED_LISTS(y), taskSWITCH_DELAYED_LISTS(y), 0) /\ Rests(y, taskSWITCH_DELAYED_LISTS(y))
    BY <1>1, <2>2, <2>4, SwitchListsOK DEF Asleep
  <2> QED
    BY <1>4, <2>2, <2>5 DEF Advance, Rests, y
<1>5. CASE z.tick # Ticks - 1
  <2> DEFINE v == z.tick + 1
             y == [z EXCEPT !.tick = v]
  <2>1. v \in Time /\ z.tick \in Int
    BY <1>2, <1>5 DEF Time
  <2>2. /\ Shape(y) /\ OnePlace(y) /\ Known(y) /\ Rests(z, y) /\ y.tick = v /\ y.next = z.next
        /\ y.delayed = z.delayed /\ y.overflow = z.overflow /\ y.wake = z.wake
    BY <1>3, <2>1
  <2> HIDE DEF y
  <2>3. Asleep(y, 0)
    <3>1. \A t \in Task : z.wake[t] \in Int
      BY <1>2 DEF Time
    <3>2. Sorted(y.delayed, y.wake) /\ Sorted(y.overflow, y.wake)
      BY <1>1, <2>2 DEF Asleep
    <3>3. \A t \in Task : Contains(z.delayed, t) => v + 0 <= z.wake[t] /\ z.next <= z.wake[t]
      BY <1>1, <2>1, <3>1 DEF Asleep
    <3>4. \A t \in Task : Contains(z.overflow, t) => z.wake[t] < v
      BY <1>1, <2>1, <3>1 DEF Asleep
    <3> QED
      BY <2>2, <3>2, <3>3, <3>4 DEF Asleep
  <2>4. KernelAt(y, y, 0)
    BY <2>2, <2>3 DEF KernelAt, Settled, Steady, SameTime
  <2> QED
    BY <1>5, <2>2, <2>4 DEF Advance, y
<1> QED
  BY <1>4, <1>5

\* c: the kernel before, and those to be made ready, i of whom are.
Waking(c, i, z) ==
    /\ KernelAt(z, c.k, 0) /\ z.wake = c.k.wake
    /\ \A t \in Task : Contains(z.delayed, t) => Contains(c.k.delayed, t) /\ \A j \in 1 .. i : t # c.due[j]

LEMMA MakeReadyWakes ==
    ASSUME NEW z, NEW from, NEW n, KernelAt(z, from, n), NEW t \in Task
    PROVE  /\ MakeReady(z, t).wake = z.wake
           /\ \A u \in Task : Contains(MakeReady(z, t).delayed, u) => u # t /\ Contains(z.delayed, u)
<1>1. DOMAIN z = Fields /\ z.delayed \in Seq(Task) /\ Unique(z.delayed)
  BY DEF KernelAt, Settled, Shape, OnePlace, Elsewhere
<1>2. MakeReady(z, t).wake = z.wake /\ MakeReady(z, t).delayed = RemoveFirst(z.delayed, t)
  BY <1>1 DEF MakeReady, RemoveEvent, RemoveState, prvAddTaskToReadyList, Fields
<1>3. Dropped(z.delayed, t, RemoveFirst(z.delayed, t))
  BY <1>1, RemoveFirstDrops
<1> HIDE DEF MakeReady
<1> QED
  BY <1>1, <1>2, <1>3 DEF Dropped

LEMMA ReadyAllOK ==
    ASSUME NEW z, KernelAt(z, z, 0), NEW l \in Seq(Task), NEW y, y = FoldLeft(MakeReady, z, l)
    PROVE  /\ KernelAt(y, z, 0) /\ y.wake = z.wake
           /\ \A t \in Task : Contains(y.delayed, t) => Contains(z.delayed, t) /\ ~Contains(l, t)
<1> DEFINE n == Len(l)
           c == [k |-> z, due |-> l]
<1>1. n \in Nat /\ DOMAIN l = 1 .. n /\ \A i \in 1 .. n : l[i] \in Task
  OBVIOUS
<1> HIDE DEF n
<1>2. ASSUME NEW i \in 1 .. n, NEW x, Waking(c, i - 1, x) PROVE Waking(c, i, MakeReady(x, l[i]))
  <2> DEFINE w == MakeReady(x, l[i])
  <2>1. KernelAt(x, z, 0) /\ x.wake = z.wake
        /\ \A t \in Task : Contains(x.delayed, t) => Contains(z.delayed, t) /\ \A j \in 1 .. i - 1 : t # l[j]
    BY <1>2 DEF Waking
  <2>2. KernelAt(w, z, 0) /\ w.wake = z.wake
        /\ \A t \in Task : Contains(w.delayed, t) => t # l[i] /\ Contains(x.delayed, t)
    BY <1>1, <2>1, MakeReadyAt, MakeReadyWakes
  <2> HIDE DEF w
  <2>3. \A j \in 1 .. i : j = i \/ j \in 1 .. i - 1
    BY <1>1
  <2> QED
    BY <2>1, <2>2, <2>3 DEF Waking, w
<1>3. Waking(c, 0, z)
  BY DEF Waking
<1>14. Outcome("ready", z, l, n, y)
  BY <1>1, MakeReadyLoop
<1>4. PICK after : InTurn("ready", z, l, n, after) /\ after[n] = y
  BY <1>14 DEF Outcome
<1>15. after[0] = z /\ \A i \in 1 .. n : after[i] = MakeReady(after[i - 1], l[i])
  BY <1>4, Bodies DEF InTurn
<1> DEFINE S == {i \in 0 .. n : Waking(c, i, after[i])}
<1>5. 0 \in S /\ \A i \in 1 .. n : i - 1 \in S => i \in S
  <2> HIDE DEF c
  <2>1. ASSUME NEW i \in 1 .. n, Waking(c, i - 1, after[i - 1]) PROVE Waking(c, i, after[i])
    BY <1>2, <1>15, <2>1
  <2> QED
    BY <1>1, <1>3, <1>15, <2>1
<1>6. Waking(c, n, y)
  <2> HIDE DEF S
  <2>1. n \in S
    BY <1>1, <1>5, Climb
  <2> QED
    BY <1>4, <2>1 DEF S
<1>7. \A t \in Task : Contains(y.delayed, t) => Contains(z.delayed, t) /\ \A j \in 1 .. n : t # l[j]
  BY <1>6 DEF Waking
<1>8. \A t \in Task : (\A j \in 1 .. n : t # l[j]) => ~Contains(l, t)
  BY <1>1 DEF Contains
<1> QED
  BY <1>6, <1>7, <1>8 DEF Waking

\* Those that are due are the first of the list.
LEMMA DueIs ==
    ASSUME NEW z, KernelAt(z, z, 0)
    PROVE  /\ Due(z) \in Seq(Task)
           /\ \/ z.tick < z.next
              \/ \A i \in 1 .. Len(z.delayed) : ~(z.wake[z.delayed[i]] > z.tick) => Contains(Due(z), z.delayed[i])
<1> DEFINE p == SelectInSeq(z.delayed, LAMBDA t : z.wake[t] > z.tick)
           I == {i \in 1 .. Len(z.delayed) : z.wake[z.delayed[i]] > z.tick}
<1>1. z.delayed \in Seq(Task) /\ Shape(z) /\ Asleep(z, 0) /\ z.tick \in Int /\ \A t \in Task : z.wake[t] \in Int
  <2>1. Shape(z) /\ Asleep(z, 0)
    BY DEF KernelAt, Settled
  <2> QED
    BY <2>1, TicksAssumption DEF Shape, Elsewhere, Time
<1>9. z.next \in Int
  BY <1>1, TicksAssumption DEF Shape, Time
<1>2. p = (IF I # {} THEN Min(I) ELSE 0) /\ Due(z) = IF z.tick < z.next THEN <<>> ELSE IF p = 0 THEN z.delayed ELSE SubSeq(z.delayed, 1, p - 1)
  BY Zenon DEF Due, SelectInSeq
<1>3. IF p = 0 THEN I = {} ELSE p \in I
  <2>1. I \in SUBSET Nat
    OBVIOUS
  <2>2. I # {} => Min(I) \in I
    BY <2>1, LeastIs
  <2>3. 0 \notin I
    OBVIOUS
  <2> HIDE DEF p, I
  <2> QED
    BY <1>2, <2>2, <2>3
<1>10. I \subseteq 1 .. Len(z.delayed) /\ \A i \in 1 .. Len(z.delayed) : i \notin I => ~(z.wake[z.delayed[i]] > z.tick)
  OBVIOUS
<1>11. p # 0 => p \in 1 .. Len(z.delayed) /\ z.wake[z.delayed[p]] > z.tick
  BY <1>3
<1> HIDE DEF p, I
<1>21. CASE p = 0 \/ z.tick < z.next
  <2>1. \A i \in 1 .. Len(z.delayed) : Contains(z.delayed, z.delayed[i])
    BY <1>1 DEF Contains
  <2> QED
    BY <1>1, <1>2, <1>21, <2>1
<1>22. CASE p # 0 /\ ~(z.tick < z.next)
  <2> DEFINE m == SubSeq(z.delayed, 1, p - 1)
  <2>1. m \in Seq(Task) /\ Len(m) = p - 1 /\ \A i \in 1 .. p - 1 : m[i] = z.delayed[i]
    BY <1>1, <1>11, <1>22, SubSeqProperties
  <2> HIDE DEF m
  <2>2. Due(z) = m
    BY <1>2, <1>22 DEF m
  <2>3. ASSUME NEW i \in 1 .. Len(z.delayed), ~(z.wake[z.delayed[i]] > z.tick) PROVE i \in 1 .. p - 1
    <3>1. p < i => z.wake[z.delayed[p]] <= z.wake[z.delayed[i]]
      BY <1>1, <1>11, <1>22 DEF Asleep, Sorted
    <3>2. z.wake[z.delayed[p]] \in Int /\ z.wake[z.delayed[i]] \in Int /\ z.wake[z.delayed[p]] > z.tick
      BY <1>1, <1>11, <1>22
    <3>3. ~(p < i) /\ p # i
      BY <1>1, <2>3, <3>1, <3>2
    <3> QED
      BY <1>11, <1>22, <3>3
  <2>4. \A i \in 1 .. p - 1 : Contains(m, z.delayed[i])
    BY <2>1 DEF Contains
  <2> QED
    BY <2>1, <2>2, <2>3, <2>4
<1> QED
  BY <1>21, <1>22

\* All that are due are made ready: those that remain have to wait.
LEMMA WakeDueOK ==
    ASSUME NEW z, KernelAt(z, z, 0)
    PROVE  KernelOK(WakeDue(z), z)
<1> DEFINE w == FoldLeft(MakeReady, z, Due(z))
<1>1. z.delayed \in Seq(Task) /\ Shape(z) /\ Asleep(z, 0) /\ z.tick \in Int /\ \A t \in Task : z.wake[t] \in Int
  <2>1. Shape(z) /\ Asleep(z, 0)
    BY DEF KernelAt, Settled
  <2> QED
    BY <2>1, TicksAssumption DEF Shape, Elsewhere, Time
<1>9. z.next \in Int
  BY <1>1, TicksAssumption DEF Shape, Time
<1>4. Due(z) \in Seq(Task) /\ (z.tick < z.next \/ \A i \in 1 .. Len(z.delayed) : ~(z.wake[z.delayed[i]] > z.tick) => Contains(Due(z), z.delayed[i]))
  BY DueIs
<1>5. CASE z.tick < z.next
  <2>1. Asleep(z, 1)
    <3>1. \A t \in Task : Contains(z.delayed, t) => z.tick + 1 <= z.wake[t] /\ z.next <= z.wake[t]
      BY <1>1, <1>5, <1>9 DEF Asleep
    <3> QED
      BY <1>1, <3>1 DEF Asleep
  <2>2. KernelOK(z, z)
    BY <2>1 DEF KernelOK, KernelAt, Settled
  <2> QED
    BY <1>5, <2>2, Zenon DEF WakeDue
<1>6. CASE ~(z.tick < z.next)
  <2>1. /\ KernelAt(w, z, 0) /\ w.wake = z.wake
        /\ \A t \in Task : Contains(w.delayed, t) => Contains(z.delayed, t) /\ ~Contains(Due(z), t)
    BY <1>4, ReadyAllOK, Zenon
  <2> HIDE DEF w
  <2>2. Shape(w) /\ Asleep(w, 0) /\ w.tick = z.tick
    BY <2>1 DEF KernelAt, Settled, Steady, SameTime
  <2>3. ASSUME NEW t \in Task, Contains(w.delayed, t) PROVE z.tick + 1 <= z.wake[t]
    <3>1. PICK i \in DOMAIN z.delayed : z.delayed[i] = t
      BY <2>1, <2>3 DEF Contains
    <3>2. i \in 1 .. Len(z.delayed)
      BY <1>1
    <3>3. z.wake[t] > z.tick
      BY <1>4, <1>6, <2>1, <2>3, <3>1, <3>2
    <3> QED
      BY <1>1, <3>3
  <2>4. Asleep(w, 1)
    BY <2>1, <2>2, <2>3 DEF Asleep
  <2>5. KernelOK(w, z)
    BY <2>1, <2>4 DEF KernelOK, KernelAt, Settled
  <2>6. KernelOK(prvResetNextTaskUnblockTime(w), z)
    BY <2>5, MovelessOK, Zenon
  <2> QED
    BY <1>6, <2>6, Zenon DEF WakeDue, w
<1> QED
  BY <1>5, <1>6

LEMMA PendedOK ==
    ASSUME NEW z, NEW from, KernelOK(z, from), NEW y, DOMAIN y = Fields, y.pended \in Nat,
           \A f \in Fields \ {"pended"} : y[f] = z[f]
    PROVE  KernelOK(y, y) /\ Rests(z, y)
<1>1. Shape(z) /\ OnePlace(z) /\ Known(z) /\ Asleep(z, 1)
  BY DEF KernelOK, KernelAt, Settled
<1>2. /\ y.ready = z.ready /\ y.prio = z.prio /\ y.base = z.base /\ y.key = z.key
      /\ y.events = z.events /\ y.wake = z.wake /\ y.tick = z.tick /\ y.overflows = z.overflows /\ y.next = z.next
      /\ y.top = z.top /\ y.cur = z.cur /\ y.susp = z.susp /\ y.delayed = z.delayed /\ y.overflow = z.overflow
      /\ \A l \in Elsewhere : y[l] = z[l]
  BY DEF Fields, Elsewhere
<1>3. Shape(y)
  BY <1>1, <1>2 DEF Shape
<1>4. OnePlace(y) /\ Known(y) /\ Asleep(y, 1)
  BY <1>1, <1>2 DEF OnePlace, Known, Asleep, InReady
<1> QED
  BY <1>2, <1>3, <1>4 DEF KernelOK, KernelAt, Settled, Steady, SameTime, Rests

\* A tick: counted while the scheduler is suspended.
LEMMA TickOK ==
    ASSUME NEW z, NEW from, KernelOK(z, from)
    PROVE  KernelOK(xTaskIncrementTick(z).k, xTaskIncrementTick(z).k) /\ Rests(z, xTaskIncrementTick(z).k)
<1>1. KernelOK(WakeDue(Advance(z)), WakeDue(Advance(z))) /\ Rests(z, WakeDue(Advance(z)))
  <2> DEFINE a == Advance(z)
  <2>1. KernelAt(a, a, 0) /\ Rests(z, a)
    BY AdvanceOK
  <2> HIDE DEF a
  <2>2. KernelOK(WakeDue(a), a)
    BY <2>1, WakeDueOK
  <2>3. KernelOK(WakeDue(a), WakeDue(a)) /\ Steady(a, WakeDue(a))
    BY <2>2, Own
  <2> QED
    BY <2>1, <2>3 DEF Steady, SameTime, Rests, a
<1> HIDE DEF WakeDue, Advance
<1>2. CASE z.susp > 0
  <2> DEFINE y == [z EXCEPT !.pended = z.pended + 1]
  <2>1. DOMAIN z = Fields /\ z.pended \in Nat
    BY DEF KernelOK, KernelAt, Settled, Shape
  <2>2. DOMAIN y = Fields /\ y.pended \in Nat /\ \A f \in Fields \ {"pended"} : y[f] = z[f]
    BY <2>1 DEF Fields
  <2>3. xTaskIncrementTick(z).k = y
    BY <1>2 DEF xTaskIncrementTick
  <2> HIDE DEF y
  <2>4. KernelOK(y, y) /\ Rests(z, y)
    BY <2>2, PendedOK
  <2> QED
    BY <2>3, <2>4
<1>3. CASE ~(z.susp > 0)
  <2>1. xTaskIncrementTick(z).k = WakeDue(Advance(z))
    BY <1>3 DEF xTaskIncrementTick, Ticked
  <2> QED
    BY <1>1, <2>1
<1> QED
  BY <1>2, <1>3

LEMMA TickTime ==
    ASSUME NEW z, NEW from, KernelOK(z, from), NEW y, y = xTaskIncrementTick(z).k
    PROVE  /\ z.susp > 0 => y.tick = z.tick /\ y.overflows = z.overflows /\ y.pended = z.pended + 1
           /\ ~(z.susp > 0) => NextTick(z, y) /\ y.pended = z.pended
<1>1. DOMAIN z = Fields
  BY DEF KernelOK, KernelAt, Settled, Shape
<1>2. CASE z.susp > 0
  BY <1>1, <1>2 DEF xTaskIncrementTick, Fields
<1>3. CASE ~(z.susp > 0)
  <2> DEFINE a == Advance(z)
  <2>1. y = WakeDue(a)
    BY <1>3 DEF xTaskIncrementTick, Ticked
  <2>2. NextTick(z, a) /\ a.pended = z.pended
    BY <1>1 DEF Advance, taskSWITCH_DELAYED_LISTS, prvResetNextTaskUnblockTime, configASSERT, NextTick, Fields
  <2>3. KernelAt(a, a, 0)
    BY AdvanceOK
  <2> HIDE DEF a
  <2>4. KernelOK(y, a)
    BY <2>1, <2>3, WakeDueOK
  <2> QED
    BY <1>3, <2>2, <2>4 DEF KernelOK, KernelAt, Settled, Steady, SameTime, NextTick
<1> QED
  BY <1>2, <1>3

LEMMA SwitchOK ==
    ASSUME NEW z, NEW from, KernelOK(z, from), NEW x, x = vTaskSwitchContext(z)
    PROVE  KernelOK(x, x) /\ x.susp = z.susp /\ (z.susp > 0 => x.cur = z.cur) /\ SameTime(z, x)
<1> DEFINE p == Max(z.top)
           l == z.ready[p]
           y == [z EXCEPT !.yield = FALSE, !.ready[p].pxIndex = NextEntry(l), !.cur = l.items[NextEntry(l)]]
<1>1. DOMAIN z = Fields /\ Shape(z) /\ OnePlace(z) /\ Known(z) /\ Asleep(z, 1)
  BY DEF KernelOK, KernelAt, Settled, Shape
<1>2. /\ Alike(z, [z EXCEPT !.yield = TRUE]) /\ Alike(z, [z EXCEPT !.halted = TRUE])
      /\ Steady(z, [z EXCEPT !.yield = TRUE]) /\ Steady(z, [z EXCEPT !.halted = TRUE])
  BY <1>1 DEF Alike, Fields, Kept, Steady, SameTime
<1>3. ASSUME l.items # <<>> PROVE KernelOK(y, y) /\ y.susp = z.susp /\ SameTime(z, y)
  <2>1. /\ DOMAIN y = Fields /\ y.prio = z.prio /\ y.base = z.base /\ y.key = z.key
        /\ y.pended = z.pended /\ y.events = z.events /\ \A m \in Elsewhere : y[m] = z[m]
        /\ y.wake = z.wake /\ y.tick = z.tick /\ y.overflows = z.overflows /\ y.next = z.next /\ y.top = z.top
        /\ y.susp = z.susp /\ y.delayed = z.delayed /\ y.overflow = z.overflow
        /\ y.ready = [z.ready EXCEPT ![p].pxIndex = NextEntry(l)]
    BY <1>1 DEF Fields, Elsewhere
  <2> HIDE DEF y
  <2>2. ASSUME p \in Prio PROVE NextEntry(l) \in 0 .. Len(l.items)
    <3>1. l.items \in Seq(Task) /\ l.pxIndex \in 0 .. Len(l.items)
      BY <1>1, <2>2 DEF Shape, ReadyList
    <3>2. Len(l.items) \in Nat \ {0} /\ l.pxIndex \in Nat
      BY <1>3, <3>1
    <3>3. \A a \in Nat : \A b \in Nat \ {0} : (a % b) + 1 \in 0 .. b
      OBVIOUS
    <3> QED
      BY <3>2, <3>3 DEF NextEntry
  <2>3. DOMAIN y.ready = Prio
    BY <1>1, <2>1 DEF Shape
  <2>4. \A r \in Prio : DOMAIN y.ready[r] = DOMAIN z.ready[r] /\ y.ready[r].items = z.ready[r].items
                        /\ (r # p => y.ready[r] = z.ready[r])
    BY <1>1, <2>1 DEF Shape, ReadyList
  <2>5. p \in Prio => y.ready[p].pxIndex = NextEntry(l)
    BY <1>1, <2>1 DEF Shape, ReadyList
  <2>6. \A r \in Prio : ReadyList(y.ready[r])
    <3> TAKE r \in Prio
    <3> HIDE DEF p, l
    <3>1. CASE r = p
      BY <1>1, <2>2, <2>4, <2>5, <3>1 DEF Shape, ReadyList, l
    <3>2. CASE r # p
      BY <1>1, <2>4, <3>2 DEF Shape
    <3> QED
      BY <3>1, <3>2
  <2> HIDE DEF p, l
  <2>7. \A r \in Prio : y.ready[r].items = z.ready[r].items
    BY <2>4
  <2>8. /\ y.prio \in [Task -> Prio] /\ y.base \in [Task -> Prio] /\ y.key \in [Task -> 1 .. configMAX_PRIORITIES]
        /\ y.wake \in [Task -> Time] /\ y.tick \in Time /\ y.next \in Time /\ y.pended \in Nat
        /\ y.events \in [EventList -> Seq(Task)] /\ \A m \in Elsewhere : y[m] \in Seq(Task)
    BY <1>1, <2>1 DEF Shape
  <2>9. Shape(y)
    BY ONLY <2>1, <2>3, <2>6, <2>8 DEF Shape
  <2>10. OnePlace(y) /\ Known(y)
    BY ONLY <1>1, <2>1, <2>7 DEF OnePlace, Known, InReady
  <2>11. Asleep(y, 1)
    BY <1>1, <2>1 DEF Asleep
  <2> QED
    BY <2>1, <2>9, <2>10, <2>11 DEF KernelOK, KernelAt, Settled, Steady, SameTime
<1>4. \/ z.susp > 0 /\ x = [z EXCEPT !.yield = TRUE]
      \/ x = [z EXCEPT !.halted = TRUE]
      \/ ~(z.susp > 0) /\ l.items # <<>> /\ x = y
  BY DEF vTaskSwitchContext
<1> HIDE DEF y, l
<1>5. \A w : Alike(z, w) /\ Steady(z, w) => KernelOK(w, w) /\ w.susp = z.susp /\ w.cur = z.cur /\ SameTime(z, w)
  BY AlikeOK DEF Steady, SameTime
<1> QED
  BY <1>2, <1>3, <1>4, <1>5

LEMMA AdmitOK ==
    ASSUME NEW z, NEW from, KernelOK(z, from), NEW t \in Task
    PROVE  KernelOK(Admit(z, t), from)
<1> DEFINE y == MakeReady(z, t)
<1>1. KernelOK(y, from)
  BY MakeReadyOK
<1> HIDE DEF y
<1>3. \A v : KernelOK([y EXCEPT !.yield = v], from)
  BY <1>1, YieldedOK
<1>4. Admit(z, t) = [y EXCEPT !.yield = y.yield \/ z.prio[t] >= z.prio[z.cur]]
  BY Zenon DEF Admit, y
<1> QED
  BY <1>3, <1>4

LEMMA AdmitPendingOK ==
    ASSUME NEW z, NEW from, KernelOK(z, from)
    PROVE  KernelOK(AdmitPending(z), from)
<1> DEFINE l == z.events[Pending]
           n == Len(l)
<1>1. l \in Seq(Task)
  BY DEF KernelOK, KernelAt, Settled, Shape, EventList
<1>2. n \in Nat /\ DOMAIN l = 1 .. n
  BY <1>1
<1> HIDE DEF l
<1> HIDE DEF n
<1>14. Outcome("admit", z, l, n, FoldLeft(Admit, z, l))
  BY <1>2, AdmitLoop
<1>5. PICK after : InTurn("admit", z, l, n, after) /\ after[n] = FoldLeft(Admit, z, l)
  BY <1>14 DEF Outcome
<1>15. after[0] = z /\ \A i \in 1 .. n : after[i] = Admit(after[i - 1], l[i])
  BY <1>5, Bodies DEF InTurn
<1> DEFINE S == {i \in 0 .. n : KernelOK(after[i], from)}
<1>6. 0 \in S /\ \A i \in 1 .. n : i - 1 \in S => i \in S
  BY <1>2, <1>15, <1>1, AdmitOK
<1>7. KernelOK(FoldLeft(Admit, z, l), from)
  <2> HIDE DEF S
  <2>1. n \in S
    BY <1>2, <1>6, Climb
  <2> QED
    BY <1>5, <2>1 DEF S
<1>8. KernelOK(prvResetNextTaskUnblockTime(FoldLeft(Admit, z, l)), from)
  BY <1>7, MovelessOK, Zenon
<1> QED
  BY <1>8, Zenon DEF AdmitPending, l

LEMMA CountOneOK ==
    ASSUME NEW z, NEW from, Timely(z, from), NEW i
    PROVE  Timely(CountOne(z, i), from)
<1> DEFINE y == xTaskIncrementTick(z).k
           v == y.yield \/ xTaskIncrementTick(z).switch
<1>1. KernelOK(y, y) /\ Rests(z, y)
  BY TickOK DEF Timely
<1>2. CountOne(z, i) = [y EXCEPT !.yield = v]
  BY Zenon DEF CountOne, Latch
<1> HIDE DEF y, v
<1>3. KernelOK([y EXCEPT !.yield = v], y)
  BY <1>1, YieldedOK
<1>4. KernelOK([y EXCEPT !.yield = v], [y EXCEPT !.yield = v]) /\ Steady(y, [y EXCEPT !.yield = v])
  BY <1>3, Own
<1> QED
  BY <1>1, <1>2, <1>4 DEF Timely, Rests, Steady, SameTime

LEMMA CountPendedOK ==
    ASSUME NEW z, NEW from, Timely(z, from)
    PROVE  Timely(CountPended(z), from)
<1> DEFINE n == z.pended
           l == [i \in 1 .. n |-> i]
           w == FoldLeft(CountOne, z, l)
           y == [w EXCEPT !.pended = 0]
<1>1. n \in Nat /\ DOMAIN l = 1 .. n
  BY DEF Timely, KernelOK, KernelAt, Settled, Shape
<1> HIDE DEF l, n
<1>14. Outcome("count", z, l, n, FoldLeft(CountOne, z, l))
  BY <1>1, CountOneLoop
<1>4. PICK after : InTurn("count", z, l, n, after) /\ after[n] = FoldLeft(CountOne, z, l)
  BY <1>14 DEF Outcome
<1>15. after[0] = z /\ \A i \in 1 .. n : after[i] = CountOne(after[i - 1], l[i])
  BY <1>4, Bodies DEF InTurn
<1> DEFINE S == {i \in 0 .. n : Timely(after[i], from)}
<1>5. 0 \in S /\ \A i \in 1 .. n : i - 1 \in S => i \in S
  BY <1>1, <1>15, CountOneOK
<1>6. Timely(w, from)
  <2> HIDE DEF S
  <2>1. n \in S
    BY <1>1, <1>5, Climb
  <2> QED
    BY <1>4, <2>1 DEF S
<1>7. CountPended(z) = y
  BY Zenon DEF CountPended, l, n
<1> HIDE DEF w
<1>8. DOMAIN y = Fields /\ y.pended \in Nat /\ \A f \in Fields \ {"pended"} : y[f] = w[f]
  BY <1>6 DEF Timely, KernelOK, KernelAt, Settled, Shape, Fields
<1> HIDE DEF y
<1>9. KernelOK(y, y) /\ Rests(w, y)
  BY <1>6, <1>8, PendedOK DEF Timely
<1> QED
  BY <1>6, <1>7, <1>9 DEF Timely, Rests

\* A tick that is counted late is one that has passed since.
LEMMA CountOneLater ==
    ASSUME NEW z, NEW from, Timely(z, from), from.susp = 0, NEW i, NEW since, since.tick \in Time, NEW m \in Int,
           m + 1 < Ticks, Within(z, since, m)
    PROVE  Within(CountOne(z, i), since, m + 1) /\ CountOne(z, i).pended = z.pended
<1> DEFINE y == xTaskIncrementTick(z).k
           v == y.yield \/ xTaskIncrementTick(z).switch
<1>1. KernelOK(y, y) /\ ~(z.susp > 0) /\ z.tick \in Time
  <2>1. KernelOK(y, y)
    BY TickOK DEF Timely
  <2> HIDE DEF y
  <2> QED
    BY <2>1 DEF Timely, Rests, KernelOK, KernelAt, Settled, Shape
<1>2. NextTick(z, y) /\ y.pended = z.pended
  BY <1>1, TickTime DEF Timely
<1>3. CountOne(z, i) = [y EXCEPT !.yield = v]
  BY Zenon DEF CountOne, Latch
<1> HIDE DEF y, v
<1>4. Within(y, since, m + 1)
  BY <1>1, <1>2, TickLater
<1>5. KernelOK([y EXCEPT !.yield = v], y)
  BY <1>1, YieldedOK
<1>6. SameTime(y, [y EXCEPT !.yield = v])
  BY <1>5, Own DEF Steady
<1> QED
  BY <1>2, <1>3, <1>4, <1>6 DEF SameTime, Within

LEMMA CountPendedLater ==
    ASSUME NEW z, Timely(z, z), z.susp = 0
    PROVE  CountPended(z).pended = 0 /\ Later(z, CountPended(z), z.pended)
<1> DEFINE n == z.pended
           l == [i \in 1 .. n |-> i]
           w == FoldLeft(CountOne, z, l)
           y == [w EXCEPT !.pended = 0]
<1>1. n \in Nat /\ DOMAIN l = 1 .. n
  BY DEF Timely, KernelOK, KernelAt, Settled, Shape
<1>2. y = CountPended(z)
  BY Zenon DEF CountPended
<1> HIDE DEF l, n
<1>3. Outcome("count", z, l, n, w)
  BY <1>1, CountOneLoop
<1>4. PICK after : InTurn("count", z, l, n, after) /\ after[n] = w
  BY <1>3 DEF Outcome
<1>5. after[0] = z /\ \A i \in 1 .. n : after[i] = CountOne(after[i - 1], l[i])
  BY <1>4, Bodies DEF InTurn
<1> HIDE DEF w
<1>6. ASSUME NEW since, NEW m \in Int, since.tick \in Time, m + n < Ticks, Within(z, since, m)
      PROVE  Timely(w, z) /\ Within(w, since, m + n)
  <2> DEFINE S == {i \in 0 .. n : Timely(after[i], z) /\ Within(after[i], since, m + i)}
  <2>1. 0 \in S
    BY <1>1, <1>5, <1>6
  <2>2. ASSUME NEW i \in 1 .. n, i - 1 \in S PROVE i \in S
    <3>1. m + (i - 1) \in Int /\ m + (i - 1) + 1 < Ticks /\ m + (i - 1) + 1 = m + i
      BY <1>1, <1>6, <2>2, TicksAssumption
    <3>2. Timely(after[i - 1], z) /\ Within(after[i - 1], since, m + (i - 1))
      BY <2>2
    <3>3. Timely(after[i], z)
      BY <1>5, <3>2, CountOneOK
    <3>4. Within(after[i], since, m + (i - 1) + 1)
      BY <1>5, <1>6, <3>1, <3>2, CountOneLater
    <3> QED
      BY <2>2, <3>1, <3>3, <3>4
  <2> HIDE DEF S
  <2>3. n \in S
    BY <1>1, <2>1, <2>2, Climb
  <2> QED
    BY <1>4, <2>3 DEF S
<1>7. DOMAIN w = Fields
  <2>1. Timely(CountPended(z), z)
    BY CountPendedOK
  <2> HIDE DEF y
  <2>2. DOMAIN y = Fields
    BY <1>2, <2>1 DEF Timely, KernelOK, KernelAt, Settled, Shape
  <2> QED
    BY <2>2 DEF y
<1>8. y.pended = 0 /\ y.tick = w.tick /\ y.overflows = w.overflows
  BY <1>7 DEF Fields
<1> HIDE DEF y
<1>9. Later(z, y, n)
  BY <1>6, <1>8 DEF Later, Within
<1> QED
  BY <1>2, <1>8, <1>9 DEF n

\* The scheduler is suspended, once more; or once less, and when it is not any
\* more the ticks that came meanwhile are counted.
Paused(z, y) == KernelOK(y, y) /\ y.cur = z.cur /\ y.susp = z.susp + 1 /\ SameTime(z, y)
Released(z, y) ==
    /\ KernelOK(y, y) /\ y.cur = z.cur /\ y.susp = z.susp - 1
    /\ y.susp = 0 => y.pended = 0 /\ Later(z, y, z.pended)

LEMMA PauseOK ==
    ASSUME NEW z, NEW from, KernelOK(z, from), NEW y, KernelOK(y, vTaskSuspendAll(z))
    PROVE  Paused(z, y)
<1>1. DOMAIN z = Fields
  BY DEF KernelOK, KernelAt, Settled, Shape
<1>2. KernelOK(y, y) /\ Steady(vTaskSuspendAll(z), y)
  BY Own
<1> QED
  BY <1>1, <1>2 DEF Paused, vTaskSuspendAll, Fields, Steady, SameTime

LEMMA ResumeOK ==
    ASSUME NEW z, NEW from, KernelOK(z, from)
    PROVE  Released(z, xTaskResumeAll(z).k) /\ Released(z, ResumeAndYield(z))
<1> DEFINE w == configASSERT(z, z.susp > 0)
           y == [w EXCEPT !.susp = w.susp - 1]
           u == AdmitPending(y)
           x == CountPended(u)
<1>1. KernelOK(w, z)
  BY Own, MovelessOK
<1>9. w.cur = z.cur /\ w.susp = z.susp /\ DOMAIN w = Fields /\ SameTime(z, w)
  BY <1>1 DEF KernelOK, KernelAt, Settled, Steady, Shape
<1> HIDE DEF w
<1>2. Alike(w, y) /\ y.cur = z.cur /\ y.susp = z.susp - 1 /\ SameTime(z, y)
  BY <1>9 DEF Alike, Fields, Kept, SameTime
<1>3. KernelOK(y, y)
  BY <1>1, <1>2, AlikeOK
<1>13. xTaskResumeAll(z) = ResumeIfLast(y)
  BY Zenon DEF xTaskResumeAll, y, w
<1> HIDE DEF y
<1>4. KernelOK(u, y) /\ Timely(u, u) /\ Steady(y, u)
  <2>1. KernelOK(u, y)
    BY <1>3, AdmitPendingOK
  <2> HIDE DEF u
  <2> QED
    BY <2>1, Own DEF Timely, Rests
<1>5. xTaskResumeAll(z) = ResumeIfLast(y)
  BY <1>13
<1>6. IF y.susp > 0 THEN ResumeIfLast(y).k = y ELSE ResumeIfLast(y).k = YieldIf(x, x.yield)
  BY DEF ResumeIfLast, Resumed, x
<1>14. y.susp = 0 => x.pended = 0 /\ Later(u, x, u.pended)
  <2> HIDE DEF u
  <2> QED
    BY <1>4, CountPendedLater DEF Steady
<1>15. Timely(x, u)
  <2> HIDE DEF u
  <2> QED
    BY <1>4, CountPendedOK
<1>16. y.susp = 0 => Released(z, x)
  <2> HIDE DEF u, x
  <2>1. KernelOK(x, x) /\ x.cur = z.cur /\ x.susp = z.susp - 1
    BY <1>2, <1>4, <1>15 DEF Timely, Rests, Steady
  <2>2. u.pended = z.pended /\ u.tick = z.tick /\ u.overflows = z.overflows
    BY <1>2, <1>4 DEF Steady, SameTime
  <2>3. y.susp = 0 => Later(z, x, z.pended)
    BY <1>14, <2>2 DEF Later, Within
  <2> QED
    BY <1>14, <2>1, <2>3 DEF Released
<1>17. KernelOK(x, x) /\ x.cur = z.cur /\ x.susp = y.susp
  <2> HIDE DEF u, x
  <2> QED
    BY <1>2, <1>4, <1>15 DEF Timely, Rests, Steady
<1> HIDE DEF x, u
<1>11. Released(z, y) \/ y.susp = 0
  BY <1>2, <1>3 DEF Released
<1>18. Released(z, x)
  BY <1>2, <1>16, <1>17 DEF Released
<1>10. ASSUME NEW v, NEW c, Released(z, v) PROVE Released(z, YieldIf(v, c))
  <2>1. KernelOK(YieldIf(v, c), v)
    BY <1>10, MovelessOK DEF Released
  <2>2. KernelOK(YieldIf(v, c), YieldIf(v, c)) /\ Steady(v, YieldIf(v, c))
    BY <2>1, Own
  <2> QED
    BY <1>10, <2>2 DEF Released, Steady, SameTime, Later, Within
<1>7. Released(z, xTaskResumeAll(z).k)
  BY <1>5, <1>6, <1>10, <1>11, <1>18
<1>8. ResumeAndYield(z) = YieldIf(xTaskResumeAll(z).k, ~xTaskResumeAll(z).yielded)
  BY Zenon DEF ResumeAndYield, YieldUnless
<1> QED
  BY <1>7, <1>8, <1>10

----------------------------------------------------------------------------
(* Event lists                                                              *)

\* Event items come and go in the event lists alone.
LEMMA EventsOK ==
    ASSUME NEW z, NEW from, KernelOK(z, from), NEW y, DOMAIN y = Fields,
           \A f \in Fields \ {"events", "bits"} : y[f] = z[f], y.events \in [EventList -> Seq(Task)]
    PROVE  KernelOK(y, from)
<1>0. Shape(z) /\ Known(z) /\ Asleep(z, 1) /\ Steady(from, z) /\ OnePlace(z)
  BY DEF KernelOK, KernelAt, Settled
<1>1. /\ y.ready = z.ready /\ y.prio = z.prio /\ y.base = z.base /\ y.key = z.key
      /\ y.pended = z.pended /\ \A m \in Elsewhere : y[m] = z[m]
      /\ y.wake = z.wake /\ y.tick = z.tick /\ y.overflows = z.overflows /\ y.next = z.next /\ y.top = z.top
      /\ y.cur = z.cur /\ y.susp = z.susp /\ y.delayed = z.delayed /\ y.overflow = z.overflow
  BY DEF Fields, Elsewhere
<1>2. Shape(y)
  BY <1>0, <1>1 DEF Shape
<1>3. OnePlace(y) /\ Known(y)
  BY <1>0, <1>1 DEF OnePlace, Known, InReady
<1>4. Asleep(y, 1) /\ Steady(from, y)
  BY <1>0, <1>1 DEF Asleep, Steady, SameTime
<1> QED
  BY <1>2, <1>3, <1>4 DEF KernelOK, KernelAt, Settled

\* A time to sleep, for ever included.
LEMMA LongestTime == portMAX_DELAY \in 1 .. Ticks - 1
  BY TicksAssumption DEF portMAX_DELAY

LEMMA PlaceOnEventListOK ==
    ASSUME NEW z, NEW from, KernelOK(z, from), z.cur \in Task, NEW l \in EventList, NEW ticks \in 1 .. Ticks - 1
    PROVE  KernelOK(vTaskPlaceOnEventList(z, l, ticks), from)
<1> DEFINE y == [z EXCEPT !.events[l] = vListInsert(@, z.cur, z.key)]
           m == vListInsert(z.events[l], z.cur, z.key)
<1>1. DOMAIN z = Fields /\ z.events \in [EventList -> Seq(Task)] /\ z.events[l] \in Seq(Task)
  BY DEF KernelOK, KernelAt, Settled, Shape
<1>2. m \in Seq(Task)
  BY <1>1, ListInsertAdds DEF Added
<1>3. DOMAIN y = Fields /\ y.cur = z.cur /\ y.events = [z.events EXCEPT ![l] = m]
      /\ \A f \in Fields \ {"events", "bits"} : y[f] = z[f]
  BY <1>1 DEF Fields
<1> HIDE DEF m
<1>4. y.events \in [EventList -> Seq(Task)]
  BY <1>1, <1>2, <1>3
<1> HIDE DEF y
<1>5. KernelOK(y, from)
  BY <1>3, <1>4, EventsOK
<1>6. KernelOK(prvAddCurrentTaskToDelayedList(y, ticks, TRUE), from)
  BY <1>3, <1>5, BlockOK
<1> QED
  BY <1>6 DEF vTaskPlaceOnEventList, y

LEMMA PlaceOnUnorderedOK ==
    ASSUME NEW z, NEW from, KernelOK(z, from), z.cur \in Task, NEW l \in EventList, NEW ticks \in 1 .. Ticks - 1,
           NEW bits
    PROVE  KernelOK(vTaskPlaceOnUnorderedEventList(z, l, bits, ticks), from)
<1> DEFINE w == configASSERT(z, z.susp > 0)
           y == [w EXCEPT !.bits[z.cur] = bits, !.events[l] = Append(@, z.cur)]
           m == Append(w.events[l], z.cur)
<1>1. KernelOK(w, from) /\ w.cur = z.cur
  <2>1. KernelOK(w, z)
    BY Own, MovelessOK
  <2>2. KernelOK(w, from)
    BY MovelessOK
  <2> QED
    BY <2>1, <2>2 DEF KernelOK, KernelAt, Settled, Steady, SameTime
<1> HIDE DEF w
<1>2. DOMAIN w = Fields /\ w.events \in [EventList -> Seq(Task)] /\ w.events[l] \in Seq(Task)
  BY <1>1 DEF KernelOK, KernelAt, Settled, Shape
<1>3. m \in Seq(Task)
  BY <1>2, AppendedIsAdded DEF Added
<1>4. DOMAIN y = Fields /\ y.cur = z.cur /\ y.events = [w.events EXCEPT ![l] = m]
      /\ \A f \in Fields \ {"events", "bits"} : y[f] = w[f]
  BY <1>1, <1>2 DEF Fields
<1> HIDE DEF m
<1>5. y.events \in [EventList -> Seq(Task)]
  BY <1>2, <1>3, <1>4
<1> HIDE DEF y
<1>6. KernelOK(y, from)
  BY <1>1, <1>4, <1>5, EventsOK
<1>7. KernelOK(prvAddCurrentTaskToDelayedList(y, ticks, TRUE), from)
  BY <1>4, <1>6, BlockOK
<1> QED
  BY <1>7 DEF vTaskPlaceOnUnorderedEventList, y, w

LEMMA PlaceRestrictedOK ==
    ASSUME NEW z, NEW from, KernelOK(z, from), z.cur \in Task, NEW l \in EventList, NEW ticks, NEW indefinitely,
           ~indefinitely => ticks \in 1 .. Ticks - 1
    PROVE  KernelOK(vTaskPlaceOnEventListRestricted(z, l, ticks, indefinitely), from)
<1> DEFINE y == [z EXCEPT !.events[l] = Append(@, z.cur)]
           m == Append(z.events[l], z.cur)
           n == IF indefinitely THEN portMAX_DELAY ELSE ticks
<1>1. DOMAIN z = Fields /\ z.events \in [EventList -> Seq(Task)] /\ z.events[l] \in Seq(Task)
  BY DEF KernelOK, KernelAt, Settled, Shape
<1>2. m \in Seq(Task)
  BY <1>1, AppendedIsAdded DEF Added
<1>3. DOMAIN y = Fields /\ y.cur = z.cur /\ y.events = [z.events EXCEPT ![l] = m]
      /\ \A f \in Fields \ {"events", "bits"} : y[f] = z[f]
  BY <1>1 DEF Fields
<1> HIDE DEF m
<1>4. y.events \in [EventList -> Seq(Task)]
  BY <1>1, <1>2, <1>3
<1> HIDE DEF y
<1>5. KernelOK(y, from)
  BY <1>3, <1>4, EventsOK
<1>6. n \in 1 .. Ticks - 1
  BY LongestTime
<1> HIDE DEF n
<1>7. KernelOK(prvAddCurrentTaskToDelayedList(y, n, indefinitely), from)
  BY <1>3, <1>5, <1>6, BlockOK
<1> QED
  BY <1>7 DEF vTaskPlaceOnEventListRestricted, y, n

LEMMA WakenOK ==
    ASSUME NEW z, NEW from, KernelOK(z, from), NEW t \in Task
    PROVE  KernelOK(Waken(z, t), from)
<1> DEFINE w == RemoveEvent(z, t)
           y == [w EXCEPT !.events[Pending] = Append(@, t)]
<1>1. KernelOK(w, from)
  BY RemoveEventOK
<1> HIDE DEF w
<1>2. DOMAIN w = Fields /\ w.events \in [EventList -> Seq(Task)] /\ Pending \in EventList
  BY <1>1 DEF KernelOK, KernelAt, Settled, Shape, EventList
<1>3. DOMAIN y = Fields /\ y.events = [w.events EXCEPT ![Pending] = Append(@, t)]
      /\ \A f \in Fields \ {"events", "bits"} : y[f] = w[f]
  BY <1>2 DEF Fields
<1>4. y.events \in [EventList -> Seq(Task)]
  <2>1. Append(w.events[Pending], t) \in Seq(Task)
    BY <1>2
  <2> QED
    BY <1>2, <1>3, <2>1
<1> HIDE DEF y
<1>5. KernelOK(y, from)
  BY <1>1, <1>3, <1>4, EventsOK
<1>6. KernelOK(MakeReady(z, t), from)
  BY MakeReadyOK
<1> QED
  BY <1>5, <1>6 DEF Waken, y, w

\* Fields that say nothing of where the tasks are.
LEMMA FreeFieldsOK ==
    ASSUME NEW z, NEW from, KernelOK(z, from)
    PROVE  /\ \A v : KernelOK([z EXCEPT !.yield = v], from) /\ KernelOK([z EXCEPT !.pendsv = v], from)
           /\ \A v : KernelOK([z EXCEPT !.bits = v], from) /\ KernelOK([z EXCEPT !.note = v], from)
           /\ \A v : KernelOK([z EXCEPT !.held = v], from) /\ KernelOK([z EXCEPT !.halted = v], from)
           /\ \A v : KernelOK([z EXCEPT !.value = v], from)
<1> DEFINE Quietly(y) == Alike(z, y) /\ Steady(z, y)
<1>1. DOMAIN z = Fields
  BY DEF KernelOK, KernelAt, Settled, Shape
<1>2. /\ \A v : Quietly([z EXCEPT !.yield = v]) /\ Quietly([z EXCEPT !.pendsv = v])
      /\ \A v : Quietly([z EXCEPT !.bits = v]) /\ Quietly([z EXCEPT !.note = v]) /\ Quietly([z EXCEPT !.value = v])
      /\ \A v : Quietly([z EXCEPT !.held = v]) /\ Quietly([z EXCEPT !.halted = v])
  BY <1>1 DEF Alike, Steady, SameTime, Fields, Kept
<1>3. \A y : Quietly(y) => KernelOK(y, from)
  BY AlikeOK
<1> HIDE DEF Quietly
<1> QED
  BY <1>2, <1>3

LEMMA RemoveFromEventListOK ==
    ASSUME NEW z, NEW from, KernelOK(z, from), NEW l \in EventList, z.events[l] # <<>>
    PROVE  KernelOK(xTaskRemoveFromEventList(z, l), from)
<1> DEFINE t == Head(z.events[l])
           w == Waken(z, t)
           v == w.yield \/ Outranks(z, t)
<1>1. t \in Task
  BY TailDrops DEF KernelOK, KernelAt, Settled, Shape
<1>2. KernelOK(w, from)
  BY <1>1, WakenOK
<1>3. xTaskRemoveFromEventList(z, l) = [w EXCEPT !.yield = v]
  BY Zenon DEF xTaskRemoveFromEventList
<1> HIDE DEF w, v
<1>4. KernelOK([w EXCEPT !.yield = v], from)
  BY <1>2, FreeFieldsOK
<1> QED
  BY <1>3, <1>4, Zenon

LEMMA RemoveFromUnorderedOK ==
    ASSUME NEW z, NEW from, KernelOK(z, from), NEW t \in Task, NEW bits
    PROVE  KernelOK(vTaskRemoveFromUnorderedEventList(z, t, bits), from)
<1> DEFINE c == configASSERT(z, z.susp > 0)
           w == MakeReady(c, t)
           b == [NoBits EXCEPT !.wanted = bits, !.set = TRUE]
           y == [w EXCEPT !.bits[t] = b, !.yield = @ \/ Outranks(z, t)]
<1>1. KernelOK(c, from)
  BY MovelessOK
<1> HIDE DEF c
<1>2. KernelOK(w, from)
  BY <1>1, MakeReadyOK
<1> HIDE DEF w, b
<1>3. Alike(w, y) /\ Steady(w, y)
  BY <1>2 DEF KernelOK, KernelAt, Settled, Shape, Alike, Steady, SameTime, Fields, Kept
<1>4. KernelOK(y, from)
  BY <1>2, <1>3, AlikeOK
<1>5. vTaskRemoveFromUnorderedEventList(z, t, bits) = y
  BY Zenon DEF vTaskRemoveFromUnorderedEventList, b, w, c
<1> HIDE DEF y
<1> QED
  BY <1>4, <1>5

----------------------------------------------------------------------------
(* Control of tasks                                                         *)

\* A task leaves the list l for good.
LEMMA DropOK ==
    ASSUME NEW z, NEW from, KernelOK(z, from), NEW y, NEW l \in Elsewhere, NEW t, DOMAIN y = Fields,
           \A f \in Fields \ {l} : y[f] = z[f], Dropped(z[l], t, y[l])
    PROVE  KernelOK(y, from)
<1>0. Shape(z) /\ Known(z) /\ Asleep(z, 1) /\ Steady(from, z) /\ OnePlace(z)
  BY DEF KernelOK, KernelAt, Settled
<1>1. /\ y.ready = z.ready /\ y.prio = z.prio /\ y.base = z.base /\ y.key = z.key
      /\ y.pended = z.pended /\ y.events = z.events /\ \A m \in Elsewhere : m # l => y[m] = z[m]
      /\ y.wake = z.wake /\ y.tick = z.tick /\ y.overflows = z.overflows /\ y.next = z.next /\ y.top = z.top
      /\ y.cur = z.cur /\ y.susp = z.susp
  BY DEF Fields, Elsewhere
<1>2. Shape(y)
  BY <1>0, <1>1 DEF Shape, Dropped
<1>4. Known(y) /\ Steady(from, y)
  BY <1>0, <1>1 DEF Known, InReady, Steady, SameTime
<1>5. Asleep(y, 1)
  <2>1. \A m \in {"delayed", "overflow"} : /\ Sorted(y[m], z.wake)
                                           /\ \A u \in Task : Contains(y[m], u) => Contains(z[m], u)
    BY <1>0, <1>1 DEF Asleep, Dropped, Elsewhere
  <2> QED
    BY <1>0, <1>1, <2>1 DEF Asleep
<1>3. OnePlace(y)
  <2>1. \A m \in Elsewhere : Unique(y[m])
    BY <1>1 DEF KernelOK, KernelAt, Settled, OnePlace, Dropped
  <2>2. \A u \in Task : \A m \in Elsewhere : Contains(y[m], u) => Contains(z[m], u)
    BY <1>1 DEF Dropped
  <2> QED
    BY <1>1, <2>1, <2>2 DEF KernelOK, KernelAt, Settled, OnePlace, InReady
<1> QED
  BY <1>2, <1>3, <1>4, <1>5 DEF KernelOK, KernelAt, Settled

LEMMA TerminationOK ==
    ASSUME NEW z, NEW from, KernelOK(z, from), z.dying # <<>>
    PROVE  KernelOK(prvCheckTasksWaitingTermination(z), from)
<1> DEFINE y == prvCheckTasksWaitingTermination(z)
<1>1. DOMAIN z = Fields /\ z.dying \in Seq(Task) /\ "dying" \in Elsewhere
  BY DEF KernelOK, KernelAt, Settled, Shape, Elsewhere
<1>2. Dropped(z.dying, Head(z.dying), Tail(z.dying))
  BY <1>1, TailDrops
<1>3. DOMAIN y = Fields /\ y["dying"] = Tail(z.dying) /\ \A f \in Fields \ {"dying"} : y[f] = z[f]
  BY <1>1 DEF prvCheckTasksWaitingTermination, Fields
<1> HIDE DEF y
<1>4. KernelOK(y, from)
  BY <1>1, <1>2, <1>3, DropOK
<1> QED
  BY <1>4 DEF y

LEMMA DeleteOK ==
    ASSUME NEW z, NEW from, KernelOK(z, from), NEW t \in Task
    PROVE  KernelOK(vTaskDelete(z, t), from) /\ KernelOK(vTaskSuspend(z, t), from)
<1> DEFINE w == Leave(RemoveEvent(z, t), t)
           a == [w EXCEPT !.suspended = Append(@, t)]
           y == vTaskSuspend(z, t)
<1>1. KernelOK(RemoveEvent(z, t), from)
  BY RemoveEventOK
<1>2. KernelOK(w, from) /\ Nowhere(w, t)
  BY <1>1, LeaveOK
<1> HIDE DEF w
<1>3. KernelOK(a, from) /\ KernelOK([w EXCEPT !.dying = Append(@, t)], from) /\ KernelOK(prvResetNextTaskUnblockTime(w), from)
  BY <1>2, AppendOK, MovelessOK
<1>4. y = [w EXCEPT !.suspended = Append(@, t), !.note[t] = IF @ = "WAITING" THEN "NOT_WAITING" ELSE @]
  BY DEF vTaskSuspend, w
<1>5. Alike(a, y) /\ Steady(a, y)
  BY <1>2, <1>4 DEF KernelOK, KernelAt, Settled, Shape, Alike, Steady, SameTime, Fields, Kept
<1> HIDE DEF a, y
<1>6. KernelOK(y, from)
  BY <1>3, <1>5, AlikeOK
<1> QED
  BY <1>3, <1>6 DEF vTaskDelete, w, y

LEMMA ResumeTaskOK ==
    ASSUME NEW z, NEW from, KernelOK(z, from), NEW t \in Task
    PROVE  KernelOK(vTaskResume(z, t), from) /\ KernelOK(xTaskResumeFromISR(z, t).k, from)
<1>1. KernelOK(MakeReady(z, t), from) /\ KernelOK(Waken(z, t), from)
  BY MakeReadyOK, WakenOK
<1> HIDE DEF MakeReady, Waken
<1>2. \A c : KernelOK(YieldIf(MakeReady(z, t), c), from)
  BY <1>1, MovelessOK
<1>3. KernelOK(vTaskResume(z, t), from)
  BY <1>2 DEF vTaskResume
<1>4. KernelOK(xTaskResumeFromISR(z, t).k, from)
  BY <1>1 DEF xTaskResumeFromISR
<1> QED
  BY <1>3, <1>4

\* Another priority for the task t, and perhaps another key of its event item.
Reprioritised(z, y, t) ==
    /\ Shape(y) /\ y.ready = z.ready /\ y.pended = z.pended /\ \A l \in Elsewhere : y[l] = z[l]
    /\ y.wake = z.wake /\ y.tick = z.tick /\ y.overflows = z.overflows /\ y.next = z.next /\ y.top = z.top
    /\ y.cur = z.cur /\ y.susp = z.susp
    /\ \A u \in Task : u # t => y.prio[u] = z.prio[u]

LEMMA NewPrioritySettled ==
    ASSUME NEW z, NEW from, KernelOK(z, from), NEW t, NEW y, Reprioritised(z, y, t)
    PROVE  Settled(y, from, 1)
<1>1. z.delayed = y.delayed /\ z.overflow = y.overflow
  BY DEF Reprioritised, Elsewhere
<1> QED
  BY <1>1 DEF KernelOK, KernelAt, Settled, Reprioritised, Known, InReady, Asleep, Steady, SameTime

LEMMA NewPriorityNowhere ==
    ASSUME NEW z, NEW from, KernelOK(z, from), NEW t \in Task, Nowhere(z, t), NEW y, Reprioritised(z, y, t)
    PROVE  KernelOK(y, from) /\ Nowhere(y, t)
<1>1. Nowhere(y, t)
  BY DEF Nowhere, Reprioritised, InReady
<1>2. OnePlace(y)
  BY <1>1 DEF KernelOK, KernelAt, OnePlace, Nowhere, Reprioritised, InReady
<1> QED
  BY <1>1, <1>2, NewPrioritySettled DEF KernelOK, KernelAt

LEMMA RequeueOK ==
    ASSUME NEW z, NEW from, KernelOK(z, from), NEW t \in Task, NEW y, Reprioritised(z, y, t), NEW reset
    PROVE  KernelOK(Requeue(y, t, z.prio[t], reset), from)
<1>1. CASE ~InReady(y, t, z.prio[t])
  <2>1. \A p \in Prio : ~InReady(z, t, p)
    BY <1>1 DEF KernelOK, KernelAt, Settled, OnePlace, Reprioritised, InReady
  <2>2. OnePlace(y)
    BY <2>1 DEF KernelOK, KernelAt, OnePlace, Reprioritised, InReady
  <2>3. KernelOK(y, from)
    BY <2>2, NewPrioritySettled DEF KernelOK, KernelAt
  <2> QED
    BY <1>1, <2>3, Zenon DEF Requeue
<1>2. CASE InReady(y, t, z.prio[t])
  <2> DEFINE w == RemoveState(y, t)
  <2>1. Placed(y, t)
    BY DEF KernelOK, KernelAt, Settled, OnePlace, Reprioritised, InReady, Placed
  <2>2. KernelOK(w, from) /\ Nowhere(w, t)
    BY <2>1, NewPrioritySettled, RemoveStateOK
  <2> HIDE DEF w
  <2>3. KernelOK(taskRESET_READY_PRIORITY(w, reset), from) /\ Alike(w, taskRESET_READY_PRIORITY(w, reset))
    <3>1. DOMAIN w = Fields
      BY <2>2 DEF KernelOK, KernelAt, Settled, Shape
    <3> QED
      BY <2>2, <3>1, MovelessOK, Moveless
  <2>4. Nowhere(taskRESET_READY_PRIORITY(w, reset), t)
    BY <2>2, <2>3, AlikeNowhere
  <2>5. KernelOK(prvAddTaskToReadyList(taskRESET_READY_PRIORITY(w, reset), t), from)
    BY <2>3, <2>4, AddToReadyOK
  <2> QED
    BY <1>2, <2>5, Zenon DEF Requeue, w
<1> QED
  BY <1>1, <1>2

LEMMA KeyOf ==
    ASSUME NEW p \in Prio
    PROVE  configMAX_PRIORITIES - p \in 1 .. configMAX_PRIORITIES
  BY PriorityAssumption DEF Prio

\* SetKey before the priority changes.
LEMMA SetKeyKeeps ==
    ASSUME NEW z, NEW from, KernelOK(z, from), NEW t \in Task, NEW p \in Prio
    PROVE  LET y == SetKey(z, t, p)
           IN  /\ DOMAIN y = Fields /\ \A f \in Fields \ {"key"} : y[f] = z[f]
               /\ y.key \in [Task -> 1 .. configMAX_PRIORITIES]
<1>1. DOMAIN z = Fields /\ z.key \in [Task -> 1 .. configMAX_PRIORITIES]
  BY DEF KernelOK, KernelAt, Settled, Shape
<1> DEFINE e == configMAX_PRIORITIES - p
<1>2. e \in 1 .. configMAX_PRIORITIES
  BY KeyOf
<1>3. SetKey(z, t, p) = IF z.bits[t] # NoBits THEN z ELSE [z EXCEPT !.key[t] = e]
  BY Zenon DEF SetKey
<1> HIDE DEF e
<1>4. CASE z.bits[t] # NoBits
  BY <1>1, <1>3, <1>4
<1>5. CASE z.bits[t] = NoBits
  BY <1>1, <1>2, <1>3, <1>5 DEF Fields
<1> QED
  BY <1>4, <1>5

LEMMA NewPriority ==
    ASSUME NEW z, NEW from, KernelOK(z, from), NEW t \in Task, NEW p \in Prio, NEW u \in Prio, NEW b \in Prio, NEW y,
           DOMAIN y = Fields, y.prio = [z.prio EXCEPT ![t] = u],
           y.base = z.base \/ y.base = [z.base EXCEPT ![t] = b],
           \A f \in Fields \ {"prio", "base"} : y[f] = SetKey(z, t, p)[f]
    PROVE  Reprioritised(z, y, t)
<1> DEFINE w == SetKey(z, t, p)
<1>1. /\ DOMAIN w = Fields /\ \A f \in Fields \ {"key"} : w[f] = z[f]
      /\ w.key \in [Task -> 1 .. configMAX_PRIORITIES]
  BY SetKeyKeeps
<1>2. \A f \in Fields \ {"prio", "base"} : y[f] = w[f]
  OBVIOUS
<1> HIDE DEF w
<1>3. /\ y.ready = z.ready /\ y.pended = z.pended /\ y.events = z.events /\ y.key = w.key
      /\ y.wake = z.wake /\ y.tick = z.tick /\ y.overflows = z.overflows /\ y.next = z.next /\ y.top = z.top
      /\ y.cur = z.cur /\ y.susp = z.susp /\ \A l \in Elsewhere : y[l] = z[l]
  BY <1>1, <1>2 DEF Fields, Elsewhere
<1>4. z.prio \in [Task -> Prio] /\ z.base \in [Task -> Prio]
  BY DEF KernelOK, KernelAt, Settled, Shape
<1>5. y.prio \in [Task -> Prio] /\ y.base \in [Task -> Prio] /\ \A v \in Task : v # t => y.prio[v] = z.prio[v]
  BY <1>4
<1> QED
  BY <1>1, <1>3, <1>5 DEF KernelOK, KernelAt, Settled, Shape, Reprioritised

LEMMA PrioritySetOK ==
    ASSUME NEW z, NEW from, KernelOK(z, from), NEW t \in Task, NEW new \in Prio
    PROVE  KernelOK(vTaskPrioritySet(z, t, new), from)
<1> DEFINE w == SetKey(z, t, new)
           u == IF z.base[t] = z.prio[t] THEN new ELSE z.prio[t]
           y == [w EXCEPT !.prio[t] = IF z.base[t] = @ THEN new ELSE @, !.base[t] = new]
           c == IF new > z.base[t] THEN t # z.cur /\ new >= z.prio[z.cur] ELSE t = z.cur
<1>1. /\ DOMAIN w = Fields /\ \A f \in Fields \ {"key"} : w[f] = z[f]
      /\ w.key \in [Task -> 1 .. configMAX_PRIORITIES]
  BY SetKeyKeeps
<1>2. z.prio \in [Task -> Prio] /\ z.base \in [Task -> Prio] /\ w.prio = z.prio /\ w.base = z.base
  BY <1>1 DEF KernelOK, KernelAt, Settled, Shape, Fields
<1>3. u \in Prio
  BY <1>2
<1> HIDE DEF w
<1>4. /\ DOMAIN y = Fields /\ y.prio = [z.prio EXCEPT ![t] = u] /\ y.base = [z.base EXCEPT ![t] = new]
      /\ \A f \in Fields \ {"prio", "base"} : y[f] = w[f]
  BY <1>1, <1>2 DEF Fields
<1> HIDE DEF y, u
<1>5. Reprioritised(z, y, t)
  BY <1>3, <1>4, NewPriority DEF w
<1>6. KernelOK(Requeue(y, t, z.prio[t], z.prio[t]), from)
  BY <1>5, RequeueOK
<1>7. KernelOK(YieldIf(Requeue(y, t, z.prio[t], z.prio[t]), c), from)
  BY <1>6, MovelessOK
<1>8. vTaskPrioritySet(z, t, new) = IF z.base[t] = new THEN z ELSE YieldIf(Requeue(y, t, z.prio[t], z.prio[t]), c)
  BY Zenon DEF vTaskPrioritySet, y, w
<1> QED
  BY <1>7, <1>8

\* Another priority alone.
LEMMA RaisedOK ==
    ASSUME NEW z, NEW from, KernelOK(z, from), NEW t \in Task, NEW p \in Prio, NEW reset
    PROVE  KernelOK(Requeue([SetKey(z, t, p) EXCEPT !.prio[t] = p], t, z.prio[t], reset), from)
<1> DEFINE w == SetKey(z, t, p)
           y == [w EXCEPT !.prio[t] = p]
<1>1. /\ DOMAIN w = Fields /\ \A f \in Fields \ {"key"} : w[f] = z[f]
      /\ w.key \in [Task -> 1 .. configMAX_PRIORITIES]
  BY SetKeyKeeps
<1>2. z.prio \in [Task -> Prio] /\ w.prio = z.prio /\ w.base = z.base
  BY <1>1 DEF KernelOK, KernelAt, Settled, Shape, Fields
<1> HIDE DEF w
<1>3. /\ DOMAIN y = Fields /\ y.prio = [z.prio EXCEPT ![t] = p] /\ y.base = z.base
      /\ \A f \in Fields \ {"prio", "base"} : y[f] = w[f]
  BY <1>1, <1>2 DEF Fields
<1> HIDE DEF y
<1>4. Reprioritised(z, y, t)
  BY <1>3, NewPriority DEF w
<1>5. KernelOK(Requeue(y, t, z.prio[t], reset), from)
  BY <1>4, RequeueOK
<1> QED
  BY <1>5 DEF y, w

LEMMA InheritOK ==
    ASSUME NEW z, NEW from, KernelOK(z, from), z.cur \in Task, NEW owner \in Task \cup {NULL}
    PROVE  KernelOK(xTaskPriorityInherit(z, owner), from)
<1> DEFINE p == z.prio[z.cur]
           y == [SetKey(z, owner, p) EXCEPT !.prio[owner] = p]
<1>1. p \in Prio
  BY DEF KernelOK, KernelAt, Settled, Shape
<1>2. xTaskPriorityInherit(z, owner) =
          IF owner = NULL \/ z.prio[owner] >= p THEN z
          ELSE Requeue(y, owner, z.prio[owner], z.prio[owner])
  BY Zenon DEF xTaskPriorityInherit
<1>3. ASSUME owner # NULL PROVE KernelOK(Requeue(y, owner, z.prio[owner], z.prio[owner]), from)
  BY <1>1, <1>3, RaisedOK
<1> QED
  BY <1>2, <1>3

LEMMA DisinheritOK ==
    ASSUME NEW z, NEW from, KernelOK(z, from), NEW owner \in Task \cup {NULL}
    PROVE  KernelOK(xTaskPriorityDisinherit(z, owner), from)
<1> DEFINE a == configASSERT(z, owner = NULL \/ (owner = z.cur /\ z.held[owner] > 0))
           out == [a EXCEPT !.held[owner] = @ - 1]
           w == taskRESET_READY_PRIORITY(RemoveState(out, owner), z.prio[owner])
           e == configMAX_PRIORITIES - z.base[owner]
           y == [w EXCEPT !.prio[owner] = z.base[owner], !.key[owner] = e]
<1>1. KernelOK(a, from) /\ a.base = z.base /\ a.prio = z.prio
  <2>1. DOMAIN z = Fields
    BY DEF KernelOK, KernelAt, Settled, Shape
  <2> QED
    BY <2>1, MovelessOK DEF configASSERT, Fields
<1> HIDE DEF a
<1>2. Alike(a, out) /\ Steady(a, out)
  BY <1>1 DEF KernelOK, KernelAt, Settled, Shape, Alike, Steady, SameTime, Fields, Kept
<1>3. KernelOK(out, from)
  BY <1>1, <1>2, AlikeOK
<1> HIDE DEF out
<1>4. ASSUME owner # NULL PROVE KernelOK(prvAddTaskToReadyList(y, owner), from)
  <2>0. owner \in Task
    BY <1>4
  <2>1. KernelOK(RemoveState(out, owner), from) /\ Nowhere(RemoveState(out, owner), owner)
    BY <1>3, <2>0, PlacedNow, RemoveStateOK DEF KernelOK, KernelAt, Settled
  <2>2. KernelOK(w, from) /\ Alike(RemoveState(out, owner), w)
    <3>1. DOMAIN RemoveState(out, owner) = Fields
      BY <2>1 DEF KernelOK, KernelAt, Settled, Shape
    <3> QED
      BY <2>1, <3>1, MovelessOK, Moveless
  <2>3. Nowhere(w, owner)
    BY <2>1, <2>2, AlikeNowhere
  <2>4. z.base[owner] \in Prio
    BY <2>0 DEF KernelOK, KernelAt, Settled, Shape
  <2>5. e \in 1 .. configMAX_PRIORITIES
    BY <2>4, KeyOf
  <2> HIDE DEF w, e
  <2>6. DOMAIN w = Fields /\ w.prio \in [Task -> Prio] /\ w.key \in [Task -> 1 .. configMAX_PRIORITIES]
    BY <2>2 DEF KernelOK, KernelAt, Settled, Shape
  <2>7. /\ DOMAIN y = Fields /\ y.ready = w.ready /\ y.base = w.base /\ y.pended = w.pended /\ y.events = w.events
        /\ \A l \in Elsewhere : y[l] = w[l]
        /\ y.wake = w.wake /\ y.tick = w.tick /\ y.overflows = w.overflows /\ y.next = w.next /\ y.top = w.top
        /\ y.cur = w.cur /\ y.susp = w.susp
        /\ y.prio = [w.prio EXCEPT ![owner] = z.base[owner]] /\ y.key = [w.key EXCEPT ![owner] = e]
    BY <2>6 DEF Fields, Elsewhere
  <2> HIDE DEF y
  <2>8. y.prio \in [Task -> Prio] /\ y.key \in [Task -> 1 .. configMAX_PRIORITIES]
        /\ \A u \in Task : u # owner => y.prio[u] = w.prio[u]
    BY ONLY <2>0, <2>4, <2>5, <2>6, <2>7
  <2>9. Reprioritised(w, y, owner)
    BY <2>2, <2>7, <2>8 DEF KernelOK, KernelAt, Settled, Shape, Reprioritised
  <2>10. KernelOK(y, from) /\ Nowhere(y, owner)
    BY <2>0, <2>2, <2>3, <2>9, NewPriorityNowhere
  <2> QED
    BY <2>0, <2>10, AddToReadyOK
<1>5. xTaskPriorityDisinherit(z, owner) =
          IF owner = NULL THEN z
          ELSE IF ~Restores(z, owner) THEN out ELSE prvAddTaskToReadyList(y, owner)
  BY Zenon DEF xTaskPriorityDisinherit, out, a
<1> HIDE DEF y
<1> QED
  BY <1>3, <1>4, <1>5

LEMMA DisinheritLateOK ==
    ASSUME NEW z, NEW from, KernelOK(z, from), NEW owner \in Task \cup {NULL}, NEW waiting \in Prio
    PROVE  KernelOK(vTaskPriorityDisinheritAfterTimeout(z, owner, waiting), from)
<1> DEFINE use == IF z.base[owner] < waiting THEN waiting ELSE z.base[owner]
           safe == configASSERT(z, z.held[owner] > 0)
           a == configASSERT(safe, owner # z.cur)
<1>1. KernelOK(safe, from) /\ Alike(z, safe)
  <2>1. DOMAIN z = Fields
    BY DEF KernelOK, KernelAt, Settled, Shape
  <2> QED
    BY <2>1, MovelessOK, Moveless
<1> HIDE DEF safe
<1>2. KernelOK(a, from) /\ Alike(safe, a)
  <2>1. DOMAIN safe = Fields
    BY <1>1 DEF KernelOK, KernelAt, Settled, Shape
  <2>2. \A c : KernelOK(configASSERT(safe, c), from) /\ Alike(safe, configASSERT(safe, c))
    BY <1>1, <2>1, MovelessOK, Moveless
  <2> QED
    BY <2>2, Zenon
<1> HIDE DEF a
<1>3. a.prio = z.prio
  BY <1>1, <1>2 DEF Alike, Kept
<1>4. ASSUME owner # NULL PROVE use \in Prio
  BY <1>4 DEF KernelOK, KernelAt, Settled, Shape
<1> HIDE DEF use
<1>5. ASSUME owner # NULL PROVE KernelOK(Requeue([SetKey(a, owner, use) EXCEPT !.prio[owner] = use], owner, z.prio[owner], use), from)
  BY <1>2, <1>3, <1>4, <1>5, RaisedOK
<1>6. vTaskPriorityDisinheritAfterTimeout(z, owner, waiting) =
          IF owner = NULL THEN z
          ELSE IF z.prio[owner] = use \/ z.held[owner] # 1 THEN safe
          ELSE Requeue([SetKey(a, owner, use) EXCEPT !.prio[owner] = use], owner, z.prio[owner], use)
  BY Zenon DEF vTaskPriorityDisinheritAfterTimeout, a, safe, use
<1> QED
  BY <1>1, <1>5, <1>6

\* A new task.
LEMMA NewTaskOK ==
    ASSUME NEW z, NEW from, KernelOK(z, from), NEW t \in Task, NEW p \in Prio, Nowhere(z, t)
    PROVE  KernelOK(prvAddNewTaskToReadyList(z, t, p), from)
<1> DEFINE y == prvInitialiseNewTask(z, t, p)
           e == configMAX_PRIORITIES - p
<1>1. /\ DOMAIN z = Fields /\ z.prio \in [Task -> Prio] /\ z.base \in [Task -> Prio]
      /\ z.key \in [Task -> 1 .. configMAX_PRIORITIES]
  BY DEF KernelOK, KernelAt, Settled, Shape
<1>2. e \in 1 .. configMAX_PRIORITIES
  BY KeyOf
<1>3. /\ DOMAIN y = Fields /\ y.ready = z.ready /\ y.pended = z.pended /\ y.events = z.events
      /\ \A l \in Elsewhere : y[l] = z[l]
      /\ y.wake = z.wake /\ y.tick = z.tick /\ y.overflows = z.overflows /\ y.next = z.next /\ y.top = z.top
      /\ y.cur = z.cur /\ y.susp = z.susp
      /\ y.prio = [z.prio EXCEPT ![t] = p] /\ y.base = [z.base EXCEPT ![t] = p]
      /\ y.key = [z.key EXCEPT ![t] = e]
  <2>1. /\ DOMAIN y = Fields /\ y.prio = [z.prio EXCEPT ![t] = p] /\ y.base = [z.base EXCEPT ![t] = p]
        /\ y.key = [z.key EXCEPT ![t] = e]
    BY <1>1 DEF prvInitialiseNewTask, Fields
  <2>2. \A f \in Fields \ {"prio", "base", "held", "note", "value", "bits", "key"} : y[f] = z[f]
    BY <1>1 DEF prvInitialiseNewTask
  <2> HIDE DEF y, e
  <2> QED
    BY <2>1, <2>2 DEF Fields, Elsewhere
<1> HIDE DEF y, e
<1>4. /\ y.prio \in [Task -> Prio] /\ y.base \in [Task -> Prio] /\ y.key \in [Task -> 1 .. configMAX_PRIORITIES]
      /\ \A u \in Task : u # t => y.prio[u] = z.prio[u]
  BY <1>1, <1>2, <1>3
<1>5. Reprioritised(z, y, t)
  BY <1>3, <1>4 DEF KernelOK, KernelAt, Settled, Shape, Reprioritised
<1>6. KernelOK(y, from) /\ Nowhere(y, t)
  BY <1>5, NewPriorityNowhere
<1>7. KernelOK(prvAddTaskToReadyList(y, t), from)
  BY <1>6, AddToReadyOK
<1> QED
  BY <1>7 DEF prvAddNewTaskToReadyList, y

----------------------------------------------------------------------------
(* Notifications                                                            *)

LEMMA AwaitOK ==
    ASSUME NEW z, NEW from, KernelOK(z, from), z.cur \in Task, NEW ticks \in Time
    PROVE  KernelOK(ulTaskNotifyTake(z, ticks), from) /\ KernelOK(xTaskNotifyWait(z, ticks), from)
<1> DEFINE w == [z EXCEPT !.note[z.cur] = "WAITING"]
<1>1. DOMAIN z = Fields
  BY DEF KernelOK, KernelAt, Settled, Shape
<1>2. Alike(z, w) /\ Steady(z, w) /\ w.cur = z.cur
  BY <1>1 DEF Alike, Steady, SameTime, Fields, Kept
<1> HIDE DEF w
<1>3. KernelOK(w, from)
  BY <1>2, AlikeOK
<1>4. ASSUME ticks # 0 PROVE KernelOK(prvAddCurrentTaskToDelayedList(w, ticks, TRUE), from)
  <2>1. ticks \in 1 .. Ticks - 1
    BY <1>4, TicksAssumption DEF Time
  <2> QED
    BY <1>2, <1>3, <2>1, BlockOK
<1>5. ticks # 0 => KernelOK(portYIELD_WITHIN_API(prvAddCurrentTaskToDelayedList(w, ticks, TRUE)), from)
  BY <1>4, MovelessOK
<1>6. Await(z, ticks) = IF ticks = 0 THEN w ELSE portYIELD_WITHIN_API(prvAddCurrentTaskToDelayedList(w, ticks, TRUE))
  BY Zenon DEF Await, w
<1>7. KernelOK(Await(z, ticks), from)
  BY <1>3, <1>5, <1>6
<1> QED
  BY <1>7 DEF ulTaskNotifyTake, xTaskNotifyWait

LEMMA NotedOK ==
    ASSUME NEW z, NEW from, KernelOK(z, from), NEW all
    PROVE  KernelOK(NotifyTaken(z, all), from) /\ KernelOK(NotifyWaited(z), from) /\ KernelOK(xTaskNotifyStateClear(z), from)
<1>1. Alike(z, NotifyTaken(z, all)) /\ Alike(z, NotifyWaited(z)) /\ Alike(z, xTaskNotifyStateClear(z))
  BY DEF KernelOK, KernelAt, Settled, Shape, Alike, Fields, Kept, NotifyTaken, NotifyWaited, xTaskNotifyStateClear
<1>2. Steady(z, NotifyTaken(z, all)) /\ Steady(z, NotifyWaited(z)) /\ Steady(z, xTaskNotifyStateClear(z))
  BY DEF KernelOK, KernelAt, Settled, Shape, Steady, SameTime, Fields, NotifyTaken, NotifyWaited, xTaskNotifyStateClear
<1> QED
  BY <1>1, <1>2, AlikeOK

LEMMA NotifyOK ==
    ASSUME NEW z, NEW from, KernelOK(z, from), NEW t \in Task, NEW v, NEW action
    PROVE  KernelOK(xTaskGenericNotify(z, t, v, action), from) /\ KernelOK(xTaskGenericNotifyFromISR(z, t, v, action), from)
<1> DEFINE n == NotifiedValue(z, t, v, action)
           y == Notified(z, t, v, action)
           safe == configASSERT(y, InNoEvent(z, t))
           w == Waken(safe, t)
           e == w.yield \/ Outranks(z, t)
<1>1. y = [z EXCEPT !.value[t] = n, !.note[t] = "RECEIVED"]
  BY Zenon DEF Notified
<1> HIDE DEF n, y
<1>2. Alike(z, y) /\ Steady(z, y)
  BY <1>1 DEF KernelOK, KernelAt, Settled, Shape, Alike, Steady, SameTime, Fields, Kept
<1>3. KernelOK(y, from)
  BY <1>2, AlikeOK
<1>4. KernelOK(safe, from)
  BY <1>3, MovelessOK
<1> HIDE DEF safe
<1>5. KernelOK(YieldIf(MakeReady(safe, t), Outranks(z, t)), from)
  BY <1>4, MakeReadyOK, MovelessOK
<1>6. KernelOK(w, from)
  BY <1>4, WakenOK
<1> HIDE DEF w, e
<1>7. KernelOK(YieldIf([w EXCEPT !.yield = e], Outranks(z, t)), from)
  BY <1>6, FreeFieldsOK, MovelessOK
<1>8. xTaskGenericNotify(z, t, v, action) =
          IF z.note[t] # "WAITING" THEN y ELSE YieldIf(MakeReady(safe, t), Outranks(z, t))
  BY Zenon DEF xTaskGenericNotify, safe, y
<1>9. xTaskGenericNotifyFromISR(z, t, v, action) =
          IF z.note[t] # "WAITING" THEN y ELSE YieldIf([w EXCEPT !.yield = e], Outranks(z, t))
  BY Zenon DEF xTaskGenericNotifyFromISR, e, w, safe, y
<1> QED
  BY <1>3, <1>5, <1>7, <1>8, <1>9

----------------------------------------------------------------------------
(* Queues                                                                   *)

LEMMA EventListsOf ==
    ASSUME NEW x \in Object
    PROVE  Sending(x) \in EventList /\ Receiving(x) \in EventList /\ WaitingBits(x) \in EventList
  BY DEF EventList

LEMMA WakeOneOK ==
    ASSUME NEW z, NEW from, KernelOK(z, from), NEW l \in EventList
    PROVE  KernelOK(WakeOne(z, l), from) /\ KernelOK(WakeAndYield(z, l), from) /\ KernelOK(WakeMissed(z, l), from)
<1>1. KernelOK(WakeOne(z, l), from)
  <2>1. CASE z.events[l] = <<>>
    BY <2>1, Zenon DEF WakeOne
  <2>2. CASE z.events[l] # <<>>
    <3>1. KernelOK(xTaskRemoveFromEventList(z, l), from)
      BY <2>2, RemoveFromEventListOK
    <3> QED
      BY <2>2, <3>1, Zenon DEF WakeOne
  <2> QED
    BY <2>1, <2>2
<1>2. \A c : KernelOK(YieldIf(WakeOne(z, l), c), from) /\ KernelOK(vTaskMissedYield(WakeOne(z, l)), from)
  BY <1>1, MovelessOK
<1>3. KernelOK(WakeAndYield(z, l), from)
  BY <1>2, Zenon DEF WakeAndYield
<1>4. KernelOK(WakeMissed(z, l), from)
  BY <1>1, <1>2, Zenon DEF WakeMissed
<1> QED
  BY <1>1, <1>3, <1>4

LEMMA DeferredOK ==
    ASSUME NEW z, NEW from, KernelOK(z, from), NEW l \in EventList, NEW count \in Int
    PROVE  KernelOK(Deferred(z, l, count).k, from) /\ Deferred(z, l, count).count \in Int
<1>1. KernelOK(WakeAndYield(z, l), from)
  BY WakeOneOK
<1>2. CASE count = queueUNLOCKED
  <2>1. Deferred(z, l, count) = [k |-> WakeAndYield(z, l), count |-> count]
    BY <1>2, Zenon DEF Deferred
  <2> QED
    BY <1>1, <2>1
<1>3. CASE count # queueUNLOCKED
  <2>1. Deferred(z, l, count) = [k |-> z, count |-> count + 1]
    BY <1>3, Zenon DEF Deferred
  <2> QED
    BY <2>1
<1> QED
  BY <1>2, <1>3

LEMMA UnlockedOK ==
    ASSUME NEW z, NEW from, KernelOK(z, from), NEW l \in EventList, NEW count \in Int
    PROVE  KernelOK(Unlocked(z, l, count), from)
<1> DEFINE n == IF count > 0 THEN count ELSE 0
           lists == [i \in 1 .. count |-> l]
<1>1. n \in Nat /\ DOMAIN lists = 1 .. n /\ \A i \in 1 .. n : lists[i] = l
  OBVIOUS
<1>2. Unlocked(z, l, count) = FoldLeft(WakeMissed, z, lists)
  BY Zenon DEF Unlocked
<1> HIDE DEF n, lists
<1>14. Outcome("unlock", z, lists, n, FoldLeft(WakeMissed, z, lists))
  BY <1>1, WakeMissedLoop
<1>5. PICK after : InTurn("unlock", z, lists, n, after) /\ after[n] = FoldLeft(WakeMissed, z, lists)
  BY <1>14 DEF Outcome
<1>15. after[0] = z /\ \A i \in 1 .. n : after[i] = WakeMissed(after[i - 1], lists[i])
  BY <1>5, Bodies DEF InTurn
<1> DEFINE S == {i \in 0 .. n : KernelOK(after[i], from)}
<1>6. 0 \in S /\ \A i \in 1 .. n : i - 1 \in S => i \in S
  BY <1>1, <1>15, WakeOneOK
<1>7. KernelOK(FoldLeft(WakeMissed, z, lists), from)
  <2> HIDE DEF S
  <2>1. n \in S
    BY <1>1, <1>6, Climb
  <2> QED
    BY <1>5, <2>1 DEF S
<1> QED
  BY <1>2, <1>7, Zenon

\* What the lists depend on in the data of a queue.
QueueOK(b) == DOMAIN b = QueueFields /\ b.holder \in Task \cup {NULL} /\ b.rx \in Int /\ b.tx \in Int

LEMMA CopyOK ==
    ASSUME NEW b, QueueOK(b), NEW v, NEW position \in Position
    PROVE  QueueOK(prvCopyDataToQueue(b, v, position)) /\ prvCopyDataToQueue(b, v, position).tx = b.tx
           /\ QueueOK([prvCopyDataFromQueue(b) EXCEPT !.n = @ - 1])
           /\ [prvCopyDataFromQueue(b) EXCEPT !.n = @ - 1].rx = b.rx
           /\ QueueOK(prvLockQueue(b))
<1>1. QueueOK(prvLockQueue(b))
  BY DEF prvLockQueue, QueueOK, QueueFields, queueUNLOCKED, queueLOCKED_UNMODIFIED
<1>2. CASE b.type # "queue"
  BY <1>1, <1>2 DEF prvCopyDataToQueue, prvCopyDataFromQueue, QueueOK, QueueFields
<1>3. CASE b.type = "queue"
  <2>1. QueueOK([prvCopyDataFromQueue(b) EXCEPT !.n = @ - 1]) /\ [prvCopyDataFromQueue(b) EXCEPT !.n = @ - 1].rx = b.rx
    BY <1>3 DEF prvCopyDataFromQueue, QueueOK, QueueFields
  <2>2. /\ QueueOK(ToBack(b, v)) /\ ToBack(b, v).tx = b.tx
        /\ QueueOK(ToFront(b, v)) /\ ToFront(b, v).tx = b.tx
    BY DEF ToBack, ToFront, QueueOK, QueueFields
  <2>3. QueueOK(Overwrite(b, v)) /\ Overwrite(b, v).tx = b.tx
    BY <2>2 DEF Overwrite, QueueOK, QueueFields
  <2>4. prvCopyDataToQueue(b, v, position) \in {ToBack(b, v), ToFront(b, v), Overwrite(b, v)}
    BY <1>3 DEF prvCopyDataToQueue, Position
  <2> QED
    BY <1>1, <2>1, <2>2, <2>3, <2>4
<1> QED
  BY <1>2, <1>3

LEMMA SentOK ==
    ASSUME NEW z, NEW from, KernelOK(z, from), NEW b, QueueOK(b), NEW x \in Object, NEW v, NEW position \in Position
    PROVE  /\ KernelOK(Sent(z, b, x, v, position).k, from) /\ QueueOK(Sent(z, b, x, v, position).b)
           /\ KernelOK(SentFromISR(z, b, x, v, position).k, from) /\ QueueOK(SentFromISR(z, b, x, v, position).b)
<1> DEFINE mine == IF b.type = "mutex" THEN b.holder ELSE NULL
           w == xTaskPriorityDisinherit(z, mine)
           y == WakeOrYield(w, Receiving(x), Restores(z, mine))
           c == prvCopyDataToQueue(b, v, position)
           d == Deferred(z, Receiving(x), b.tx)
<1>1. mine \in Task \cup {NULL} /\ b.tx \in Int
  BY DEF QueueOK
<1>2. QueueOK(c) /\ Receiving(x) \in EventList
  BY CopyOK, EventListsOf
<1>3. KernelOK(d.k, from) /\ d.count \in Int
  BY <1>1, <1>2, DeferredOK
<1> HIDE DEF mine
<1>4. KernelOK(w, from)
  BY <1>1, DisinheritOK
<1>5. KernelOK(y, from)
  <2> HIDE DEF w
  <2>1. \A e : KernelOK(WakeAndYield(w, Receiving(x)), from) /\ KernelOK(YieldIf(w, e), from)
    BY <1>2, <1>4, WakeOneOK, MovelessOK
  <2> QED
    BY <2>1, Zenon DEF WakeOrYield
<1>6. Sent(z, b, x, v, position) = [k |-> y, b |-> c]
  BY Zenon DEF Sent, mine
<1>7. SentFromISR(z, b, x, v, position) = [k |-> d.k, b |-> [c EXCEPT !.tx = d.count]]
  BY Zenon DEF SentFromISR, CountTx
<1> HIDE DEF y, c, d
<1>8. QueueOK([c EXCEPT !.tx = d.count])
  BY <1>2, <1>3 DEF QueueOK, QueueFields
<1> QED
  BY <1>2, <1>3, <1>5, <1>6, <1>7, <1>8

LEMMA ReceivedOK ==
    ASSUME NEW z, NEW from, KernelOK(z, from), NEW b, QueueOK(b), NEW x \in Object
    PROVE  /\ z.cur \in Task => KernelOK(Received(z, b, x).k, from) /\ QueueOK(Received(z, b, x).b)
           /\ KernelOK(ReceivedFromISR(z, b, x).k, from) /\ QueueOK(ReceivedFromISR(z, b, x).b)
           /\ KernelOK(Peeked(z, b, x).k, from) /\ QueueOK(Peeked(z, b, x).b)
           /\ KernelOK(xQueueGenericReset(z, b, x).k, from) /\ QueueOK(xQueueGenericReset(z, b, x).b)
<1> DEFINE out == [prvCopyDataFromQueue(b) EXCEPT !.n = @ - 1]
           w == [z EXCEPT !.held[z.cur] = IF b.type = "mutex" THEN @ + 1 ELSE @]
           y == WakeAndYield(w, Sending(x))
           c == [out EXCEPT !.holder = IF b.type = "mutex" THEN z.cur ELSE @]
           d == Deferred(z, Sending(x), b.rx)
<1>1. Sending(x) \in EventList /\ Receiving(x) \in EventList /\ b.rx \in Int
  BY EventListsOf DEF QueueOK
<1>2. QueueOK(out)
  BY CopyOK DEF Position
<1>3. KernelOK(d.k, from) /\ d.count \in Int
  BY <1>1, DeferredOK
<1>4. Alike(z, w) /\ Steady(z, w)
  BY DEF KernelOK, KernelAt, Settled, Shape, Alike, Steady, SameTime, Fields, Kept
<1> HIDE DEF w
<1>5. KernelOK(y, from)
  BY <1>1, <1>4, AlikeOK, WakeOneOK
<1>6. Received(z, b, x) = [k |-> y, b |-> c]
  BY Zenon DEF Received, w
<1>7. ReceivedFromISR(z, b, x) = [k |-> d.k, b |-> [out EXCEPT !.rx = d.count]]
  BY Zenon DEF ReceivedFromISR, CountRx
<1> HIDE DEF y, d, out
<1>8. QueueOK([out EXCEPT !.rx = d.count]) /\ (z.cur \in Task => QueueOK(c))
  BY <1>2, <1>3 DEF QueueOK, QueueFields
<1> HIDE DEF c
<1>9. KernelOK(Peeked(z, b, x).k, from) /\ QueueOK(Peeked(z, b, x).b)
  BY <1>1, WakeOneOK DEF Peeked
<1>10. KernelOK(xQueueGenericReset(z, b, x).k, from)
  BY <1>1, WakeOneOK DEF xQueueGenericReset
<1>11. QueueOK(xQueueGenericReset(z, b, x).b)
  <2> DEFINE e == [b EXCEPT !.n = 0, !.w = 0, !.r = b.length - 1, !.rx = queueUNLOCKED, !.tx = queueUNLOCKED]
  <2>1. xQueueGenericReset(z, b, x).b = e
    BY DEF xQueueGenericReset
  <2>2. QueueOK(e)
    BY DEF QueueOK, QueueFields, queueUNLOCKED
  <2> QED
    BY <2>1, <2>2
<1> QED
  BY <1>3, <1>5, <1>6, <1>7, <1>8, <1>9, <1>10, <1>11

LEMMA DisinheritPriority ==
    ASSUME NEW z, NEW from, KernelOK(z, from), NEW x \in Object
    PROVE  prvGetDisinheritPriorityAfterTimeout(z, x) \in Prio
<1> DEFINE l == z.events[Receiving(x)]
<1>1. l \in Seq(Task) /\ z.key \in [Task -> 1 .. configMAX_PRIORITIES]
  BY EventListsOf DEF KernelOK, KernelAt, Settled, Shape
<1>2. l # <<>> => z.key[Head(l)] \in 1 .. configMAX_PRIORITIES
  BY <1>1, TailDrops
<1>3. prvGetDisinheritPriorityAfterTimeout(z, x) = IF l = <<>> THEN 0 ELSE configMAX_PRIORITIES - z.key[Head(l)]
  BY Zenon DEF prvGetDisinheritPriorityAfterTimeout
<1> HIDE DEF l
<1> QED
  BY <1>2, <1>3, PriorityAssumption DEF Prio

----------------------------------------------------------------------------
(* Timers                                                                   *)

LEMMA ListOf ==
    ASSUME NEW S, NEW l \in Seq(S), NEW x, NEW value
    PROVE  /\ RemoveFirst(l, x) \in Seq(S) /\ (l = <<>> => RemoveFirst(l, x) = <<>>)
           /\ x \in S => vListInsert(l, x, value) \in Seq(S) /\ vListInsert(l, x, value) # <<>>
<1> DEFINE p == Place(l, x)
           I == {i \in 1 .. Len(l) : value[l[i]] > value[x]}
           o == IF I # {} THEN Min(I) ELSE 0
<1>1. IF Contains(l, x) THEN p \in 1 .. Len(l) ELSE p = 0
  BY FirstPlace
<1>2. RemoveFirst(l, x) = IF Contains(l, x) THEN RemoveAt(l, p) ELSE l
  BY Zenon DEF RemoveFirst, Contains, SelectInSeq, Place
<1>3. o = 0 \/ o \in 1 .. Len(l)
  <2>1. I \in SUBSET Nat
    OBVIOUS
  <2>2. I # {} => Min(I) \in I
    BY <2>1, LeastIs
  <2> QED
    BY <2>2
<1>4. vListInsert(l, x, value) = IF o = 0 THEN Append(l, x) ELSE InsertAt(l, o, x)
  BY DEF vListInsert, SelectInSeq
<1> HIDE DEF p, o
<1>5. RemoveFirst(l, x) \in Seq(S)
  BY <1>1, <1>2, RemoveOneOf
<1>6. l = <<>> => ~Contains(l, x)
  BY DEF Contains
<1>7. ASSUME x \in S PROVE vListInsert(l, x, value) \in Seq(S) /\ Len(vListInsert(l, x, value)) = Len(l) + 1
  BY <1>3, <1>4, <1>7, InsertOneOf
<1>8. ASSUME NEW m \in Seq(S), Len(m) = Len(l) + 1 PROVE m # <<>>
  BY <1>8
<1> QED
  BY <1>2, <1>5, <1>6, <1>7, <1>8

\* The daemon's commands, its queue and its timers, which are those of T.  A
\* timer that expires after the wrap of the tick count has been put there by a
\* daemon that has seen a time other than 0.
MessageOK(c, T) ==
    c.id # "none" => /\ c.timer \in T /\ c.value \in Time
                     /\ c.id = "tmrCOMMAND_CHANGE_PERIOD" => c.value # 0
MailOK(b, T) ==
    /\ DOMAIN b = QueueFields /\ b.type = "queue"
    /\ b.length \in Nat \ {0} /\ b.n \in 0 .. b.length /\ b.r \in 0 .. b.length - 1
    /\ DOMAIN b.buf = 0 .. b.length - 1 /\ b.w = Rem(b.r + 1 + b.n, b.length)
    /\ \A i \in 1 .. b.n : MessageOK(b.buf[Rem(b.r + i, b.length)], T)
TimerFields == {"current", "overflow", "last", "expiry", "period", "auto", "active", "age", "message"}
TimersOK(m, T) ==
    /\ DOMAIN m = TimerFields /\ IsFiniteSet(T)
    /\ m.period \in [T -> Period] /\ m.expiry \in [T -> Time]
    /\ m.current \in Seq(T) /\ m.overflow \in Seq(T)
    /\ m.last \in Time /\ (m.overflow # <<>> => m.last > 0)
    /\ MessageOK(m.message, T) /\ m.age \in [T -> Int]

LEMMA MailSent ==
    ASSUME NEW T, NEW b, MailOK(b, T), b.n # b.length, NEW v, MessageOK(v, T)
    PROVE  MailOK(ToBack(b, v), T)
<1> DEFINE L == b.length
           n == b.n
           r == b.r
           c == ToBack(b, v)
<1>1. L \in Nat \ {0} /\ n \in 0 .. L - 1 /\ r \in 0 .. L - 1 /\ DOMAIN b.buf = 0 .. L - 1 /\ DOMAIN b = QueueFields
  BY DEF MailOK
<1>2. b.w = Rem(r + 1 + n, L) /\ \A i \in 1 .. n : MessageOK(b.buf[Rem(r + i, L)], T)
  BY DEF MailOK
<1> HIDE DEF L, n, r
<1>3. Behind(L, r, n)
  BY <1>1, SlotBehind
<1>4. /\ DOMAIN c = QueueFields /\ c.type = b.type /\ c.length = L /\ c.r = r /\ c.n = n + 1
      /\ c.w = Rem(Rem(r + 1 + n, L) + 1, L) /\ c.buf = [b.buf EXCEPT ![Rem(r + 1 + n, L)] = v]
  BY <1>1, <1>2 DEF ToBack, After, QueueFields, L, n, r, Rem
<1> HIDE DEF c
<1>5. ASSUME NEW i \in 1 .. n + 1 PROVE MessageOK(c.buf[Rem(r + i, L)], T)
  <2>1. CASE i \in 1 .. n
    BY <1>1, <1>2, <1>3, <1>4, <2>1 DEF Behind
  <2>2. CASE i = n + 1
    <3>1. r + i = r + 1 + n
      BY <1>1, <2>2
    <3>2. c.buf[Rem(r + 1 + n, L)] = v
      BY <1>1, <1>3, <1>4 DEF Behind
    <3> QED
      BY <3>1, <3>2
  <2> QED
    BY <1>1, <2>1, <2>2
<1>6. c.w = Rem(r + 1 + (n + 1), L) /\ n + 1 \in 0 .. L
  BY <1>1, <1>3, <1>4 DEF Behind
<1>7. b.type = "queue"
  BY DEF MailOK
<1> QED
  BY <1>1, <1>4, <1>5, <1>6, <1>7 DEF MailOK, c

LEMMA MailRead ==
    ASSUME NEW T, NEW b, MailOK(b, T), b.n # 0
    PROVE  MessageOK(First(b), T) /\ MailOK([prvCopyDataFromQueue(b) EXCEPT !.n = @ - 1], T)
<1> DEFINE L == b.length
           n == b.n
           r == b.r
           c == [prvCopyDataFromQueue(b) EXCEPT !.n = @ - 1]
<1>1. /\ L \in Nat \ {0} /\ n \in 1 .. L /\ r \in 0 .. L - 1 /\ DOMAIN b.buf = 0 .. L - 1
      /\ DOMAIN b = QueueFields /\ b.type = "queue"
  BY DEF MailOK
<1>2. b.w = Rem(r + 1 + n, L) /\ \A i \in 1 .. n : MessageOK(b.buf[Rem(r + i, L)], T)
  BY DEF MailOK
<1>3. First(b) = b.buf[Rem(r + 1, L)]
  BY DEF First, After, Rem
<1>4. /\ DOMAIN c = QueueFields /\ c.type = b.type /\ c.length = L /\ c.r = Rem(r + 1, L) /\ c.n = n - 1
      /\ c.w = b.w /\ c.buf = b.buf
  BY <1>1 DEF prvCopyDataFromQueue, After, QueueFields, Rem
<1> HIDE DEF L, n, r, c
<1>5. Up(L, r, n)
  BY <1>1, SlotsUp
<1>6. \A i \in 1 .. n - 1 : Rem(Rem(r + 1, L) + i, L) = Rem(r + (i + 1), L) /\ i + 1 \in 1 .. n
  BY <1>1, <1>5 DEF Up
<1>7. c.w = Rem(c.r + 1 + c.n, L) /\ c.r \in 0 .. L - 1 /\ c.n \in 0 .. L
  BY <1>1, <1>2, <1>4, <1>5 DEF Up
<1>8. \A i \in 1 .. c.n : MessageOK(c.buf[Rem(c.r + i, L)], T)
  BY <1>2, <1>4, <1>6
<1>9. 1 \in 1 .. n
  BY <1>1
<1> QED
  BY <1>1, <1>2, <1>3, <1>4, <1>7, <1>8, <1>9 DEF MailOK, c

\* What a lock, a count or a holder makes of a queue.
LEMMA MailSame ==
    ASSUME NEW T, NEW b, MailOK(b, T), NEW c, DOMAIN c = QueueFields,
           \A f \in QueueFields \ {"rx", "tx", "holder", "rec"} : c[f] = b[f]
    PROVE  MailOK(c, T)
<1>1. c.type = b.type /\ c.length = b.length /\ c.n = b.n /\ c.r = b.r /\ c.w = b.w /\ c.buf = b.buf
  BY DEF QueueFields
<1> QED
  BY <1>1 DEF MailOK

LEMMA RemovedTimer ==
    ASSUME NEW T, NEW m, TimersOK(m, T), NEW x
    PROVE  TimersOK(RemoveTimer(m, x), T) /\ RemoveTimer(m, x).last = m.last
<1> DEFINE y == RemoveTimer(m, x)
<1>1. DOMAIN m = TimerFields
  BY DEF TimersOK
<1>2. /\ DOMAIN y = TimerFields /\ y.current = RemoveFirst(m.current, x) /\ y.overflow = RemoveFirst(m.overflow, x)
      /\ y.period = m.period /\ y.expiry = m.expiry /\ y.last = m.last /\ y.message = m.message
      /\ y.age = m.age
  BY <1>1 DEF RemoveTimer, TimerFields
<1> HIDE DEF y
<1>3. m.current \in Seq(T) /\ m.overflow \in Seq(T)
  BY DEF TimersOK
<1>4. y.current \in Seq(T) /\ y.overflow \in Seq(T) /\ (m.overflow = <<>> => y.overflow = <<>>)
  BY <1>2, <1>3, ListOf
<1>5. TimersOK(y, T)
  BY <1>2, <1>4 DEF TimersOK
<1> QED
  BY <1>2, <1>5 DEF y

\* Histories, and the bits of a timer.
LEMMA MarkedTimer ==
    ASSUME NEW T, NEW m, TimersOK(m, T), NEW y, DOMAIN y = TimerFields, y.age \in [T -> Int],
           \A f \in TimerFields \ {"auto", "active", "age"} : y[f] = m[f]
    PROVE  TimersOK(y, T) /\ y.last = m.last
<1>1. /\ y.period = m.period /\ y.expiry = m.expiry /\ y.last = m.last /\ y.message = m.message
      /\ y.current = m.current /\ y.overflow = m.overflow
  BY DEF TimerFields
<1> QED
  BY <1>1 DEF TimersOK

LEMMA CalledBack ==
    ASSUME NEW T, NEW m, TimersOK(m, T), NEW x, NEW v
    PROVE  /\ TimersOK(pxCallbackFunction(m, x), T) /\ TimersOK([m EXCEPT !.active[x] = v], T)
           /\ v \in Int => TimersOK([m EXCEPT !.age[x] = v], T)
           /\ v \in [T -> Int] => TimersOK([m EXCEPT !.age = v], T)
           /\ [m EXCEPT !.active[x] = v].last = m.last /\ pxCallbackFunction(m, x).last = m.last
<1>1. DOMAIN m = TimerFields /\ m.age \in [T -> Int]
  BY DEF TimersOK
<1>2. ASSUME NEW y, DOMAIN y = TimerFields, y.age \in [T -> Int],
             \A f \in TimerFields \ {"auto", "active", "age"} : y[f] = m[f]
      PROVE  TimersOK(y, T) /\ y.last = m.last
  BY <1>2, MarkedTimer
<1>3. TimersOK(pxCallbackFunction(m, x), T) /\ pxCallbackFunction(m, x).last = m.last
  <2> DEFINE y == pxCallbackFunction(m, x)
  <2>1. /\ DOMAIN y = TimerFields /\ y.age = [m.age EXCEPT ![x] = @ - m.period[x]]
        /\ \A f \in TimerFields \ {"auto", "active", "age"} : y[f] = m[f]
    BY <1>1 DEF pxCallbackFunction, TimerFields
  <2>2. x \in T => m.period[x] \in Int
    BY DEF TimersOK, Period
  <2> HIDE DEF y
  <2>3. y.age \in [T -> Int]
    <3> DEFINE n == m.period[x]
    <3>1. y.age = [m.age EXCEPT ![x] = m.age[x] - n] /\ (x \in T => n \in Int)
      BY <2>1, <2>2
    <3> HIDE DEF n
    <3>2. \A u \in T : [m.age EXCEPT ![x] = m.age[x] - n][u] \in Int
      BY <1>1, <3>1
    <3> QED
      BY <1>1, <3>1, <3>2
  <2>4. TimersOK(y, T) /\ y.last = m.last
    BY <1>2, <2>1, <2>3
  <2> QED
    BY <2>4 DEF y
<1>4. TimersOK([m EXCEPT !.active[x] = v], T) /\ [m EXCEPT !.active[x] = v].last = m.last
  BY <1>1, <1>2 DEF TimerFields
<1>5. /\ v \in Int => TimersOK([m EXCEPT !.age[x] = v], T)
      /\ v \in [T -> Int] => TimersOK([m EXCEPT !.age = v], T)
  <2>1. /\ v \in Int => [m.age EXCEPT ![x] = v] \in [T -> Int]
        /\ [m EXCEPT !.age[x] = v].age = [m.age EXCEPT ![x] = v] /\ [m EXCEPT !.age = v].age = v
    BY <1>1 DEF TimerFields
  <2> QED
    BY <1>1, <1>2, <2>1 DEF TimerFields
<1> QED
  BY <1>3, <1>4, <1>5

\* A timer that expires at 0 is never put off at 0: its period is over then.
LEMMA InsertTimerOK ==
    ASSUME NEW T, NEW m, TimersOK(m, T), NEW x \in T, NEW command \in Time, NEW expiry,
           expiry = (command + m.period[x]) % Ticks, NEW y,
           y = prvInsertTimerInActiveList(m, x, expiry, m.last, command).m
    PROVE  TimersOK(y, T) /\ y.last = m.last
<1> DEFINE now == m.last
           n == m.period[x]
           set == [m EXCEPT !.expiry[x] = expiry]
           a == [set EXCEPT !.overflow = vListInsert(m.overflow, x, set.expiry)]
           b == [set EXCEPT !.current = vListInsert(m.current, x, set.expiry)]
           late == IF expiry <= now THEN Since(now, command) >= n ELSE now < command /\ expiry >= command
<1>1. DOMAIN m = TimerFields /\ now \in Time /\ n \in 1 .. Ticks - 1 /\ m.current \in Seq(T) /\ m.overflow \in Seq(T)
  BY DEF TimersOK, Period
<1>2. expiry \in Time
  <2>1. expiry = (command + n) % Ticks
    OBVIOUS
  <2> HIDE DEF n
  <2> QED
    BY <1>1, <2>1, TicksAssumption DEF Time
<1>3. y = IF late THEN set ELSE IF expiry <= now THEN a ELSE b
  BY <1>1 DEF prvInsertTimerInActiveList, TimerFields
<1>4. TimersOK(set, T) /\ set.last = now
  <2>1. /\ DOMAIN set = TimerFields /\ set.current = m.current /\ set.overflow = m.overflow
        /\ set.period = m.period /\ set.expiry = [m.expiry EXCEPT ![x] = expiry]
        /\ set.last = m.last /\ set.message = m.message /\ set.age = m.age
    BY <1>1 DEF TimerFields
  <2>2. set.expiry \in [T -> Time]
    BY <1>2, <2>1 DEF TimersOK
  <2> HIDE DEF set
  <2> QED
    BY <2>1, <2>2 DEF TimersOK
<1>5. vListInsert(m.overflow, x, set.expiry) \in Seq(T) /\ vListInsert(m.current, x, set.expiry) \in Seq(T)
  BY <1>1, ListOf
<1>6. expiry <= now /\ now = 0 => late
  <2>1. expiry = Turn(command + n) /\ Since(0, command) = Turn(0 - command)
    BY DEF Turn, Since
  <2> HIDE DEF n, now
  <2>2. /\ Turn(command + n) = IF command + n < Ticks THEN command + n ELSE command + n - Ticks
        /\ command # 0 => Turn(0 - command) = Ticks - command
    <3>1. command + n \in (-Ticks) .. (Ticks + Ticks - 1) /\ ~(command + n < 0)
          /\ 0 - command \in (-Ticks) .. (Ticks + Ticks - 1) /\ (command # 0 => 0 - command < 0 /\ 0 - command + Ticks = Ticks - command)
      <4>1. command \in 0 .. Ticks - 1 /\ n \in 0 .. Ticks - 1 /\ Ticks \in Nat
        BY <1>1, TicksAssumption DEF Time
      <4> QED
        BY ONLY <4>1
    <3>2. Turn(command + n) = IF command + n < 0 THEN (command + n) + Ticks
                              ELSE IF command + n < Ticks THEN command + n ELSE (command + n) - Ticks
      <4> DEFINE e == command + n
      <4>1. e \in (-Ticks) .. (Ticks + Ticks - 1)
        BY <3>1
      <4> HIDE DEF e
      <4>2. Turn(e) = IF e < 0 THEN e + Ticks ELSE IF e < Ticks THEN e ELSE e - Ticks
        BY <4>1, Turns
      <4> QED
        BY <4>2 DEF e
    <3>3. Turn(0 - command) = IF 0 - command < 0 THEN 0 - command + Ticks
                              ELSE IF 0 - command < Ticks THEN 0 - command ELSE 0 - command - Ticks
      BY <3>1, Turns, Zenon
    <3> QED
      BY <1>1, <3>1, <3>2, <3>3, TicksAssumption DEF Time
  <2> QED
    BY <1>1, <1>2, <2>1, <2>2, TicksAssumption DEF Time
<1> HIDE DEF late
<1>7. ~late /\ expiry <= now => now > 0
  BY <1>1, <1>2, <1>6, TicksAssumption DEF Time
<1>8. now > 0 => TimersOK(a, T) /\ a.last = now
  <2>1. /\ DOMAIN a = TimerFields /\ a.current = set.current /\ a.overflow = vListInsert(m.overflow, x, set.expiry)
        /\ a.period = set.period /\ a.expiry = set.expiry /\ a.last = set.last /\ a.message = set.message
        /\ a.age = set.age
    BY <1>1 DEF TimerFields
  <2> HIDE DEF a, set
  <2> QED
    BY <1>4, <1>5, <2>1 DEF TimersOK
<1>9. TimersOK(b, T) /\ b.last = now
  <2>1. /\ DOMAIN b = TimerFields /\ b.overflow = set.overflow /\ b.current = vListInsert(m.current, x, set.expiry)
        /\ b.period = set.period /\ b.expiry = set.expiry /\ b.last = set.last /\ b.message = set.message
        /\ b.age = set.age
    BY <1>1 DEF TimerFields
  <2> HIDE DEF b, set
  <2> QED
    BY <1>4, <1>5, <2>1 DEF TimersOK
<1> HIDE DEF a, b, set
<1> QED
  BY <1>3, <1>4, <1>7, <1>8, <1>9

\* What the daemon works on, and the command it may send itself.
DaemonOK(z, from, T) ==
    /\ DOMAIN z = {"k", "b", "tm"} /\ KernelOK(z.k, from) /\ QueueOK(z.b) /\ MailOK(z.b, T)
    /\ TimersOK(z.tm, T)

LEMMA WithTimersOK ==
    ASSUME NEW z, NEW from, NEW T, DaemonOK(z, from, T), NEW m, TimersOK(m, T)
    PROVE  DaemonOK([z EXCEPT !.tm = m], from, T)
  BY DEF DaemonOK

LEMMA SendToSelfOK ==
    ASSUME NEW z, NEW from, NEW T, DaemonOK(z, from, T), NEW x \in T, NEW v \in Time, TimerQueue \in Object,
           NEW y, y = SendToSelf(z, "tmrCOMMAND_START_DONT_TRACE", x, v)
    PROVE  DaemonOK(y, from, T) /\ y.tm = z.tm
<1> DEFINE c == [id |-> "tmrCOMMAND_START_DONT_TRACE", timer |-> x, value |-> v]
           done == Sent(z.k, z.b, TimerQueue, c, "queueSEND_TO_BACK")
           w == [z.k EXCEPT !.halted = TRUE]
<1>1. KernelOK(w, from)
  BY FreeFieldsOK DEF DaemonOK
<1>2. KernelOK(done.k, from) /\ QueueOK(done.b)
  <2>1. "queueSEND_TO_BACK" \in Position
    BY DEF Position
  <2> QED
    BY <2>1, SentOK DEF DaemonOK
<1>3. MessageOK(c, T)
  BY DEF MessageOK
<1>4. MailOK(z.b, T) /\ DOMAIN z = {"k", "b", "tm"}
  BY DEF DaemonOK
<1>5. done.b = ToBack(z.b, c)
  BY <1>4 DEF Sent, prvCopyDataToQueue, MailOK
<1>6. [z EXCEPT !.k.halted = TRUE] = [z EXCEPT !.k = w]
  OBVIOUS
<1>7. y = IF prvIsQueueFull(z.b) THEN [z EXCEPT !.k = w] ELSE [z EXCEPT !.k = done.k, !.b = done.b]
  BY <1>6 DEF SendToSelf, WithQueue
<1> HIDE DEF done, w, c
<1>8. ~prvIsQueueFull(z.b) => MailOK(done.b, T)
  BY <1>3, <1>4, <1>5, MailSent DEF prvIsQueueFull
<1>9. CASE prvIsQueueFull(z.b)
  BY <1>1, <1>4, <1>7, <1>9 DEF DaemonOK
<1>10. CASE ~prvIsQueueFull(z.b)
  BY <1>2, <1>4, <1>7, <1>8, <1>10 DEF DaemonOK
<1> QED
  BY <1>9, <1>10

LEMMA ExpireOK ==
    ASSUME NEW z, NEW from, NEW T, DaemonOK(z, from, T), NEW i, TimerQueue \in Object
    PROVE  DaemonOK(Expire(z, i), from, T)
<1> DEFINE x == Head(z.tm.current)
           at == z.tm.expiry[x]
           m == pxCallbackFunction(RemoveTimer(z.tm, x), x)
           w == [z EXCEPT !.tm = pxCallbackFunction(RemoveTimer(@, x), x)]
           reload == (at + w.tm.period[x]) % Ticks
           expiry == [w.tm.expiry EXCEPT ![x] = reload]
           n == [w.tm EXCEPT !.expiry = expiry, !.current = vListInsert(w.tm.current, x, expiry)]
<1>1. TimersOK(z.tm, T) /\ z.tm.current \in Seq(T)
  BY DEF DaemonOK, TimersOK
<1>2. CASE z.tm.current = <<>>
  BY <1>2, Zenon DEF Expire
<1>3. CASE z.tm.current # <<>>
  <2>1. x \in T
    BY <1>1, <1>3
  <2>2. at \in Time
    BY <1>1, <2>1 DEF TimersOK
  <2>3. TimersOK(RemoveTimer(z.tm, x), T)
    BY <1>1, RemovedTimer
  <2>4. TimersOK(m, T)
    BY <2>3, CalledBack
  <2>5. w = [z EXCEPT !.tm = m]
    OBVIOUS
  <2> HIDE DEF m, x, at
  <2>6. DaemonOK(w, from, T)
    BY <2>4, <2>5, WithTimersOK
  <2> HIDE DEF w
  <2>7. DOMAIN w.tm = TimerFields /\ w.tm.period[x] \in Period /\ TimersOK(w.tm, T) /\ DOMAIN w = {"k", "b", "tm"}
    BY <2>1, <2>6 DEF DaemonOK, TimersOK
  <2>8. reload \in Time
    BY <2>2, <2>7, TicksAssumption DEF Time, Period
  <2> HIDE DEF reload
  <2>9. vListInsert(w.tm.current, x, expiry) \in Seq(T) /\ expiry \in [T -> Time]
    BY <2>1, <2>7, <2>8, ListOf DEF TimersOK
  <2>10. TimersOK(n, T)
    <3>1. /\ DOMAIN n = TimerFields /\ n.current = vListInsert(w.tm.current, x, expiry)
          /\ n.overflow = w.tm.overflow /\ n.period = w.tm.period /\ n.expiry = expiry
          /\ n.last = w.tm.last /\ n.message = w.tm.message /\ n.age = w.tm.age
      BY <2>7 DEF TimerFields
    <3> HIDE DEF n, expiry
    <3> QED
      BY <2>7, <2>9, <3>1 DEF TimersOK
  <2>11. \A y : y = SendToSelf(w, "tmrCOMMAND_START_DONT_TRACE", x, at) => DaemonOK(y, from, T)
    BY <2>1, <2>2, <2>6, SendToSelfOK
  <2>12. Reload(w, x, at) \in {w, [w EXCEPT !.tm = n], SendToSelf(w, "tmrCOMMAND_START_DONT_TRACE", x, at)}
    <3>1. [w EXCEPT !.tm.expiry = expiry, !.tm.current = vListInsert(@, x, expiry)] = [w EXCEPT !.tm = n]
      BY <2>7 DEF TimerFields
    <3> HIDE DEF SendToSelf, n
    <3> QED
      BY <3>1, Zenon DEF Reload, expiry, reload
  <2> HIDE DEF n
  <2>13. DaemonOK([w EXCEPT !.tm = n], from, T)
    BY <2>6, <2>10, WithTimersOK
  <2>14. Expire(z, i) = Reload(w, x, at)
    BY <1>3, Zenon DEF Expire, ExpireHead, w, x, at
  <2> QED
    BY <2>6, <2>11, <2>12, <2>13, <2>14
<1> QED
  BY <1>2, <1>3

LEMMA SwitchTimersOK ==
    ASSUME NEW z, NEW from, NEW T, DaemonOK(z, from, T), TimerQueue \in Object
    PROVE  DaemonOK(prvSwitchTimerLists(z), from, T) /\ prvSwitchTimerLists(z).tm.overflow = <<>>
<1> DEFINE n == Ticks * Cardinality(DOMAIN z.tm.period)
           l == [i \in 1 .. n |-> i]
           w == FoldLeft(Expire, z, l)
           m == [w.tm EXCEPT !.current = w.tm.overflow, !.overflow = <<>>]
<1>1. n \in Nat /\ DOMAIN l = 1 .. n
  <2>1. DOMAIN z.tm.period = T /\ IsFiniteSet(T)
    BY DEF DaemonOK, TimersOK
  <2>2. Cardinality(DOMAIN z.tm.period) \in Nat
    BY <2>1, FS_CardinalityType
  <2>3. \A a, b \in Nat : a * b \in Nat
    OBVIOUS
  <2> QED
    BY <2>2, <2>3, TicksAssumption
<1> HIDE DEF l, n
<1>14. Outcome("expire", z, l, n, FoldLeft(Expire, z, l))
  BY <1>1, ExpireLoop
<1>5. PICK after : InTurn("expire", z, l, n, after) /\ after[n] = FoldLeft(Expire, z, l)
  BY <1>14 DEF Outcome
<1>15. after[0] = z /\ \A i \in 1 .. n : after[i] = Expire(after[i - 1], l[i])
  BY <1>5, Bodies DEF InTurn
<1> DEFINE S == {i \in 0 .. n : DaemonOK(after[i], from, T)}
<1>6. 0 \in S /\ \A i \in 1 .. n : i - 1 \in S => i \in S
  BY <1>1, <1>15, ExpireOK
<1>7. DaemonOK(w, from, T)
  <2> HIDE DEF S
  <2>1. n \in S
    BY <1>1, <1>6, Climb
  <2> QED
    BY <1>5, <2>1 DEF S
<1>8. prvSwitchTimerLists(z) = SwapLists(w)
  BY Zenon DEF prvSwitchTimerLists, l, n
<1> HIDE DEF w
<1>9. DOMAIN w = {"k", "b", "tm"} /\ TimersOK(w.tm, T) /\ DOMAIN w.tm = TimerFields
  BY <1>7 DEF DaemonOK, TimersOK
<1>10. SwapLists(w) = [w EXCEPT !.tm = m]
  BY <1>9 DEF SwapLists, TimerFields
<1>11. TimersOK(m, T) /\ m.overflow = <<>>
  <2>1. /\ DOMAIN m = TimerFields /\ m.current = w.tm.overflow /\ m.overflow = <<>> /\ m.period = w.tm.period
        /\ m.expiry = w.tm.expiry /\ m.last = w.tm.last /\ m.message = w.tm.message /\ m.age = w.tm.age
    BY <1>9 DEF TimerFields
  <2> HIDE DEF m
  <2> QED
    BY <1>9, <2>1 DEF TimersOK
<1> HIDE DEF m
<1>12. [w EXCEPT !.tm = m].tm = m
  BY <1>9
<1> QED
  BY <1>7, <1>8, <1>10, <1>11, <1>12, WithTimersOK

LEMMA SampleOK ==
    ASSUME NEW z, NEW from, NEW T, DaemonOK(z, from, T), TimerQueue \in Object, NEW y, y = prvSampleTimeNow(z)
    PROVE  /\ DaemonOK(y, from, T) /\ y.tm.last = from.tick
           /\ ~Switched(z) => y.tm.current = z.tm.current
<1> DEFINE w == IF Switched(z) THEN prvSwitchTimerLists(z) ELSE z
           now == z.k.tick
           m == [w.tm EXCEPT !.last = now]
<1>1. DaemonOK(w, from, T) /\ (Switched(z) => w.tm.overflow = <<>>) /\ (~Switched(z) => w = z)
  BY SwitchTimersOK
<1>2. y = [w EXCEPT !.tm.last = now]
  BY Zenon DEF prvSampleTimeNow
<1>3. now \in Time /\ now = from.tick /\ z.tm.last \in Time
  BY DEF DaemonOK, KernelOK, KernelAt, Settled, Steady, SameTime, Shape, TimersOK
<1>4. ~Switched(z) => ~(now < z.tm.last)
  BY DEF Switched
<1> HIDE DEF w, now
<1>5. TimersOK(w.tm, T) /\ DOMAIN w.tm = TimerFields /\ DOMAIN w = {"k", "b", "tm"}
  BY <1>1 DEF DaemonOK, TimersOK
<1>6. [w EXCEPT !.tm.last = now] = [w EXCEPT !.tm = m]
  BY <1>5
<1>7. /\ DOMAIN m = TimerFields /\ m.current = w.tm.current /\ m.overflow = w.tm.overflow
      /\ m.period = w.tm.period /\ m.expiry = w.tm.expiry /\ m.last = now /\ m.message = w.tm.message
      /\ m.age = w.tm.age
  BY <1>5 DEF TimerFields
<1> HIDE DEF m
<1>8. w.tm.overflow # <<>> => now > 0
  <2>1. ASSUME w.tm.overflow # <<>> PROVE w.tm.last > 0 /\ w.tm.last = z.tm.last /\ ~(now < z.tm.last)
    BY <1>1, <1>4, <1>5, <2>1 DEF TimersOK
  <2> QED
    BY <1>3, <2>1, TicksAssumption DEF Time
<1>9. TimersOK(m, T)
  BY <1>3, <1>5, <1>7, <1>8 DEF TimersOK
<1>10. y = [w EXCEPT !.tm = m] /\ y.tm = m
  BY <1>2, <1>5, <1>6
<1> QED
  BY <1>1, <1>3, <1>7, <1>9, <1>10, WithTimersOK

LEMMA StartedOK ==
    ASSUME NEW z, NEW from, NEW T, DaemonOK(z, from, T), NEW x \in T, NEW value \in Time, NEW set,
           TimersOK(set.m, T), TimerQueue \in Object
    PROVE  DaemonOK(Started(z, x, value, set), from, T)
<1> DEFINE aged == [set.m EXCEPT !.age[x] = Since(z.k.tick, value)]
           called == pxCallbackFunction(aged, x)
           w == [z EXCEPT !.tm = called]
           due == (value + w.tm.period[x]) % Ticks
<1>1. TimersOK(aged, T)
  <2>1. z.k.tick \in Time
    BY DEF DaemonOK, KernelOK, KernelAt, Settled, Shape
  <2>2. Since(z.k.tick, value) \in Int
    BY <2>1, TicksAssumption DEF Since, Time
  <2> HIDE DEF Since
  <2> QED
    BY <2>2, CalledBack
<1> HIDE DEF aged
<1>2. TimersOK(called, T)
  BY <1>1, CalledBack
<1> HIDE DEF called
<1>3. DaemonOK(w, from, T) /\ DaemonOK([z EXCEPT !.tm = aged], from, T)
  BY <1>1, <1>2, WithTimersOK
<1> HIDE DEF w
<1>4. w.tm.period[x] \in Period
  BY <1>3 DEF DaemonOK, TimersOK
<1>5. due \in Time
  BY <1>4, TicksAssumption DEF Time, Period
<1>6. Late(w, x, value) \in {w, SendToSelf(w, "tmrCOMMAND_START_DONT_TRACE", x, due)}
  BY Zenon DEF Late
<1> HIDE DEF due
<1>7. DaemonOK(Late(w, x, value), from, T)
  BY <1>3, <1>5, <1>6, SendToSelfOK
<1>8. Started(z, x, value, set) = IF set.late THEN Late(w, x, value) ELSE [z EXCEPT !.tm = aged]
  BY Zenon DEF Started, w, called, aged
<1> QED
  BY <1>3, <1>7, <1>8

LEMMA PeriodChangedOK ==
    ASSUME NEW z, NEW from, NEW T, DaemonOK(z, from, T), NEW x \in T, NEW value \in Time, value # 0,
           z.tm.last = from.tick
    PROVE  DaemonOK(PeriodChanged(z, x, value), from, T)
<1> DEFINE m == [z.tm EXCEPT !.active[x] = TRUE, !.period[x] = value, !.age[x] = 0]
           now == z.k.tick
           n == prvInsertTimerInActiveList(m, x, (now + value) % Ticks, now, now).m
           e == configASSERT(z.k, value > 0)
<1>1. DOMAIN z.tm = TimerFields /\ TimersOK(z.tm, T) /\ value \in Period
  <2>1. TimersOK(z.tm, T) /\ value \in Period
    BY TicksAssumption DEF DaemonOK, Time, Period
  <2> QED
    BY <2>1 DEF TimersOK
<1>2. /\ DOMAIN m = TimerFields /\ m.current = z.tm.current /\ m.overflow = z.tm.overflow
      /\ m.period = [z.tm.period EXCEPT ![x] = value] /\ m.expiry = z.tm.expiry
      /\ m.last = z.tm.last /\ m.message = z.tm.message /\ m.age = [z.tm.age EXCEPT ![x] = 0]
  BY <1>1 DEF TimerFields
<1>3. now = from.tick /\ now \in Time
  BY DEF DaemonOK, KernelOK, KernelAt, Settled, Steady, SameTime, Shape
<1>4. KernelOK(e, from)
  BY MovelessOK DEF DaemonOK
<1>5. PeriodChanged(z, x, value) = [z EXCEPT !.k = e, !.tm = n]
  BY Zenon DEF PeriodChanged, m
<1> HIDE DEF m, e, now
<1>6. m.period \in [T -> Period] /\ m.period[x] = value
  BY <1>1, <1>2 DEF TimersOK
<1>7. TimersOK(m, T)
  <2>1. m.age \in [T -> Int]
    BY <1>1, <1>2 DEF TimersOK
  <2> QED
    BY <1>1, <1>2, <1>6, <2>1 DEF TimersOK
<1>8. TimersOK(n, T)
  BY <1>2, <1>3, <1>6, <1>7, InsertTimerOK
<1> HIDE DEF n
<1> QED
  BY <1>4, <1>5, <1>8 DEF DaemonOK

----------------------------------------------------------------------------
(* Event groups                                                             *)

\* What the loop of xEventGroupSetBits works on.
GroupKept(c, z) == DOMAIN z = {"k", "bits", "clear"} /\ KernelOK(z.k, c)

LEMMA TellIfMetOK ==
    ASSUME NEW c, NEW z, GroupKept(c, z), NEW t \in Task
    PROVE  GroupKept(c, TellIfMet(z, t))
<1> DEFINE w == vTaskRemoveFromUnorderedEventList(z.k, t, z.bits)
           e == IF z.k.bits[t].clear THEN z.clear \cup z.k.bits[t].wanted ELSE z.clear
           y == [z EXCEPT !.k = w, !.clear = e]
<1>1. DOMAIN z = {"k", "bits", "clear"} /\ KernelOK(z.k, c)
  BY DEF GroupKept
<1>2. KernelOK(w, c)
  BY <1>1, RemoveFromUnorderedOK
<1>3. TellIfMet(z, t) = z \/ TellIfMet(z, t) = y
  <2> DEFINE o == [z EXCEPT !.k = vTaskRemoveFromUnorderedEventList(@, t, z.bits),
                            !.clear = IF z.k.bits[t].clear THEN @ \cup z.k.bits[t].wanted ELSE @]
  <2>1. TellIfMet(z, t) = z \/ TellIfMet(z, t) = o
    BY Zenon DEF TellIfMet
  <2>2. o = y
    BY <1>1
  <2> QED
    BY <2>1, <2>2
<1> HIDE DEF w, e
<1>4. DOMAIN y = {"k", "bits", "clear"} /\ y.k = w
  BY <1>1
<1> HIDE DEF y
<1>5. GroupKept(c, y)
  BY <1>2, <1>4 DEF GroupKept
<1> QED
  BY <1>3, <1>5

LEMMA SetBitsOK ==
    ASSUME NEW z, NEW from, KernelOK(z, from), NEW b, NEW x \in Object, NEW set
    PROVE  KernelOK(SetBits(z, b, x, set).k, from)
<1> DEFINE l == z.events[WaitingBits(x)]
           n == Len(l)
           u == Untold(z, b \cup set)
           w == FoldLeft(TellIfMet, u, l)
<1>1. l \in Seq(Task)
  BY EventListsOf DEF KernelOK, KernelAt, Settled, Shape
<1>2. n \in Nat /\ DOMAIN l = 1 .. n /\ \A i \in 1 .. n : l[i] \in Task
  BY <1>1
<1>3. GroupKept(from, u)
  BY DEF GroupKept, Untold
<1> HIDE DEF l, u
<1> HIDE DEF n
<1>14. Outcome("tell", u, l, n, FoldLeft(TellIfMet, u, l))
  BY <1>2, TellIfMetLoop
<1>5. PICK after : InTurn("tell", u, l, n, after) /\ after[n] = FoldLeft(TellIfMet, u, l)
  BY <1>14 DEF Outcome
<1>15. after[0] = u /\ \A i \in 1 .. n : after[i] = TellIfMet(after[i - 1], l[i])
  BY <1>5, Bodies DEF InTurn
<1> DEFINE S == {i \in 0 .. n : GroupKept(from, after[i])}
<1>6. 0 \in S /\ \A i \in 1 .. n : i - 1 \in S => i \in S
  BY <1>2, <1>15, <1>3, TellIfMetOK
<1>7. GroupKept(from, w)
  <2> HIDE DEF S
  <2>1. n \in S
    BY <1>2, <1>6, Climb
  <2> QED
    BY <1>5, <2>1 DEF S
<1>8. SetBits(z, b, x, set) = BitsAfter(w)
  BY Zenon DEF SetBits, l, u
<1> HIDE DEF w
<1>9. BitsAfter(w).k = w.k
  BY DEF BitsAfter
<1> QED
  BY <1>7, <1>8, <1>9 DEF GroupKept

LEMMA TellNobodyOK ==
    ASSUME NEW z, NEW from, KernelOK(z, from), NEW l \in Seq(Task)
    PROVE  KernelOK(FoldLeft(TellNothing, z, l), from)
<1> DEFINE n == Len(l)
<1>1. n \in Nat /\ DOMAIN l = 1 .. n /\ \A i \in 1 .. n : l[i] \in Task
  OBVIOUS
<1> HIDE DEF n
<1>5. ASSUME NEW i \in 1 .. n, NEW y, KernelOK(y, from) PROVE KernelOK(TellNothing(y, l[i]), from)
  BY <1>1, <1>5, RemoveFromUnorderedOK DEF TellNothing
<1>14. Outcome("dismiss", z, l, n, FoldLeft(TellNothing, z, l))
  BY <1>1, TellNothingLoop
<1>2. PICK after : InTurn("dismiss", z, l, n, after) /\ after[n] = FoldLeft(TellNothing, z, l)
  BY <1>14 DEF Outcome
<1>15. after[0] = z /\ \A i \in 1 .. n : after[i] = TellNothing(after[i - 1], l[i])
  BY <1>2, Bodies DEF InTurn
<1> DEFINE S == {i \in 0 .. n : KernelOK(after[i], from)}
<1>3. 0 \in S /\ \A i \in 1 .. n : i - 1 \in S => i \in S
  BY <1>1, <1>15, <1>5
<1>4. KernelOK(FoldLeft(TellNothing, z, l), from)
  <2> HIDE DEF S
  <2>1. n \in S
    BY <1>1, <1>3, Climb
  <2> QED
    BY <1>2, <2>1 DEF S
<1> QED
  BY <1>4

----------------------------------------------------------------------------
(* The start                                                                *)

\* c are the tasks that main and vTaskStartScheduler create, one by one.
StartKept(c, i, z) ==
    /\ KernelOK(z, z) /\ z.susp = 0 /\ z.pended = 0
    /\ \A j \in DOMAIN c : j > i => Nowhere(z, c[j].task)

LEMMA NoKernelOK ==
    /\ KernelOK(NoKernel, NoKernel) /\ NoKernel.susp = 0 /\ NoKernel.pended = 0
    /\ \A t \in Task : Nowhere(NoKernel, t)
<1> DEFINE z == NoKernel
<1>1. /\ DOMAIN z = Fields /\ z.ready = [p \in Prio |-> vListInitialise]
      /\ z.events = [l \in EventList |-> <<>>] /\ z.pended = 0 /\ z.susp = 0
      /\ z.wake = [t \in Task |-> 0] /\ z.tick = 0 /\ z.next = portMAX_DELAY
      /\ z.prio = [t \in Task |-> 0] /\ z.base = [t \in Task |-> 0] /\ z.key = [t \in Task |-> configMAX_PRIORITIES]
      /\ \A l \in Elsewhere : z[l] = <<>>
      /\ z.top = {}
  BY DEF NoKernel, Fields, Elsewhere
<1> HIDE DEF z
<1>2. 0 \in Prio /\ configMAX_PRIORITIES \in 1 .. configMAX_PRIORITIES /\ 0 \in Time /\ portMAX_DELAY \in Time
  BY PriorityAssumption, TicksAssumption DEF Prio, Time, portMAX_DELAY
<1>3. <<>> \in Seq(Task) /\ Len(<<>>) = 0 /\ Unique(<<>>) /\ \A t : ~Contains(<<>>, t)
  BY DEF Unique, Contains
<1>4. \A p \in Prio : z.ready[p].items = <<>> /\ ReadyList(z.ready[p])
  <2>1. ReadyList(vListInitialise) /\ vListInitialise.items = <<>>
    <3>1. 0 \in 0 .. Len(<<>>)
      BY <1>3
    <3> QED
      BY <1>3, <3>1 DEF vListInitialise, ReadyList
  <2> HIDE DEF vListInitialise
  <2> QED
    BY <1>1, <2>1
<1>5. z.prio \in [Task -> Prio] /\ z.base \in [Task -> Prio] /\ z.key \in [Task -> 1 .. configMAX_PRIORITIES]
      /\ z.events \in [EventList -> Seq(Task)] /\ z.pended \in Nat
      /\ z.wake \in [Task -> Time] /\ z.tick \in Time /\ z.next \in Time
  BY <1>1, <1>2, <1>3
<1>6. Shape(z)
  BY <1>1, <1>3, <1>4, <1>5 DEF Shape
<1>7. OnePlace(z)
  BY <1>1, <1>3, <1>4 DEF OnePlace, InReady
<1>8. \A t \in Task : Nowhere(z, t)
  BY <1>1, <1>3, <1>4 DEF Nowhere, InReady
<1>9. Known(z)
  BY <1>1, <1>8 DEF Known, Nowhere
<1>10. Asleep(z, 1)
  <2>1. z.delayed = <<>> /\ z.overflow = <<>>
    BY <1>1 DEF Elsewhere
  <2> QED
    BY <1>3, <2>1 DEF Asleep, Sorted
<1>11. Steady(z, z)
  BY DEF Steady, SameTime
<1>12. KernelOK(z, z)
  BY <1>6, <1>7, <1>9, <1>10, <1>11 DEF KernelOK, KernelAt, Settled
<1> QED
  BY <1>1, <1>8, <1>12 DEF z

\* Creating a task does not create another.
LEMMA NewTaskNowhere ==
    ASSUME NEW z, NEW from, KernelOK(z, from), NEW t \in Task, NEW p \in Prio, NEW u \in Task \ {t}, Nowhere(z, u)
    PROVE  Nowhere(prvAddNewTaskToReadyList(z, t, p), u)
<1> DEFINE w == prvInitialiseNewTask(z, t, p)
           y == prvAddTaskToReadyList(w, t)
           r == w.prio[t]
<1>1. DOMAIN w = Fields /\ w.ready = z.ready /\ \A l \in Elsewhere : w[l] = z[l]
  BY DEF KernelOK, KernelAt, Settled, Shape, prvInitialiseNewTask, Fields, Elsewhere
<1> HIDE DEF w
<1>2. y.ready = [w.ready EXCEPT ![r] = vListInsertEnd(@, t)] /\ \A l \in Elsewhere : y[l] = w[l]
  BY <1>1 DEF prvAddTaskToReadyList, Fields, Elsewhere
<1> HIDE DEF y, r
<1>3. \A o \in Prio : ReadyList(z.ready[o]) /\ Added(z.ready[o].items, t, vListInsertEnd(z.ready[o], t).items)
  BY ListInsertEndAdds DEF KernelOK, KernelAt, Settled, Shape
<1>4. DOMAIN z.ready = Prio
  BY DEF KernelOK, KernelAt, Settled, Shape
<1>5. ASSUME NEW o \in Prio PROVE y.ready[o] = w.ready[o] \/ y.ready[o] = vListInsertEnd(w.ready[o], t)
  BY <1>1, <1>2, <1>4
<1>6. \A o \in Prio : ~InReady(y, u, o)
  BY <1>1, <1>3, <1>5 DEF Nowhere, InReady, Added
<1>7. \A l \in Elsewhere : ~Contains(y[l], u)
  BY <1>1, <1>2 DEF Nowhere
<1>8. Nowhere(y, u)
  BY <1>6, <1>7 DEF Nowhere
<1> QED
  BY <1>8 DEF prvAddNewTaskToReadyList, y, w

LEMMA EntryOf == ASSUME NEW S, NEW l \in Seq(S), NEW i \in DOMAIN l PROVE l[i] \in S
  OBVIOUS

LEMMA StartOK ==
    ASSUME NEW created, LegalTasks(created)
    PROVE  /\ KernelOK(vTaskStartScheduler(created), vTaskStartScheduler(created))
           /\ vTaskStartScheduler(created).susp = 0 /\ vTaskStartScheduler(created).pended = 0
<1> DEFINE new == [task |-> Idle, prio |-> 0]
           l == Append(created, new)
           n == Len(l)
<1>1. created \in Seq([task : Task \ {Idle}, prio : Prio])
      /\ \A i, j \in DOMAIN created : created[i].task = created[j].task => i = j
  BY DEF LegalTasks
<1>2. new \in [task : Task, prio : Prio]
  BY PriorityAssumption DEF Prio
<1>3. n \in Nat /\ DOMAIN l = 1 .. n /\ n = Len(created) + 1 /\ l[n] = new
      /\ \A i \in 1 .. Len(created) : l[i] = created[i]
  BY <1>1
<1>4. ASSUME NEW i \in 1 .. n PROVE l[i].task \in Task /\ l[i].prio \in Prio
  <2>1. CASE i = n
    BY <1>2, <1>3, <2>1
  <2>2. CASE i # n
    <3>1. i \in DOMAIN created /\ l[i] = created[i]
      BY <1>3, <2>2
    <3>2. created[i] \in [task : Task \ {Idle}, prio : Prio]
      BY <1>1, <3>1, EntryOf, Zenon
    <3> QED
      BY <3>1, <3>2
  <2> QED
    BY <2>1, <2>2
<1>5. ASSUME NEW i \in 1 .. n, NEW j \in 1 .. n, j > i PROVE l[i].task # l[j].task
  <2>1. i \in DOMAIN created /\ i \in 1 .. Len(created) /\ l[i] = created[i] /\ DOMAIN created = 1 .. Len(created)
    BY <1>1, <1>3, <1>5
  <2>2. CASE j = n
    <3>1. created[i] \in [task : Task \ {Idle}, prio : Prio]
      BY <1>1, <2>1, EntryOf, Zenon
    <3> QED
      BY <1>3, <2>1, <2>2, <3>1
  <2>3. CASE j # n
    <3>1. j \in 1 .. Len(created) /\ l[j] = created[j] /\ i # j
      BY <1>3, <1>5, <2>3
    <3> QED
      BY <1>1, <2>1, <3>1
  <2> QED
    BY <2>2, <2>3
<1> HIDE DEF l, n, new
<1>6. StartKept(l, 0, NoKernel)
  BY <1>3, <1>4, NoKernelOK DEF StartKept
<1>7. ASSUME NEW i \in 1 .. n, NEW z, StartKept(l, i - 1, z)
      PROVE  StartKept(l, i, CreateFirst(z, l[i]))
  <2> DEFINE t == l[i].task
             p == l[i].prio
             w == prvAddNewTaskToReadyList(z, t, p)
             y == [w EXCEPT !.cur = t]
  <2>1. t \in Task /\ p \in Prio /\ KernelOK(z, z) /\ Nowhere(z, t) /\ z.susp = 0 /\ z.pended = 0
    BY <1>3, <1>4, <1>7 DEF StartKept
  <2>2. ASSUME NEW j \in DOMAIN l, j > i PROVE l[j].task \in Task \ {t} /\ Nowhere(z, l[j].task)
    <3>1. j > i - 1 /\ j \in 1 .. n
      BY <1>3, <2>2
    <3> QED
      BY <1>4, <1>5, <1>7, <2>2, <3>1 DEF StartKept
  <2> HIDE DEF t, p
  <2>3. KernelOK(w, z)
    BY <2>1, NewTaskOK
  <2>4. \A j \in DOMAIN l : j > i => Nowhere(w, l[j].task)
    BY <2>1, <2>2, NewTaskNowhere
  <2> HIDE DEF w
  <2>9. w.susp = 0 /\ w.pended = 0
    BY <2>1, <2>3, Own DEF Steady, SameTime
  <2>5. Alike(w, y) /\ y.susp = 0 /\ y.pended = 0
    BY <2>3, <2>9 DEF KernelOK, KernelAt, Settled, Shape, Alike, Fields, Kept
  <2> HIDE DEF y
  <2>6. KernelOK(y, y) /\ \A j \in DOMAIN l : j > i => Nowhere(y, l[j].task)
    BY <2>3, <2>4, <2>5, AlikeOK, AlikeNowhere
  <2>7. CreateFirst(z, l[i]) = y \/ CreateFirst(z, l[i]) = w
    BY Zenon DEF CreateFirst, y, w, t, p
  <2>8. KernelOK(w, w)
    BY <2>3, Own
  <2> QED
    BY <2>4, <2>5, <2>6, <2>7, <2>8, <2>9 DEF StartKept
<1>14. Outcome("create", NoKernel, l, n, FoldLeft(CreateFirst, NoKernel, l))
  BY <1>3, CreateFirstLoop
<1>8. PICK after : InTurn("create", NoKernel, l, n, after) /\ after[n] = FoldLeft(CreateFirst, NoKernel, l)
  BY <1>14 DEF Outcome
<1>15. after[0] = NoKernel /\ \A i \in 1 .. n : after[i] = CreateFirst(after[i - 1], l[i])
  BY <1>8, Bodies DEF InTurn
<1> DEFINE S == {i \in 0 .. n : StartKept(l, i, after[i])}
<1>9. 0 \in S /\ \A i \in 1 .. n : i - 1 \in S => i \in S
  BY <1>3, <1>15, <1>6, <1>7
<1>10. StartKept(l, n, FoldLeft(CreateFirst, NoKernel, l))
  <2> HIDE DEF S
  <2>1. n \in S
    BY <1>3, <1>9, Climb
  <2> QED
    BY <1>8, <2>1 DEF S
<1>11. vTaskStartScheduler(created) = FoldLeft(CreateFirst, NoKernel, l)
  BY Zenon DEF vTaskStartScheduler, l, new
<1> QED
  BY <1>10, <1>11, Zenon DEF StartKept

----------------------------------------------------------------------------
(* What the tasks keep of the time                                          *)

\* Times are ticks of a TickType_t.  A task that waits has time left, one that
\* is to sleep has not been told to sleep for nothing, and a command for the
\* daemon has the time it was given at.  No time of a call has passed before
\* the call has begun.
Beginning == {"call", "command"}
RecordOK(r) ==
    /\ DOMAIN r = DOMAIN Fresh /\ r.left \in Time /\ r.last \in Time /\ r.since.tick \in Time
    /\ r.age \in 0 .. Ticks /\ (r.at \in Beginning => r.age = 0)
WaitPoint == {"suspend", "lock", "look"}
QueueCallPoint == {"call", "command", "again"} \cup QueuePoint
StampAt(c, left, at) ==
    /\ at \in WaitPoint => left # 0
    /\ at = "sleep" => c.op \in {"vTaskDelay", "vTaskDelayUntil"} /\ (c.op = "vTaskDelay" => c.ticks # 0)
    /\ at = "receiveWait" => c.op = "xStreamBufferReceive"
    /\ c.op \in QueueOp => at \in QueueCallPoint
StampOK(c, r) ==
    /\ RecordOK(r) /\ StampAt(c, r.left, r.at)
    /\ c.op = "xTimerGenericCommand" /\ r.at # "call" => r.size \in Time
DaemonTime == {"sampled", "expire"}
Undisturbed ==
    \A t \in Task : call'[t].at \in DaemonTime =>
        call'[t].at = call[t].at /\ call'[t].size = call[t].size /\ call'[t].path = call[t].path
Stamps == \A t \in Task : StampOK(Now(t), call[t])

\* A task moves by itself, in its call or to its next; it may create another.
Alone(t) ==
    /\ \A u \in Task \ {t} : call'[u] \in {call[u], Fresh}
    /\ call'[t].n = call[t].n \/ call'[t].at = "call"
StampsInv == program \in Program /\ InScript /\ Fits /\ Stamps /\ k.tick \in Time

LEMMA FreshStamp == RecordOK(Fresh) /\ Fresh.at = "call"
  BY TicksAssumption DEF RecordOK, Fresh, NoTime, Time, Beginning

\* One task moves.
LEMMA OneStamp ==
    ASSUME StampsInv, UNCHANGED program, NEW t \in Task, \A u \in Task \ {t} : call'[u] = call[u],
           \/ call'[t].n = call[t].n /\ StampOK(Now(t), call'[t])
           \/ call'[t].at = "call" /\ RecordOK(call'[t])
    PROVE  Stamps' /\ Alone(t) /\ (call'[t].at \notin DaemonTime => Undisturbed)
<1>1. ASSUME NEW u \in Task \ {t} PROVE StampOK(Now(u)', call'[u])
  BY <1>1 DEF StampsInv, Stamps, Now, ScriptOf
<1>0. Alone(t) /\ (call'[t].at \notin DaemonTime => Undisturbed)
  BY DEF Alone, Undisturbed
<1>2. CASE call'[t].n = call[t].n /\ StampOK(Now(t), call'[t])
  <2>1. Now(t)' = Now(t)
    BY <1>2 DEF Now, ScriptOf
  <2> QED
    BY <1>0, <1>1, <1>2, <2>1 DEF Stamps
<1>3. CASE call'[t].at = "call" /\ RecordOK(call'[t])
  <2>1. \A c : StampOK(c, call'[t])
    BY <1>3 DEF StampOK, StampAt, WaitPoint, QueueCallPoint
  <2> QED
    BY <1>0, <1>1, <2>1 DEF Stamps
<1> QED
  BY <1>2, <1>3

LEMMA GotoStamp ==
    ASSUME StampsInv, UNCHANGED program, NEW t \in Task, NEW at, call' = Goto(t, at),
           StampAt(Now(t), call[t].left, at), at \notin Beginning, Now(t).op = "xTimerGenericCommand" => call[t].at # "call"
    PROVE  Stamps' /\ Alone(t) /\ (at \notin DaemonTime => Undisturbed)
<1>1. StampOK(Now(t), call[t]) /\ DOMAIN call = Task
  BY DEF StampsInv, Stamps, InScript
<1>2. call'[t] = [call[t] EXCEPT !.at = at] /\ \A u \in Task \ {t} : call'[u] = call[u]
  BY <1>1 DEF Goto
<1>3. /\ DOMAIN call'[t] = DOMAIN Fresh /\ call'[t].left = call[t].left /\ call'[t].last = call[t].last
      /\ call'[t].since = call[t].since /\ call'[t].size = call[t].size /\ call'[t].n = call[t].n
      /\ call'[t].age = call[t].age /\ call'[t].at = at
  BY <1>1, <1>2 DEF StampOK, RecordOK, Fresh
<1>4. StampOK(Now(t), call'[t])
  BY <1>1, <1>3 DEF StampOK, RecordOK, Beginning
<1> QED
  BY <1>2, <1>3, <1>4, OneStamp

LEMMA ReturnStamp ==
    ASSUME StampsInv, UNCHANGED program, NEW t \in Task, NEW ok, NEW got, call' = Return(t, ok, got)
    PROVE  Stamps' /\ Alone(t) /\ Undisturbed
<1>1. StampOK(Now(t), call[t]) /\ DOMAIN call = Task
  BY DEF StampsInv, Stamps, InScript
<1>2. /\ call'[t] = [Fresh EXCEPT !.n = NextCall(t, ok), !.got = got, !.last = call[t].last]
      /\ \A u \in Task \ {t} : call'[u] = call[u]
  BY <1>1 DEF Return
<1>3. RecordOK(call'[t]) /\ call'[t].at = "call"
  BY <1>1, <1>2, TicksAssumption DEF StampOK, RecordOK, Fresh, NoTime, Time
<1> QED
  BY <1>2, <1>3, OneStamp DEF DaemonTime

\* A task at a point that says nothing of time.
LEMMA PlainStamp ==
    ASSUME StampsInv, UNCHANGED program, NEW t \in Task, \A u \in Task \ {t} : call'[u] = call[u],
           call'[t].n = call[t].n, RecordOK(call'[t]), call'[t].at \notin WaitPoint \cup {"sleep", "receiveWait"},
           Now(t).op \notin QueueOp
    PROVE  Stamps' /\ Alone(t) /\ (call'[t].at \notin DaemonTime => Undisturbed)
  BY OneStamp DEF StampOK, StampAt, QueueOp, SendOp

LEMMA TimeLeft ==
    ASSUME k.tick \in Time, NEW left \in Time, NEW since, since.tick \in Time, NEW check,
           check = xTaskCheckForTimeOut(k, since, left)
    PROVE  /\ check.left \in Time /\ check.since.tick \in Time
           /\ ~check.out /\ left # 0 => check.left \in 1 .. Ticks - 1
<1> DEFINE elapsed == (k.tick - since.tick) % Ticks
           wrapped == k.overflows # since.overflows /\ k.tick >= since.tick
<1>1. elapsed \in Time
  BY TicksAssumption DEF Time
<1>2. check = IF left = portMAX_DELAY THEN [out |-> FALSE, left |-> left, since |-> since]
              ELSE IF wrapped THEN [out |-> TRUE, left |-> left, since |-> since]
              ELSE IF elapsed < left
              THEN [out |-> FALSE, left |-> left - elapsed, since |-> vTaskInternalSetTimeOutState(k)]
              ELSE [out |-> TRUE, left |-> 0, since |-> since]
  BY Zenon DEF xTaskCheckForTimeOut, elapsed, wrapped
<1> HIDE DEF elapsed, wrapped
<1>3. vTaskInternalSetTimeOutState(k).tick = k.tick
  BY DEF vTaskInternalSetTimeOutState
<1> QED
  BY <1>1, <1>2, <1>3, TicksAssumption DEF Time

LEMMA StampFacts ==
    ASSUME StampsInv, NEW t \in Task
    PROVE  /\ StampOK(Now(t), call[t]) /\ FitsAt(Now(t), call[t].at) /\ LegalCall(program, Now(t))
           /\ DOMAIN call = Task /\ DOMAIN call[t] = DOMAIN Fresh
<1>1. LegalCall(program, Now(t))
  BY NowIsLegal DEF StampsInv
<1> QED
  BY <1>1 DEF StampsInv, Stamps, Fits, InScript, StampOK, RecordOK

LEMMA QueueStamps ==
    ASSUME StampsInv, UNCHANGED program, NEW t \in Task, QueueStep(t)
    PROVE  Stamps' /\ Alone(t) /\ Undisturbed
<1> USE DEF Beginning, QueuePoint, WaitPoint, QueueCallPoint, DaemonTime
<1>0. /\ StampOK(Now(t), call[t]) /\ FitsAt(Now(t), call[t].at) /\ LegalCall(program, Now(t))
      /\ DOMAIN call = Task /\ DOMAIN call[t] = DOMAIN Fresh
  BY StampFacts
<1>1. CASE TakeAgain(t) \/ DisinheritLate(t) \/ xQueueGiveMutexRecursive(t) \/ ResetQueue(t)
  BY <1>1, ReturnStamp DEF TakeAgain, DisinheritLate, xQueueGiveMutexRecursive, ResetQueue
<1>2. CASE ReadCommandTime(t)
  <2>1. call' = [call EXCEPT ![t].at = "command", ![t].size = k.tick]
    BY <1>2 DEF ReadCommandTime
  <2>2. /\ \A u \in Task \ {t} : call'[u] = call[u]
        /\ call'[t] = [call[t] EXCEPT !.at = "command", !.size = k.tick]
    BY <1>0, <2>1
  <2>3. /\ DOMAIN call'[t] = DOMAIN Fresh /\ call'[t].left = call[t].left /\ call'[t].last = call[t].last
        /\ call'[t].since = call[t].since /\ call'[t].size = k.tick /\ call'[t].n = call[t].n
        /\ call'[t].age = call[t].age /\ call'[t].at = "command"
    BY <1>0, <2>2 DEF Fresh
  <2>4. StampOK(Now(t), call'[t])
    BY <1>0, <1>2, <2>3 DEF StampOK, StampAt, RecordOK, StampsInv, ReadCommandTime, Calls, Runs
  <2> QED
    BY <2>2, <2>3, <2>4, OneStamp
<1>3. CASE TryQueue(t)
  <2> DEFINE first == call[t].at # "again"
             left == IF first THEN Now(t).ticks ELSE call[t].left
             since == IF first THEN vTaskInternalSetTimeOutState(k) ELSE call[t].since
  <2>1. Now(t).op \in QueueOp /\ call[t].at \in {"call", "command", "again"}
        /\ (call[t].at = "call" => Now(t).op # "xTimerGenericCommand")
    BY <1>3 DEF TryQueue, Runs
  <2>2. \/ \E ok, got : call' = Return(t, ok, got)
        \/ /\ left # 0
           /\ call' = [call EXCEPT ![t].at = "suspend", ![t].left = left, ![t].since = since]
    BY <1>3 DEF TryQueue
  <2>3. Now(t).ticks \in Time
    BY <1>0, <2>1 DEF LegalCall, TimedOp, Time
  <2>4. left \in Time /\ since.tick \in Time
    BY <1>0, <2>3 DEF StampOK, RecordOK, vTaskInternalSetTimeOutState, StampsInv
  <2> HIDE DEF left, since, first
  <2>5. CASE /\ left # 0
             /\ call' = [call EXCEPT ![t].at = "suspend", ![t].left = left, ![t].since = since]
    <3>1. /\ \A u \in Task \ {t} : call'[u] = call[u]
          /\ call'[t] = [call[t] EXCEPT !.at = "suspend", !.left = left, !.since = since]
      BY <1>0, <2>5
    <3>2. /\ DOMAIN call'[t] = DOMAIN Fresh /\ call'[t].left = left /\ call'[t].last = call[t].last
          /\ call'[t].since = since /\ call'[t].size = call[t].size /\ call'[t].n = call[t].n
          /\ call'[t].age = call[t].age /\ call'[t].at = "suspend"
      BY <1>0, <3>1 DEF Fresh
    <3>3. Now(t).op # "vTaskDelay"
      BY <2>1 DEF QueueOp, SendOp, ReceiveOp, TakeOp
    <3>4. StampOK(Now(t), call'[t])
      BY <1>0, <2>1, <2>4, <2>5, <3>2 DEF StampOK, StampAt, RecordOK
    <3> QED
      BY <3>1, <3>2, <3>4, OneStamp
  <2> QED
    BY <2>2, <2>5, ReturnStamp
<1>4. CASE SuspendForQueue(t) \/ LockQueue(t) \/ UnlockTx(t) \/ UnlockRx(t)
  <2>1. \E at \in {"lock", "look", "unlockRx", "resume"} :
           /\ call' = Goto(t, at) /\ (at \in WaitPoint => call[t].at \in WaitPoint) /\ call[t].at \in QueuePoint
    BY <1>4 DEF SuspendForQueue, LockQueue, UnlockTx, UnlockRx, Runs
  <2>2. PICK at \in {"lock", "look", "unlockRx", "resume"} :
           /\ call' = Goto(t, at) /\ (at \in WaitPoint => call[t].at \in WaitPoint) /\ call[t].at \in QueuePoint
    BY <2>1
  <2>3. StampAt(Now(t), call[t].left, at)
    BY <1>0, <2>2 DEF StampOK, StampAt
  <2> QED
    BY <2>2, <2>3, GotoStamp
<1>5. CASE BlockOnQueue(t)
  <2> DEFINE check == xTaskCheckForTimeOut(k, call[t].since, call[t].left)
             mutex == Now(t).op \in TakeOp /\ q[X(t)].type = "mutex"
             inherits == Inherits(k, IF mutex THEN q[X(t)].holder ELSE NULL)
             Take(path) ==
                 call' = [call EXCEPT ![t].at = "unlockTx", ![t].left = check.left,
                                      ![t].since = check.since, ![t].path = path,
                                      ![t].inherited = IF path = "blocked" /\ mutex
                                                       THEN inherits ELSE @]
  <2>1. (Take("blocked") \/ Take("retry") \/ Take("late")) /\ call[t].at = "look"
    BY <1>5 DEF BlockOnQueue, Runs
  <2>2. check.left \in Time /\ check.since.tick \in Time
    BY <1>0, TimeLeft DEF StampOK, RecordOK, StampsInv
  <2> HIDE DEF check, mutex, inherits
  <2>3. ASSUME NEW path, Take(path) PROVE Stamps' /\ Alone(t) /\ Undisturbed
    <3>1. PICK v : /\ \A u \in Task \ {t} : call'[u] = call[u]
                   /\ call'[t] = [call[t] EXCEPT !.at = "unlockTx", !.left = check.left, !.since = check.since,
                                                 !.path = path, !.inherited = v]
      BY <1>0, <2>3
    <3>2. /\ DOMAIN call'[t] = DOMAIN Fresh /\ call'[t].left = check.left /\ call'[t].last = call[t].last
          /\ call'[t].since = check.since /\ call'[t].size = call[t].size /\ call'[t].n = call[t].n
          /\ call'[t].age = call[t].age
          /\ call'[t].at = "unlockTx"
      BY <1>0, <3>1 DEF Fresh
    <3>3. StampOK(Now(t), call'[t])
      BY <1>0, <2>1, <2>2, <3>2 DEF StampOK, StampAt, RecordOK
    <3> QED
      BY <3>1, <3>2, <3>3, OneStamp
  <2> QED
    BY <2>1, <2>3
<1>6. CASE ResumeFromQueue(t) \/ LateForQueue(t)
  <2>1. \/ \E ok, got : call' = Return(t, ok, got)
        \/ \E at \in {"again", "late", "disinherit"} : call' = Goto(t, at) /\ call[t].at \in QueuePoint
    BY <1>6 DEF ResumeFromQueue, LateForQueue, Runs
  <2>2. \A at \in {"again", "late", "disinherit"} : StampAt(Now(t), call[t].left, at)
    BY DEF StampAt
  <2> QED
    BY <2>1, <2>2, GotoStamp, ReturnStamp
<1> QED
  BY <1>1, <1>2, <1>3, <1>4, <1>5, <1>6 DEF QueueStep

\* What the steps of other calls find: a task that is not in the middle of a
\* call for a queue.
LEMMA NoQueueCall ==
    ASSUME StampsInv, NEW t \in Task, call[t].at \notin QueueCallPoint
    PROVE  Now(t).op \notin QueueOp
  BY StampFacts DEF StampOK, StampAt

LEMMA DaemonSteps ==
    ASSUME NEW t \in Task, FitsAt(Now(t), call[t].at), TimerStep(t)
    PROVE  k.cur = t /\ Now(t).op = "prvTimerTask"
  BY DEF TimerStep, ExpireOrBlock, ResumeDaemon, prvProcessExpiredTimer, ReceiveCommand, ProcessCommand,
         Calls, Runs, FitsAt, DaemonPoint

LEMMA NotForQueues ==
    ASSUME StampsInv, NEW t \in Task, ControlStep(t) \/ GroupStep(t) \/ StreamStep(t) \/ TimerStep(t)
    PROVE  Now(t).op \notin QueueOp
<1> USE DEF QueuePoint, QueueCallPoint
<1>0. FitsAt(Now(t), call[t].at)
  BY StampFacts
<1>1. CASE ControlStep(t)
  <2>1. \/ call[t].at \notin QueueCallPoint
        \/ call[t].at = "call" /\ Now(t).op \in {"vTaskDelay", "vTaskDelayUntil", "vTaskSuspend", "vTaskResume",
                                                "vTaskPrioritySet", "vTaskDelete", "xTaskCreate", "pvPortMalloc",
                                                "vPortFree", "xTaskGenericNotify", "ulTaskNotifyTake", "xTaskNotifyWait"}
    BY <1>1 DEF ControlStep, SuspendForDelay, vTaskDelay, vTaskDelayUntil, ResumeFromDelay, EndDelay, Suspend,
                ResetUnblockTime, Resume, SetPriority, Delete, AllocateStack, AllocateTcb, FreeStack,
                ResumeFromCreate, AddTask, Malloc, Free, ResumeFromHeap, Notify, AwaitNotification,
                TakeNotification, Calls, Runs
  <2> QED
    BY <2>1, NoQueueCall DEF QueueOp, SendOp, ReceiveOp, TakeOp
<1>2. CASE GroupStep(t)
  <2>1. \/ call[t].at \notin QueueCallPoint
        \/ Now(t).op \in GroupOp \cup {"xEventGroupSetBits", "xEventGroupClearBits", "vEventGroupDelete"}
    BY <1>2 DEF GroupStep, EnterGroup, LeaveGroup, ReadEventItem, LateForBits, xEventGroupClearBits,
                ResumeFromSet, xEventGroupSetBits, vEventGroupDelete, Calls, Runs
  <2> QED
    BY <2>1, NoQueueCall DEF QueueOp, SendOp, ReceiveOp, TakeOp, GroupOp
<1>3. CASE StreamStep(t)
  <2>1. \/ call[t].at \notin QueueCallPoint
        \/ Now(t).op \in {"xStreamBufferSend", "xStreamBufferReceive", "xStreamBufferReset"}
    BY <1>3 DEF StreamStep, TryToSend, WaitForStream, EndWaitForStream, CheckSendTime, WriteToStream,
                WriteMessageData, NotifyReceiver, ResumeFromStream, TryToReceive, LookAfterWait,
                ReadFromStream, ReadMessageData, PutLengthBack, NotifySender, xStreamBufferReset, Calls, Runs
  <2> QED
    BY <2>1, NoQueueCall DEF QueueOp, SendOp, ReceiveOp, TakeOp
<1>4. CASE TimerStep(t)
  BY <1>0, <1>4, DaemonSteps DEF QueueOp, SendOp, ReceiveOp, TakeOp
<1> QED
  BY <1>1, <1>2, <1>3, <1>4

LEMMA PlainGoto ==
    ASSUME StampsInv, UNCHANGED program, NEW t \in Task, NEW at, call' = Goto(t, at),
           at \notin WaitPoint \cup Beginning \cup {"sleep", "receiveWait"}, Now(t).op \notin QueueOp
    PROVE  Stamps' /\ Alone(t) /\ (at \notin DaemonTime => Undisturbed)
  BY GotoStamp DEF StampAt, QueueOp, SendOp

LEMMA ControlStamps ==
    ASSUME StampsInv, UNCHANGED program, NEW t \in Task, ControlStep(t)
    PROVE  Stamps' /\ Alone(t) /\ Undisturbed
<1> USE DEF Beginning, QueuePoint, WaitPoint, QueueCallPoint, DaemonTime
<1>0. /\ StampOK(Now(t), call[t]) /\ FitsAt(Now(t), call[t].at) /\ LegalCall(program, Now(t))
      /\ DOMAIN call = Task /\ DOMAIN call[t] = DOMAIN Fresh
  BY StampFacts
<1>9. Now(t).op \notin QueueOp
  BY NotForQueues
<1>1. CASE SuspendForDelay(t)
  <2>1. \/ \E ok, got : call' = Return(t, ok, got)
        \/ /\ call' = Goto(t, "sleep") /\ Now(t).op \in {"vTaskDelay", "vTaskDelayUntil"}
           /\ ~(Now(t).op = "vTaskDelay" /\ Now(t).ticks = 0)
    BY <1>1 DEF SuspendForDelay, Calls
  <2> QED
    BY <1>9, <2>1, GotoStamp, ReturnStamp DEF StampAt, QueueOp, SendOp
<1>2. CASE vTaskDelayUntil(t)
  <2> DEFINE wake == (call[t].last + Now(t).ticks) % Ticks
  <2>1. call' = [call EXCEPT ![t].last = wake, ![t].at = "awake"] /\ Now(t).op = "vTaskDelayUntil"
    BY <1>2, Zenon DEF vTaskDelayUntil
  <2>2. wake \in Time
    <3>1. Now(t).ticks \in Time /\ call[t].last \in Time
      BY <1>0, <2>1 DEF LegalCall, TimedOp, Time, StampOK, RecordOK
    <3> QED
      BY <3>1, TicksAssumption DEF Time
  <2> HIDE DEF wake
  <2>3. /\ \A u \in Task \ {t} : call'[u] = call[u]
        /\ call'[t] = [call[t] EXCEPT !.last = wake, !.at = "awake"]
    BY <1>0, <2>1
  <2>4. /\ DOMAIN call'[t] = DOMAIN Fresh /\ call'[t].left = call[t].left /\ call'[t].last = wake
        /\ call'[t].since = call[t].since /\ call'[t].n = call[t].n
        /\ call'[t].age = call[t].age /\ call'[t].at = "awake"
    BY <1>0, <2>3 DEF Fresh
  <2>5. RecordOK(call'[t])
    BY <1>0, <2>2, <2>4 DEF StampOK, RecordOK
  <2> QED
    BY <1>9, <2>1, <2>3, <2>4, <2>5, PlainStamp
<1>3. CASE \/ vTaskDelay(t) \/ ResumeFromDelay(t) \/ Suspend(t) \/ FreeStack(t) \/ Malloc(t) \/ Free(t)
           \/ AwaitNotification(t) \/ AllocateStack(t) \/ AllocateTcb(t)
  <2>1. Now(t).op \notin QueueOp
    BY <1>9
  <2>2. \E at \in {"awake", "slept", "resetUnblock", "noMemory", "malloced", "notified", "stack", "tcb"} :
           call' = Goto(t, at)
    BY <1>3 DEF vTaskDelay, ResumeFromDelay, Suspend, FreeStack, Malloc, Free, AwaitNotification,
                AllocateStack, AllocateTcb
  <2> QED
    BY <2>1, <2>2, PlainGoto
<1>4. CASE EndDelay(t) \/ ResetUnblockTime(t) \/ Resume(t) \/ SetPriority(t) \/ Delete(t) \/ Notify(t)
           \/ ResumeFromHeap(t) \/ TakeNotification(t)
  <2>1. \E ok, got : call' = Return(t, ok, got)
    BY <1>4 DEF EndDelay, ResetUnblockTime, Resume, SetPriority, Delete, Notify, ResumeFromHeap, TakeNotification
  <2> QED
    BY <2>1, ReturnStamp
<1>5. CASE AddTask(t)
  <2> DEFINE returned == [Fresh EXCEPT !.n = NextCall(t, TRUE), !.got = "pdPASS", !.last = call[t].last]
  <2>1. \A u \in Task : call'[u] \in {call[u], returned, Fresh} /\ (u # t => call'[u] \in {call[u], Fresh})
    BY <1>0, <1>5 DEF AddTask, Return
  <2>2. call'[t] # call[t] \/ call'[t] \in {returned, Fresh}
    BY <1>0, <1>5 DEF AddTask, Return
  <2>3. RecordOK(returned) /\ returned.at = "call"
    BY <1>0, TicksAssumption DEF StampOK, RecordOK, Fresh, NoTime, Time
  <2> HIDE DEF returned
  <2>4. \A c, r : RecordOK(r) /\ r.at = "call" => StampOK(c, r)
    BY DEF StampOK, StampAt
  <2>5. ASSUME NEW u \in Task PROVE StampOK(Now(u)', call'[u])
    <3>1. CASE call'[u] \in {returned, Fresh}
      BY <2>3, <2>4, <3>1, FreshStamp
    <3>2. CASE call'[u] = call[u]
      <4>1. Now(u)' = Now(u)
        BY <3>2 DEF Now, ScriptOf
      <4> QED
        BY <3>2, <4>1 DEF StampsInv, Stamps
    <3> QED
      BY <2>1, <3>1, <3>2
  <2>6. Undisturbed
    BY <2>1, <2>3, FreshStamp DEF Undisturbed
  <2>7. Alone(t)
    BY <2>1, <2>3, FreshStamp DEF Alone
  <2> QED
    BY <2>5, <2>6, <2>7 DEF Stamps
<1>6. CASE ResumeFromCreate(t)
  <2>1. Now(t).op \notin QueueOp
    BY <1>9
  <2>2. \/ \E at \in {"stack2", "add", "noTcb"} : call' = Goto(t, at)
        \/ call' = Return(t, FALSE, "noMemory")
    BY <1>6 DEF ResumeFromCreate
  <2> QED
    BY <2>1, <2>2, PlainGoto, ReturnStamp
<1> QED
  BY <1>1, <1>2, <1>3, <1>4, <1>5, <1>6 DEF ControlStep

LEMMA GroupStamps ==
    ASSUME StampsInv, UNCHANGED program, NEW t \in Task, GroupStep(t)
    PROVE  Stamps' /\ Alone(t) /\ Undisturbed
<1> USE DEF Beginning, QueuePoint, WaitPoint, QueueCallPoint, DaemonTime
<1>0. /\ StampOK(Now(t), call[t]) /\ DOMAIN call = Task /\ DOMAIN call[t] = DOMAIN Fresh
  BY StampFacts
<1>1. CASE EnterGroup(t)
  <2>1. PICK path, got : call' = [call EXCEPT ![t].at = "leave", ![t].path = path, ![t].got = got]
    BY <1>1 DEF EnterGroup, Entered
  <2>2. /\ \A u \in Task \ {t} : call'[u] = call[u]
        /\ call'[t] = [call[t] EXCEPT !.at = "leave", !.path = path, !.got = got]
    BY <1>0, <2>1
  <2>3. /\ DOMAIN call'[t] = DOMAIN Fresh /\ call'[t].left = call[t].left /\ call'[t].last = call[t].last
        /\ call'[t].since = call[t].since /\ call'[t].n = call[t].n
        /\ call'[t].age = call[t].age /\ call'[t].at = "leave"
    BY <1>0, <2>2 DEF Fresh
  <2>4. RecordOK(call'[t])
    BY <1>0, <2>3 DEF StampOK, RecordOK
  <2>5. Now(t).op \notin QueueOp
    BY NotForQueues
  <2> QED
    BY <2>2, <2>3, <2>4, <2>5, PlainStamp
<1>2. CASE LeaveGroup(t) \/ ReadEventItem(t) \/ LateForBits(t) \/ xEventGroupClearBits(t) \/ ResumeFromSet(t)
           \/ xEventGroupSetBits(t) \/ vEventGroupDelete(t)
  <2>1. \/ \E at \in {"told", "lateBits", "setBits"} : call' = Goto(t, at)
        \/ \E ok, got : call' = Return(t, ok, got)
    BY <1>2 DEF LeaveGroup, ReadEventItem, LateForBits, xEventGroupClearBits, ResumeFromSet,
                xEventGroupSetBits, vEventGroupDelete
  <2>2. Now(t).op \notin QueueOp
    BY NotForQueues
  <2> QED
    BY <2>1, <2>2, PlainGoto, ReturnStamp
<1> QED
  BY <1>1, <1>2 DEF GroupStep

LEMMA LocalStamp ==
    ASSUME StampsInv, UNCHANGED program, NEW t \in Task, NEW at, NEW size, call' = Local(t, at, size),
           at \notin WaitPoint \cup Beginning \cup {"sleep", "receiveWait"}, Now(t).op \notin QueueOp
    PROVE  Stamps' /\ Alone(t) /\ (at \notin DaemonTime => Undisturbed)
<1>1. /\ StampOK(Now(t), call[t]) /\ DOMAIN call = Task /\ DOMAIN call[t] = DOMAIN Fresh
  BY StampFacts
<1>2. /\ \A u \in Task \ {t} : call'[u] = call[u]
      /\ call'[t] = [call[t] EXCEPT !.at = at, !.size = size]
  BY <1>1 DEF Local
<1>3. /\ DOMAIN call'[t] = DOMAIN Fresh /\ call'[t].left = call[t].left /\ call'[t].last = call[t].last
      /\ call'[t].since = call[t].since /\ call'[t].n = call[t].n /\ call'[t].age = call[t].age /\ call'[t].at = at
  BY <1>1, <1>2 DEF Fresh
<1>4. RecordOK(call'[t])
  BY <1>1, <1>3 DEF StampOK, RecordOK, Beginning
<1>5. call'[t].at \notin WaitPoint \cup {"sleep", "receiveWait"}
  BY <1>3
<1>6. Stamps' /\ Alone(t) /\ (call'[t].at \notin DaemonTime => Undisturbed)
  BY <1>2, <1>3, <1>4, <1>5, PlainStamp, Zenon
<1> QED
  BY <1>3, <1>6

LEMMA StreamStamps ==
    ASSUME StampsInv, UNCHANGED program, NEW t \in Task, StreamStep(t)
    PROVE  Stamps' /\ Alone(t) /\ Undisturbed
<1> USE DEF Beginning, QueuePoint, WaitPoint, QueueCallPoint, DaemonTime
<1>0. /\ StampOK(Now(t), call[t]) /\ DOMAIN call = Task /\ DOMAIN call[t] = DOMAIN Fresh
      /\ FitsAt(Now(t), call[t].at) /\ LegalCall(program, Now(t))
  BY StampFacts
<1>1. Now(t).op \notin QueueOp
  BY NotForQueues
<1>2. CASE TryToSend(t)
  <2> DEFINE space == xStreamBufferSpacesAvailable(s)
             since == vTaskInternalSetTimeOutState(k)
             timed == IF call[t].at = "call"
                      THEN [call EXCEPT ![t].left = Now(t).ticks, ![t].since = since] ELSE call
  <2>1. \/ call' = Local(t, "write", 0) \/ call' = Local(t, "write", space)
        \/ call' = [timed EXCEPT ![t].at = "sendWait", ![t].size = space]
    BY <1>2 DEF TryToSend
  <2>2. call[t].at = "call" => Now(t).ticks \in Time
    BY <1>0, <1>2 DEF TryToSend, Calls, Runs, LegalCall, TimedOp, Time
  <2>3. since.tick \in Time
    BY DEF vTaskInternalSetTimeOutState, StampsInv
  <2> HIDE DEF space, since
  <2>4. CASE call' = [timed EXCEPT ![t].at = "sendWait", ![t].size = space]
    <3>1. /\ \A u \in Task \ {t} : call'[u] = call[u]
          /\ call'[t] = IF call[t].at = "call"
                        THEN [call[t] EXCEPT !.left = Now(t).ticks, !.since = since, !.at = "sendWait", !.size = space]
                        ELSE [call[t] EXCEPT !.at = "sendWait", !.size = space]
      BY <1>0, <2>4
    <3>2. /\ DOMAIN call'[t] = DOMAIN Fresh /\ call'[t].last = call[t].last
          /\ call'[t].left = IF call[t].at = "call" THEN Now(t).ticks ELSE call[t].left
          /\ call'[t].since = IF call[t].at = "call" THEN since ELSE call[t].since
          /\ call'[t].n = call[t].n /\ call'[t].age = call[t].age /\ call'[t].at = "sendWait"
      BY <1>0, <3>1 DEF Fresh
    <3>3. RecordOK(call'[t])
      BY <1>0, <2>2, <2>3, <3>2 DEF StampOK, RecordOK
    <3> QED
      BY <1>1, <3>1, <3>2, <3>3, PlainStamp
  <2> QED
    BY <1>1, <2>1, <2>4, LocalStamp
<1>3. CASE WaitForStream(t) \/ EndWaitForStream(t) \/ NotifyReceiver(t) \/ NotifySender(t)
           \/ WriteMessageData(t) \/ ResumeFromStream(t) \/ xStreamBufferReset(t)
           \/ ReadMessageData(t) \/ PutLengthBack(t)
  <2>1. \/ \E at \in {"sendWoken", "receiveWoken", "sendCheck", "receiveCheck", "streamDone", "sent", "received"} :
              call' = Goto(t, at)
        \/ \E ok, got : call' = Return(t, ok, got)
    BY <1>3 DEF WaitForStream, EndWaitForStream, NotifyReceiver, NotifySender, WriteMessageData,
                ResumeFromStream, xStreamBufferReset, ReadMessageData, PutLengthBack, EndRead
  <2> QED
    BY <1>1, <2>1, PlainGoto, ReturnStamp
<1>4. CASE CheckSendTime(t)
  <2> DEFINE check == xTaskCheckForTimeOut(k, call[t].since, call[t].left)
  <2>1. call' = [call EXCEPT ![t].at = IF check.out THEN "write" ELSE "sendAgain",
                             ![t].left = check.left, ![t].since = check.since]
    BY <1>4, Zenon DEF CheckSendTime
  <2>2. check.left \in Time /\ check.since.tick \in Time
    BY <1>0, TimeLeft DEF StampOK, RecordOK, StampsInv
  <2> HIDE DEF check
  <2>3. PICK at \in {"write", "sendAgain"} :
           /\ \A u \in Task \ {t} : call'[u] = call[u]
           /\ call'[t] = [call[t] EXCEPT !.at = at, !.left = check.left, !.since = check.since]
    BY <1>0, <2>1
  <2>4. /\ DOMAIN call'[t] = DOMAIN Fresh /\ call'[t].left = check.left /\ call'[t].last = call[t].last
        /\ call'[t].since = check.since /\ call'[t].n = call[t].n /\ call'[t].age = call[t].age /\ call'[t].at = at
    BY <1>0, <2>3 DEF Fresh
  <2>5. RecordOK(call'[t])
    BY <1>0, <2>2, <2>4 DEF StampOK, RecordOK
  <2> QED
    BY <1>1, <2>3, <2>4, <2>5, PlainStamp
<1>5. CASE WriteToStream(t)
  <2> DEFINE count == Writable(s, Now(t).v, IF call[t].size = 0
                                            THEN xStreamBufferSpacesAvailable(s) ELSE call[t].size)
  <2>1. \/ call' = Return(t, FALSE, "timeout")
        \/ \E at \in {"writeData", "sent"} : call' = Local(t, at, count)
    BY <1>5 DEF WriteToStream
  <2> HIDE DEF count
  <2> QED
    BY <1>1, <2>1, ReturnStamp, LocalStamp
<1>6. CASE TryToReceive(t) \/ LookAfterWait(t)
  <2>1. \/ call' = Goto(t, "receiveWait") /\ Now(t).op = "xStreamBufferReceive"
        \/ \E size : call' = Local(t, "read", size)
    BY <1>6 DEF TryToReceive, LookAfterWait, Calls
  <2> QED
    BY <1>1, <2>1, GotoStamp, LocalStamp DEF StampAt
<1>7. CASE ReadFromStream(t)
  <2>1. \/ \E at \in {"readData", "putBack"} : \E size : call' = Local(t, at, size)
        \/ call' = Goto(t, "received")
        \/ \E ok, got : call' = Return(t, ok, got)
    BY <1>7 DEF ReadFromStream, EndRead
  <2> QED
    BY <1>1, <2>1, PlainGoto, ReturnStamp, LocalStamp
<1> QED
  BY <1>2, <1>3, <1>4, <1>5, <1>6, <1>7 DEF StreamStep

LEMMA TimerStamps ==
    ASSUME StampsInv, UNCHANGED program, NEW t \in Task, TimerStep(t)
    PROVE  Stamps' /\ Alone(t)
<1> USE DEF Beginning, QueuePoint, WaitPoint, QueueCallPoint, DaemonTime
<1>0. /\ StampOK(Now(t), call[t]) /\ DOMAIN call = Task /\ DOMAIN call[t] = DOMAIN Fresh
      /\ FitsAt(Now(t), call[t].at)
  BY StampFacts
<1>1. Now(t).op \notin QueueOp
  BY NotForQueues
<1>2. CASE ExpireOrBlock(t)
  <2>1. \/ call' = [call EXCEPT ![t].at = "unlockTx", ![t].path = "blocked"]
        \/ \E path : call' = [call EXCEPT ![t].at = "sampled", ![t].size = k.tick, ![t].path = path]
    BY <1>2, Zenon DEF ExpireOrBlock
  <2>2. PICK at \in {"unlockTx", "sampled"} :
           /\ \A u \in Task \ {t} : call'[u] = call[u]
           /\ \/ \E path : call'[t] = [call[t] EXCEPT !.at = at, !.path = path]
              \/ \E path : call'[t] = [call[t] EXCEPT !.at = at, !.size = k.tick, !.path = path]
    BY <1>0, <2>1
  <2>3. /\ DOMAIN call'[t] = DOMAIN Fresh /\ call'[t].left = call[t].left /\ call'[t].last = call[t].last
        /\ call'[t].since = call[t].since /\ call'[t].n = call[t].n /\ call'[t].age = call[t].age /\ call'[t].at = at
    BY <1>0, <2>2 DEF Fresh
  <2>4. RecordOK(call'[t])
    BY <1>0, <2>3 DEF StampOK, RecordOK
  <2> QED
    BY <1>1, <2>2, <2>3, <2>4, PlainStamp
<1>3. CASE ResumeDaemon(t)
  BY <1>1, <1>3, PlainGoto DEF ResumeDaemon
<1>4. CASE prvProcessExpiredTimer(t)
  <2>1. call' = [call EXCEPT ![t].at = "again", ![t].size = 0]
    BY <1>4, Zenon DEF prvProcessExpiredTimer
  <2>2. /\ \A u \in Task \ {t} : call'[u] = call[u]
        /\ call'[t] = [call[t] EXCEPT !.at = "again", !.size = 0]
    BY <1>0, <2>1
  <2>3. /\ DOMAIN call'[t] = DOMAIN Fresh /\ call'[t].left = call[t].left /\ call'[t].last = call[t].last
        /\ call'[t].since = call[t].since /\ call'[t].n = call[t].n
        /\ call'[t].age = call[t].age /\ call'[t].at = "again"
    BY <1>0, <2>2 DEF Fresh
  <2>4. RecordOK(call'[t])
    BY <1>0, <2>3 DEF StampOK, RecordOK
  <2> QED
    BY <1>1, <2>2, <2>3, <2>4, PlainStamp
<1>5. CASE ReceiveCommand(t)
  <2>1. CASE call' = [call EXCEPT ![t] = Fresh]
    <3>1. (\A u \in Task \ {t} : call'[u] = call[u]) /\ call'[t] = Fresh
      BY <1>0, <2>1
    <3> QED
      BY <3>1, FreshStamp, OneStamp
  <2> QED
    BY <1>1, <1>5, <2>1, PlainGoto DEF ReceiveCommand
<1>6. CASE ProcessCommand(t)
  BY <1>1, <1>6, PlainGoto DEF ProcessCommand
<1> QED
  BY <1>2, <1>3, <1>4, <1>5, <1>6 DEF TimerStep

LEMMA IdleIsIdle == ASSUME StampsInv PROVE Now(Idle).op \notin QueueOp
<1>1. App[program].script[Idle] = Idling /\ Idle \in Task
  BY AppAssumption, PriorityAssumption, Zenon DEF StampsInv
<1>2. call[Idle].n \in DOMAIN Idling
  BY <1>1 DEF StampsInv, InScript
<1> QED
  BY <1>1, <1>2 DEF Now, ScriptOf, Idling, QueueOp, SendOp, ReceiveOp, TakeOp

LEMMA OthersStamp ==
    ASSUME StampsInv, UNCHANGED program, IdleStep \/ xPortSysTickHandler \/ xPortPendSVHandler \/ Interrupt
    PROVE  Stamps' /\ Undisturbed /\ (Alone(Idle) \/ xPortSysTickHandler)
<1> USE DEF Beginning, QueuePoint, WaitPoint, QueueCallPoint, DaemonTime
<1>0. /\ Idle \in Task /\ StampOK(Now(Idle), call[Idle]) /\ DOMAIN call = Task /\ DOMAIN call[Idle] = DOMAIN Fresh
  BY StampFacts, PriorityAssumption
<1>1. Now(Idle).op \notin QueueOp
  BY IdleIsIdle
<1>2. CASE CleanUp
  <2>1. PICK x : call' = [call EXCEPT ![Idle].at = "freeStack", ![Idle].got = x]
    BY <1>2 DEF CleanUp
  <2>2. /\ \A u \in Task \ {Idle} : call'[u] = call[u]
        /\ call'[Idle] = [call[Idle] EXCEPT !.at = "freeStack", !.got = x]
    BY <1>0, <2>1
  <2>3. /\ DOMAIN call'[Idle] = DOMAIN Fresh /\ call'[Idle].left = call[Idle].left
        /\ call'[Idle].last = call[Idle].last /\ call'[Idle].since = call[Idle].since
        /\ call'[Idle].n = call[Idle].n /\ call'[Idle].age = call[Idle].age /\ call'[Idle].at = "freeStack"
    BY <1>0, <2>2 DEF Fresh
  <2>4. RecordOK(call'[Idle])
    BY <1>0, <2>3 DEF StampOK, RecordOK
  <2> QED
    BY <1>0, <1>1, <2>2, <2>3, <2>4, PlainStamp
<1>3. CASE FreeDead
  <2>1. call' = Goto(Idle, "freedStack") \/ call' = Goto(Idle, "freedTcb")
    BY <1>3 DEF FreeDead
  <2> QED
    BY <1>0, <1>1, <2>1, PlainGoto
<1>4. CASE ResumeFromFree
  <2>1. CASE call' = Goto(Idle, "freeTcb")
    BY <1>0, <1>1, <2>1, PlainGoto
  <2>2. CASE call' = [call EXCEPT ![Idle] = Fresh]
    <3>1. (\A u \in Task \ {Idle} : call'[u] = call[u]) /\ call'[Idle] = Fresh
      BY <1>0, <2>2
    <3> QED
      BY <1>0, <3>1, FreshStamp, OneStamp
  <2> QED
    BY <1>4, <2>1, <2>2 DEF ResumeFromFree
<1>5. CASE UNCHANGED call
  BY <1>5 DEF StampsInv, Stamps, Now, ScriptOf, Undisturbed, Alone
<1>6. CASE xPortSysTickHandler
  <2>1. ASSUME NEW t \in Task
        PROVE  /\ StampOK(Now(t)', call'[t]) /\ call'[t].at = call[t].at
               /\ call'[t].size = call[t].size /\ call'[t].path = call[t].path
    <3>1. StampOK(Now(t), call[t]) /\ DOMAIN call[t] = DOMAIN Fresh
      BY StampFacts
    <3>2. call'[t] = [call[t] EXCEPT !.age = Age(t)]
      BY <1>6 DEF xPortSysTickHandler
    <3>3. /\ DOMAIN call'[t] = DOMAIN Fresh /\ call'[t].left = call[t].left /\ call'[t].last = call[t].last
          /\ call'[t].since = call[t].since /\ call'[t].n = call[t].n /\ call'[t].at = call[t].at
          /\ call'[t].size = call[t].size /\ call'[t].path = call[t].path
      BY <3>1, <3>2 DEF Fresh
    <3>4. Now(t)' = Now(t)
      BY <3>3 DEF Now, ScriptOf
    <3>5. call'[t].age = Age(t) /\ call[t].age \in 0 .. Ticks
      BY <3>1, <3>2 DEF StampOK, RecordOK, Fresh
    <3>6. call'[t].age \in 0 .. Ticks /\ (call[t].at \in Beginning => call'[t].age = 0)
      BY <3>5, TicksAssumption DEF Age, Timed
    <3> QED
      BY <3>1, <3>3, <3>4, <3>6 DEF StampOK, RecordOK
  <2> QED
    BY <1>6, <2>1 DEF Stamps, Undisturbed
<1> QED
  BY <1>2, <1>3, <1>4, <1>5, <1>6 DEF IdleStep, IdleYield, xPortPendSVHandler, Interrupt

LEMMA StampsNext ==
    ASSUME StampsInv, [Next]_vars
    PROVE  Stamps'
<1>1. UNCHANGED program
  BY FitsNext DEF StampsInv
<1>2. CASE UNCHANGED vars
  BY <1>2 DEF vars, StampsInv, Stamps, Now, ScriptOf
<1>3. CASE Next
  BY <1>1, <1>3, QueueStamps, ControlStamps, GroupStamps, StreamStamps, TimerStamps, OthersStamp
     DEF Next, QueueCall, ControlCall, GroupCall, StreamCall, TimerCall, IdleLoop
<1> QED
  BY <1>2, <1>3

LEMMA StampsInit == Init => Stamps
<1> SUFFICES ASSUME Init PROVE Stamps
  OBVIOUS
<1>1. \A t \in Task : call[t] = Fresh
  BY DEF Init, CallInit
<1> QED
  BY <1>1, FreshStamp DEF Stamps, StampOK, StampAt, WaitPoint, QueueCallPoint

\* The daemon that has sampled the time finds the timers as it left them, when
\* it has resumed the scheduler: no other task changes them.
Sampled ==
    \A t \in Task : call[t].at \in DaemonTime =>
        /\ call[t].size = tm.last
        /\ call[t].at = "expire" \/ call[t].path = "expired" => tm.current # <<>>

LEMMA OneDaemon ==
    ASSUME StampsInv, NEW t \in Task, NEW u \in Task, Now(t).op = "prvTimerTask", Now(u).op = "prvTimerTask"
    PROVE  t = u
<1>1. \A x \in Task : Now(x).op = "prvTimerTask" => x \in Users(program, "prvTimerTask")
  BY DEF StampsInv, InScript, Users, Now, ScriptOf
<1>2. \A x, y \in Users(program, "prvTimerTask") : x = y
  BY AppAssumption, Zenon DEF StampsInv
<1> QED
  BY <1>1, <1>2

LEMMA SampledStays ==
    ASSUME Sampled, Undisturbed, tm'.last = tm.last, tm'.current = tm.current
    PROVE  Sampled'
  BY DEF Sampled, Undisturbed

LEMMA DaemonSampled ==
    ASSUME StampsInv, Sampled, TimerQueue \in Object, NEW t \in Task, TimerStep(t), NEW T,
           DaemonOK(Daemons, k, T)
    PROVE  Sampled'
<1>0. /\ FitsAt(Now(t), call[t].at) /\ DOMAIN call = Task /\ DOMAIN call[t] = DOMAIN Fresh
      /\ k.cur = t /\ Now(t).op = "prvTimerTask"
  BY StampFacts, DaemonSteps
<1>1. \A u \in Task \ {t} : call[u].at \notin DaemonTime
  BY <1>0, OneDaemon, StampFacts DEF FitsAt, DaemonPoint, DaemonTime
<1>2. ASSUME \A u \in Task \ {t} : call'[u] = call[u],
             call'[t].at \in DaemonTime =>
                 /\ call'[t].size = tm'.last
                 /\ call'[t].at = "expire" \/ call'[t].path = "expired" => tm'.current # <<>>
      PROVE  Sampled'
  BY <1>1, <1>2 DEF Sampled
<1>3. CASE ExpireOrBlock(t)
  <2> DEFINE z == [Daemons EXCEPT !.k = vTaskSuspendAll(@)]
             y == prvSampleTimeNow(z)
             expired == tm.current # <<>> /\ tm.expiry[Head(tm.current)] <= k.tick
  <2>1. \/ call' = [call EXCEPT ![t].at = "unlockTx", ![t].path = "blocked"]
        \/ /\ call' = [call EXCEPT ![t].at = "sampled", ![t].size = k.tick,
                                   ![t].path = IF Switched(z) THEN "switched" ELSE "expired"]
           /\ tm' = y.tm /\ (Switched(z) \/ expired)
    BY <1>3, Zenon DEF ExpireOrBlock, Adopt
  <2>2. CASE call' = [call EXCEPT ![t].at = "unlockTx", ![t].path = "blocked"]
    BY <1>0, <1>2, <2>2 DEF DaemonTime, Fresh
  <2>3. CASE /\ call' = [call EXCEPT ![t].at = "sampled", ![t].size = k.tick,
                                     ![t].path = IF Switched(z) THEN "switched" ELSE "expired"]
             /\ tm' = y.tm /\ (Switched(z) \/ expired)
    <3>1. /\ \A u \in Task \ {t} : call'[u] = call[u]
          /\ call'[t].at = "sampled" /\ call'[t].size = k.tick
          /\ call'[t].path = IF Switched(z) THEN "switched" ELSE "expired"
      <4> HIDE DEF z
      <4> QED
        BY <1>0, <2>3 DEF Fresh
    <3>2. KernelOK(vTaskSuspendAll(k), vTaskSuspendAll(k)) /\ vTaskSuspendAll(k).tick = k.tick
      <4>1. KernelOK(k, k)
        BY DEF DaemonOK, Daemons
      <4>2. DOMAIN k = Fields
        BY <4>1 DEF KernelOK, KernelAt, Settled, Shape
      <4> QED
        BY <4>1, <4>2, MovelessOK DEF vTaskSuspendAll, Fields
    <3>3. DaemonOK(z, vTaskSuspendAll(k), T) /\ z.tm = tm
      BY <3>2 DEF DaemonOK, Daemons
    <3> HIDE DEF z
    <3>4. y.tm.last = k.tick /\ (~Switched(z) => y.tm.current = tm.current)
      BY <3>2, <3>3, SampleOK
    <3>5. tm' = y.tm /\ (Switched(z) \/ tm.current # <<>>)
      BY <2>3
    <3> HIDE DEF y, expired
    <3>6. call'[t].path = "expired" => ~Switched(z)
      BY <3>1
    <3> QED
      BY <1>2, <3>1, <3>4, <3>5, <3>6
  <2> QED
    BY <2>1, <2>2, <2>3
<1>4. CASE ResumeDaemon(t)
  <2>1. /\ \A u \in Task \ {t} : call'[u] = call[u]
        /\ call'[t].at = (IF call[t].path = "expired" THEN "expire" ELSE "again")
        /\ call'[t].size = call[t].size /\ call'[t].path = call[t].path /\ call[t].at = "sampled" /\ tm' = tm
    BY <1>0, <1>4 DEF ResumeDaemon, Goto, Runs, Fresh
  <2> QED
    BY <1>2, <2>1 DEF Sampled, DaemonTime
<1>5. CASE prvProcessExpiredTimer(t)
  <2>1. call' = [call EXCEPT ![t].at = "again", ![t].size = 0]
    BY <1>5, Zenon DEF prvProcessExpiredTimer
  <2> QED
    BY <1>0, <1>2, <2>1 DEF DaemonTime, Fresh
<1>6. CASE ReceiveCommand(t) \/ ProcessCommand(t)
  <2>1. \/ call' = [call EXCEPT ![t] = Fresh]
        \/ \E at \in {"command received", "again"} : call' = Goto(t, at)
    BY <1>6 DEF ReceiveCommand, ProcessCommand
  <2>2. (\A u \in Task \ {t} : call'[u] = call[u]) /\ call'[t].at \in {"call", "command received", "again"}
    <3>1. CASE call' = [call EXCEPT ![t] = Fresh]
      BY <1>0, <3>1 DEF Fresh
    <3>2. ASSUME NEW at, call' = Goto(t, at) PROVE (\A u \in Task \ {t} : call'[u] = call[u]) /\ call'[t].at = at
      BY <1>0, <3>2 DEF Goto, Fresh
    <3> QED
      BY <2>1, <3>1, <3>2
  <2> QED
    BY <1>2, <2>2 DEF DaemonTime
<1> QED
  BY <1>3, <1>4, <1>5, <1>6 DEF TimerStep

----------------------------------------------------------------------------
(* The steps of the tasks                                                   *)

Timer == DOMAIN App[program].timers.period

\* The data of a queue; that of the daemon holds commands for timers there are.
BoxOK(x, b) == QueueOK(b) /\ (x = TimerQueue => MailOK(b, Timer))
QueuesOK == DOMAIN q = DOMAIN App[program].queues /\ \A x \in DOMAIN q : BoxOK(x, q[x])
WaitersOK ==
    /\ {"toSend", "toReceive"} \subseteq DOMAIN s
    /\ s.toSend \in Task \cup {NULL} /\ s.toReceive \in Task \cup {NULL}
ListsInv ==
    /\ program \in Program /\ InScript /\ Fits /\ Stamps /\ Sampled
    /\ KernelOK(k, k) /\ QueuesOK /\ WaitersOK /\ TimersOK(tm, Timer) /\ SuspendedByCaller

QueuesKept == DOMAIN q' = DOMAIN q /\ \A x \in DOMAIN q : BoxOK(x, q'[x])

LEMMA OneQueue ==
    ASSUME QueuesOK, NEW x, NEW b, BoxOK(x, b), q' = [q EXCEPT ![x] = b]
    PROVE  QueuesKept
  BY DEF QueuesOK, QueuesKept

LEMMA SameQueues == ASSUME QueuesOK, UNCHANGED q PROVE QueuesKept
  BY DEF QueuesOK, QueuesKept

LEMMA InTime == ListsInv => StampsInv
  BY DEF ListsInv, StampsInv, KernelOK, KernelAt, Settled, Shape

LEMMA CallIsLegal ==
    ASSUME ListsInv, NEW t \in Task
    PROVE  /\ LegalCall(program, Now(t)) /\ FitsAt(Now(t), call[t].at) /\ StampOK(Now(t), call[t])
           /\ KernelOK(k, k) /\ k.tick \in Time /\ Ticks \in Nat
  BY InTime, StampFacts, TicksAssumption DEF ListsInv, StampsInv

\* A call of a queue names one there is.
LEMMA QueueOfCall ==
    ASSUME ListsInv, NEW t \in Task, Now(t).op \in QueueOp \cup OtherQueueOp \cup {"prvTimerTask"}
    PROVE  /\ X(t) \in Object /\ X(t) \in DOMAIN q /\ BoxOK(X(t), q[X(t)]) /\ QueueOK(q[X(t)])
           /\ Now(t).op \notin {"xTimerGenericCommand", "prvTimerTask"} => X(t) # TimerQueue
<1>1. HasQueue(program, X(t)) /\ (Now(t).op \notin {"xTimerGenericCommand", "prvTimerTask"} => X(t) # TimerQueue)
  BY CallIsLegal DEF LegalCall, X
<1> QED
  BY <1>1 DEF HasQueue, ListsInv, QueuesOK, BoxOK

LEMMA DaemonsQueue ==
    ASSUME ListsInv, NEW t \in Task, Now(t).op = "prvTimerTask"
    PROVE  TimerQueue \in Object /\ QueueOK(q[TimerQueue]) /\ MailOK(q[TimerQueue], Timer)
<1>1. HasQueue(program, TimerQueue)
  BY CallIsLegal DEF LegalCall
<1> QED
  BY <1>1 DEF HasQueue, ListsInv, QueuesOK, BoxOK

\* Locks, holders and counts are not part of the mail.
LEMMA SameBox ==
    ASSUME NEW x, NEW b, BoxOK(x, b), NEW c, QueueOK(c),
           \A f \in QueueFields \ {"rx", "tx", "holder", "rec"} : c[f] = b[f]
    PROVE  BoxOK(x, c)
  BY MailSame DEF BoxOK, QueueOK

LEMMA BoxSent ==
    ASSUME NEW z, NEW from, KernelOK(z, from), NEW x \in Object, NEW b, BoxOK(x, b), NEW v, NEW position \in Position,
           x = TimerQueue => b.n # b.length /\ MessageOK(v, Timer) /\ position = "queueSEND_TO_BACK"
    PROVE  BoxOK(x, Sent(z, b, x, v, position).b) /\ BoxOK(x, SentFromISR(z, b, x, v, position).b)
<1> DEFINE c == prvCopyDataToQueue(b, v, position)
           d == SentFromISR(z, b, x, v, position).b
<1>1. QueueOK(b) /\ QueueOK(c) /\ QueueOK(d)
  BY SentOK, CopyOK DEF BoxOK
<1>2. ASSUME x = TimerQueue PROVE MailOK(c, Timer)
  <2>1. MailOK(b, Timer) /\ b.type = "queue"
    BY <1>2 DEF BoxOK, MailOK
  <2>2. c = ToBack(b, v)
    BY <1>2, <2>1 DEF prvCopyDataToQueue
  <2> QED
    BY <1>2, <2>1, <2>2, MailSent
<1>3. BoxOK(x, c)
  BY <1>1, <1>2 DEF BoxOK
<1>4. \A f \in QueueFields \ {"rx", "tx", "holder", "rec"} : d[f] = c[f]
  <2>1. DOMAIN c = QueueFields
    BY <1>1 DEF QueueOK
  <2>2. d = [c EXCEPT !.tx = Deferred(z, Receiving(x), b.tx).count]
    BY Zenon DEF SentFromISR, CountTx
  <2> HIDE DEF c, d
  <2> QED
    BY <2>1, <2>2 DEF QueueFields
<1>5. Sent(z, b, x, v, position).b = c
  BY DEF Sent
<1> HIDE DEF c, d
<1>6. BoxOK(x, d)
  BY <1>1, <1>3, <1>4, SameBox
<1> QED
  BY <1>3, <1>5, <1>6 DEF d

LEMMA BoxReceived ==
    ASSUME NEW z, NEW from, KernelOK(z, from), z.cur \in Task, NEW x \in Object, NEW b, BoxOK(x, b), b.n # 0
    PROVE  BoxOK(x, Received(z, b, x).b) /\ BoxOK(x, Peeked(z, b, x).b) /\ BoxOK(x, ReceivedFromISR(z, b, x).b)
<1> DEFINE c == [prvCopyDataFromQueue(b) EXCEPT !.n = @ - 1]
           d == ReceivedFromISR(z, b, x).b
           e == Received(z, b, x).b
<1>1. QueueOK(b) /\ QueueOK(c) /\ QueueOK(d) /\ QueueOK(e)
  BY ReceivedOK, CopyOK DEF BoxOK, Position
<1>2. x = TimerQueue => MailOK(c, Timer)
  BY MailRead DEF BoxOK
<1>3. BoxOK(x, c)
  BY <1>1, <1>2 DEF BoxOK
<1>4. DOMAIN c = QueueFields
  BY <1>1 DEF QueueOK
<1>5. d = [c EXCEPT !.rx = Deferred(z, Sending(x), b.rx).count]
  BY Zenon DEF ReceivedFromISR, CountRx
<1>6. \E v : e = [c EXCEPT !.holder = v]
  BY DEF Received
<1>7. Peeked(z, b, x).b = b
  BY DEF Peeked
<1> HIDE DEF c, d, e
<1>8. \A f \in QueueFields \ {"rx", "tx", "holder", "rec"} : d[f] = c[f] /\ e[f] = c[f]
  BY <1>4, <1>5, <1>6 DEF QueueFields
<1>9. BoxOK(x, d) /\ BoxOK(x, e)
  BY <1>1, <1>3, <1>8, SameBox
<1> QED
  BY <1>7, <1>9 DEF d, e

\* What a critical section makes of the kernel and of a queue.
DoneOK(x, done) == DOMAIN done = {"k", "b"} /\ KernelOK(done.k, k) /\ BoxOK(x, done.b)

LEMMA CountOK ==
    ASSUME NEW x, NEW done, DoneOK(x, done), NEW t
    PROVE  DoneOK(x, Count(t, done))
<1> DEFINE b == [done.b EXCEPT !.rec = @ + 1]
           y == [done EXCEPT !.b = b]
<1>1. QueueOK(b) /\ \A f \in QueueFields \ {"rec"} : b[f] = done.b[f]
  BY DEF DoneOK, BoxOK, QueueOK, QueueFields
<1> HIDE DEF b
<1>2. BoxOK(x, b)
  BY <1>1, SameBox DEF DoneOK
<1>3. DoneOK(x, y)
  BY <1>2 DEF DoneOK
<1>4. [done EXCEPT !.b.rec = @ + 1] = y
  BY DEF DoneOK, b
<1> QED
  BY <1>3, <1>4 DEF Count

\* A command tells the time it was given, or a period.
LEMMA CommandOK ==
    ASSUME ListsInv, NEW t \in Task, Now(t).op = "xTimerGenericCommand", call[t].at # "call"
    PROVE  MessageOK(ItemOf(t), Timer)
<1> DEFINE c == Now(t)
           value == IF "period" \in DOMAIN c THEN c.period ELSE call[t].size
<1>1. call[t].size \in Time /\ LegalCommand(program, c)
  BY CallIsLegal DEF StampOK, LegalCall
<1>2. /\ c.timer \in Timer /\ ("period" \in DOMAIN c => c.period \in Period)
      /\ c.v = "tmrCOMMAND_CHANGE_PERIOD" => "period" \in DOMAIN c
  BY <1>1 DEF LegalCommand, Timer
<1>3. value \in Time /\ (c.v = "tmrCOMMAND_CHANGE_PERIOD" => value # 0)
  BY <1>1, <1>2, TicksAssumption DEF Time, Period
<1>4. ItemOf(t) = [id |-> c.v, timer |-> c.timer, value |-> value]
  BY DEF ItemOf
<1> HIDE DEF c, value
<1> QED
  BY <1>2, <1>3, <1>4 DEF MessageOK

LEMMA SuccessOK ==
    ASSUME ListsInv, NEW t \in Task, Now(t).op \in QueueOp, k.cur = t, Able(t),
           Now(t).op = "xTimerGenericCommand" => call[t].at # "call"
    PROVE  DoneOK(X(t), Success(t))
<1> DEFINE c == Now(t)
           x == X(t)
           b == q[x]
<1>1. x \in Object /\ BoxOK(x, b) /\ QueueOK(b) /\ x = c.x /\ KernelOK(k, k)
      /\ (c.op # "xTimerGenericCommand" => x # TimerQueue)
  BY QueueOfCall, CallIsLegal DEF X, QueueOp, SendOp, ReceiveOp, TakeOp
<1>2. ASSUME c.op \in SendOp PROVE DoneOK(x, Sent(k, b, x, ItemOf(t), c.position))
  <2>1. /\ c.position \in Position
        /\ c.op = "xTimerGenericCommand" => c.position = "queueSEND_TO_BACK"
    BY <1>2, CallIsLegal DEF LegalCall, LegalCommand
  <2>2. x = TimerQueue => b.n # b.length /\ MessageOK(ItemOf(t), Timer) /\ c.position = "queueSEND_TO_BACK"
    BY <1>1, <1>2, <2>1, CommandOK DEF Able, prvIsQueueFull
  <2>3. DOMAIN Sent(k, b, x, ItemOf(t), c.position) = {"k", "b"}
    BY DEF Sent
  <2> QED
    BY <1>1, <2>1, <2>2, <2>3, SentOK, BoxSent DEF DoneOK
<1>3. ASSUME c.op \notin SendOp PROVE DoneOK(x, Peeked(k, b, x)) /\ DoneOK(x, Received(k, b, x))
  <2>1. DOMAIN Peeked(k, b, x) = {"k", "b"} /\ DOMAIN Received(k, b, x) = {"k", "b"}
    BY DEF Peeked, Received
  <2>2. b.n # 0
    BY <1>3 DEF Able, prvIsQueueEmpty
  <2> QED
    BY <1>1, <2>1, <2>2, ReceivedOK, BoxReceived DEF DoneOK
<1> HIDE DEF c
<1>4. \/ c.op \in SendOp /\ Success(t) = Sent(k, q[c.x], c.x, ItemOf(t), c.position)
      \/ c.op \notin SendOp /\ Success(t) \in {Peeked(k, q[c.x], c.x), Received(k, q[c.x], c.x)}
  BY DEF Success, c, SendOp
<1> HIDE DEF x, b
<1>5. b = q[c.x]
  BY <1>1 DEF b
<1> QED
  BY <1>1, <1>2, <1>3, <1>4, <1>5 DEF x

\* What a step of a task does to the kernel: it works on it, or suspends the
\* scheduler, or resumes it, and its place in the call tells which.
Works(t) == KernelOK(k', k) /\ (call'[t].at \in Inside <=> call[t].at \in Inside)
Suspends(t) == Paused(k, k') /\ call[t].at \notin Inside /\ call'[t].at \in Inside
Resumes(t) == Released(k, k') /\ call[t].at \in Inside /\ call'[t].at \notin Inside
Passes(t) == Works(t) \/ Suspends(t) \/ Resumes(t)

LEMMA PassesOK == ASSUME NEW t, Passes(t) PROVE KernelOK(k', k')
  BY Own DEF Passes, Works, Suspends, Resumes, Paused, Released

LEMMA Places ==
    ASSUME ListsInv, NEW t \in Task
    PROVE  /\ DOMAIN call = Task /\ DOMAIN call[t] = DOMAIN Fresh
           /\ \A at : call' = Goto(t, at) => call'[t].at = at
           /\ \A ok, got : call' = Return(t, ok, got) => call'[t].at = "call"
           /\ \A at, size : call' = Local(t, at, size) => call'[t].at = at
<1>1. DOMAIN call = Task /\ DOMAIN call[t] = DOMAIN Fresh
  BY InTime, StampFacts
<1>2. \A at : call' = Goto(t, at) => call'[t].at = at
  BY <1>1 DEF Goto, Fresh
<1>3. \A ok, got : call' = Return(t, ok, got) => call'[t].at = "call"
  BY <1>1 DEF Return, Fresh
<1>4. \A at, size : call' = Local(t, at, size) => call'[t].at = at
  BY <1>1 DEF Local, Fresh
<1> QED
  BY <1>1, <1>2, <1>3, <1>4

LEMMA QueueStepOK ==
    ASSUME ListsInv, NEW t \in Task, QueueStep(t)
    PROVE  Passes(t) /\ QueuesKept
<1> USE DEF Inside, Resuming
<1>0. KernelOK(k, k) /\ QueuesOK /\ FitsAt(Now(t), call[t].at) /\ StampOK(Now(t), call[t]) /\ k.tick \in Time
  BY CallIsLegal DEF ListsInv
<1>12. /\ \A at : call' = Goto(t, at) => call'[t].at = at
       /\ \A ok, got : call' = Return(t, ok, got) => call'[t].at = "call"
       /\ DOMAIN call = Task /\ DOMAIN call[t] = DOMAIN Fresh
  BY Places
<1>13. ASSUME KernelOK(k', k), call[t].at \notin Inside, call'[t].at \notin Inside PROVE Passes(t)
  BY <1>13 DEF Passes, Works
<1>14. ASSUME KernelOK(k', k), call[t].at \in Inside, call'[t].at \in Inside PROVE Passes(t)
  BY <1>14 DEF Passes, Works
<1>1. CASE TakeAgain(t)
  <2> DEFINE b == [q[X(t)] EXCEPT !.rec = @ + 1]
  <2>1. BoxOK(X(t), q[X(t)]) /\ QueueOK(q[X(t)])
    BY <1>1, QueueOfCall DEF TakeAgain, Calls, QueueOp, ReceiveOp, TakeOp
  <2>2. QueueOK(b) /\ \A f \in QueueFields \ {"rec"} : b[f] = q[X(t)][f]
    BY <2>1 DEF QueueOK, QueueFields
  <2>3. q' = [q EXCEPT ![X(t)] = b] /\ k' = k
    BY <1>1 DEF TakeAgain
  <2> HIDE DEF b
  <2>4. BoxOK(X(t), b)
    BY <2>1, <2>2, SameBox
  <2>5. call[t].at = "call" /\ call'[t].at = "call"
    BY <1>1, <1>12 DEF TakeAgain, Calls, Runs
  <2> QED
    BY <1>0, <1>13, <2>3, <2>4, <2>5, OneQueue
<1>2. CASE ReadCommandTime(t) \/ LateForQueue(t)
  <2>1. UNCHANGED <<k, q>>
    BY <1>2 DEF ReadCommandTime, LateForQueue
  <2>2. call[t].at \in {"call", "late"} /\ call'[t].at \in {"command", "again", "disinherit", "call"}
    <3>1. CASE ReadCommandTime(t)
      BY <1>12, <3>1 DEF ReadCommandTime, Calls, Runs, Fresh
    <3>2. CASE LateForQueue(t)
      BY <1>12, <3>2 DEF LateForQueue, Runs
    <3> QED
      BY <1>2, <3>1, <3>2
  <2> QED
    BY <1>0, <1>13, <2>1, <2>2, SameQueues
<1>3. CASE TryQueue(t)
  <2>1. /\ Now(t).op \in QueueOp /\ k.cur = t
        /\ Now(t).op = "xTimerGenericCommand" => call[t].at # "call"
    BY <1>3 DEF TryQueue, Runs
  <2>2. Able(t) => DoneOK(X(t), Count(t, Success(t)))
    BY <2>1, SuccessOK, CountOK
  <2>3. \/ Able(t) /\ Becomes(X(t), Count(t, Success(t)))
        \/ k' = configASSERT(k, ~call[t].inherited) /\ UNCHANGED q
        \/ UNCHANGED <<k, q>>
    BY <1>3 DEF TryQueue
  <2>4. \A c : KernelOK(configASSERT(k, c), k)
    BY <1>0, MovelessOK
  <2>5. call[t].at \in {"call", "command", "again"} /\ call'[t].at \in {"call", "suspend"}
    <3> DEFINE first == call[t].at # "again"
               left == IF first THEN Now(t).ticks ELSE call[t].left
               since == IF first THEN vTaskInternalSetTimeOutState(k) ELSE call[t].since
    <3>1. call[t].at \in {"call", "command", "again"}
      BY <1>3 DEF TryQueue, Runs
    <3>2. \/ \E ok, got : call' = Return(t, ok, got)
          \/ call' = [call EXCEPT ![t].at = "suspend", ![t].left = left, ![t].since = since]
      BY <1>3 DEF TryQueue
    <3> HIDE DEF left, since
    <3> QED
      BY <1>12, <3>1, <3>2 DEF Fresh
  <2>6. CASE Able(t) /\ Becomes(X(t), Count(t, Success(t)))
    BY <1>0, <1>13, <2>2, <2>5, <2>6, OneQueue DEF DoneOK, Becomes
  <2>7. CASE k' = configASSERT(k, ~call[t].inherited) /\ UNCHANGED q
    BY <1>0, <1>13, <2>4, <2>5, <2>7, SameQueues
  <2> QED
    BY <1>0, <1>13, <2>3, <2>5, <2>6, <2>7, SameQueues
<1>4. CASE SuspendForQueue(t)
  <2>1. Paused(k, k') /\ UNCHANGED q
    BY <1>0, <1>4, MovelessOK, PauseOK DEF SuspendForQueue
  <2>2. call[t].at = "suspend" /\ call'[t].at = "lock"
    BY <1>4, <1>12 DEF SuspendForQueue, Runs
  <2> QED
    BY <1>0, <2>1, <2>2, SameQueues DEF Passes, Suspends
<1>5. CASE LockQueue(t)
  <2>1. Now(t).op \in QueueOp \cup {"prvTimerTask"}
    BY <1>0, <1>5 DEF LockQueue, Runs, FitsAt, QueuePoint
  <2>2. BoxOK(X(t), prvLockQueue(q[X(t)]))
    <3> DEFINE b == q[X(t)]
               c == prvLockQueue(b)
    <3>1. BoxOK(X(t), b) /\ QueueOK(b) /\ QueueOK(c)
      BY <2>1, QueueOfCall, CopyOK DEF Position
    <3>2. \A f \in QueueFields \ {"rx", "tx"} : c[f] = b[f]
      BY <3>1 DEF prvLockQueue, QueueOK, QueueFields
    <3> HIDE DEF b, c
    <3>3. BoxOK(X(t), c)
      BY <3>1, <3>2, SameBox
    <3> QED
      BY <3>3 DEF b, c
  <2>3. q' = [q EXCEPT ![X(t)] = prvLockQueue(q[X(t)])] /\ k' = k
    BY <1>5 DEF LockQueue
  <2>4. call[t].at = "lock" /\ call'[t].at = "look"
    BY <1>5, <1>12 DEF LockQueue, Runs
  <2> QED
    BY <1>0, <1>14, <2>2, <2>3, <2>4, OneQueue
<1>6. CASE BlockOnQueue(t)
  <2> DEFINE mutex == Now(t).op \in TakeOp /\ q[X(t)].type = "mutex"
             holder == IF mutex THEN q[X(t)].holder ELSE NULL
             check == xTaskCheckForTimeOut(k, call[t].since, call[t].left)
             w == xTaskPriorityInherit(k, holder)
  <2>1. Now(t).op \in QueueOp \cup {"prvTimerTask"} /\ k.cur = t
    BY <1>0, <1>6 DEF BlockOnQueue, Runs, FitsAt, QueuePoint
  <2>2. X(t) \in Object /\ QueueOK(q[X(t)])
    BY <2>1, QueueOfCall
  <2>3. holder \in Task \cup {NULL} /\ Waits(t) \in EventList
    BY <2>2, EventListsOf DEF QueueOK, Waits
  <2>4. (~check.out /\ k' = vTaskPlaceOnEventList(w, Waits(t), check.left)) \/ UNCHANGED k
    BY <1>6 DEF BlockOnQueue
  <2>10. UNCHANGED q
    BY <1>6 DEF BlockOnQueue
  <2>11. call[t].at = "look" /\ call'[t].at = "unlockTx"
    <3> DEFINE inherited(path) == IF path = "blocked" /\ mutex THEN Inherits(k, holder) ELSE call[t].inherited
    <3>1. call[t].at = "look" /\ \E path :
             call' = [call EXCEPT ![t].at = "unlockTx", ![t].left = check.left, ![t].since = check.since,
                                  ![t].path = path, ![t].inherited = inherited(path)]
      BY <1>6 DEF BlockOnQueue, Runs
    <3> HIDE DEF check, inherited
    <3> QED
      BY <1>12, <3>1 DEF Fresh
  <2>8. call[t].left \in Time /\ call[t].left # 0 /\ call[t].since.tick \in Time
    BY <1>0, <1>6 DEF BlockOnQueue, Runs, StampOK, StampAt, RecordOK, WaitPoint
  <2>7. ~check.out => check.left \in 1 .. Ticks - 1
    BY <1>0, <2>8, TimeLeft
  <2> HIDE DEF holder, check
  <2>5. KernelOK(w, k) /\ w.cur = t
    BY <1>0, <2>1, <2>3, InheritOK, Own DEF Steady, SameTime
  <2> HIDE DEF w
  <2>6. ~check.out => KernelOK(vTaskPlaceOnEventList(w, Waits(t), check.left), k)
    BY <2>3, <2>5, <2>7, PlaceOnEventListOK
  <2>9. KernelOK(k', k)
    BY <1>0, <2>4, <2>6
  <2> QED
    BY <1>0, <1>14, <2>9, <2>10, <2>11, SameQueues
<1>7. CASE UnlockTx(t) \/ UnlockRx(t)
  <2> DEFINE b == [q[X(t)] EXCEPT !.tx = queueUNLOCKED]
             d == [q[X(t)] EXCEPT !.rx = queueUNLOCKED]
  <2>1. Now(t).op \in QueueOp \cup {"prvTimerTask"}
    BY <1>0, <1>7 DEF UnlockTx, UnlockRx, Runs, FitsAt, QueuePoint
  <2>2. X(t) \in Object /\ BoxOK(X(t), q[X(t)]) /\ QueueOK(q[X(t)])
    BY <2>1, QueueOfCall
  <2>3. QueueOK(b) /\ QueueOK(d) /\ \A f \in QueueFields \ {"rx", "tx"} : b[f] = q[X(t)][f] /\ d[f] = q[X(t)][f]
    BY <2>2 DEF QueueOK, QueueFields, queueUNLOCKED
  <2>4. \A l \in EventList : KernelOK(Unlocked(k, l, q[X(t)].tx), k) /\ KernelOK(Unlocked(k, l, q[X(t)].rx), k)
    BY <1>0, <2>2, UnlockedOK DEF QueueOK
  <2>5. \/ k' = Unlocked(k, Receiving(X(t)), q[X(t)].tx) /\ q' = [q EXCEPT ![X(t)] = b]
        \/ k' = Unlocked(k, Sending(X(t)), q[X(t)].rx) /\ q' = [q EXCEPT ![X(t)] = d]
    BY <1>7 DEF UnlockTx, UnlockRx
  <2> HIDE DEF b, d
  <2>6. BoxOK(X(t), b) /\ BoxOK(X(t), d)
    BY <2>2, <2>3, SameBox
  <2>7. QueuesKept
    BY <1>0, <2>5, <2>6, OneQueue
  <2>8. KernelOK(k', k)
    BY <2>2, <2>4, <2>5, EventListsOf
  <2>9. call[t].at \in {"unlockTx", "unlockRx"} /\ call'[t].at \in {"unlockRx", "resume"}
    BY <1>7, <1>12 DEF UnlockTx, UnlockRx, Runs
  <2> QED
    BY <1>14, <2>7, <2>8, <2>9
<1>8. CASE ResumeFromQueue(t)
  <2>1. Released(k, k') /\ UNCHANGED q
    BY <1>0, <1>8, ResumeOK DEF ResumeFromQueue
  <2>2. call[t].at = "resume" /\ call'[t].at \in {"again", "call", "late"}
    BY <1>8, <1>12 DEF ResumeFromQueue, Runs
  <2> QED
    BY <1>0, <2>1, <2>2, SameQueues DEF Passes, Resumes
<1>9. CASE DisinheritLate(t)
  <2>1. Now(t).op \in QueueOp \cup {"prvTimerTask"}
    BY <1>0, <1>9 DEF DisinheritLate, Runs, FitsAt, QueuePoint
  <2>2. X(t) \in Object /\ q[X(t)].holder \in Task \cup {NULL}
    BY <2>1, QueueOfCall DEF QueueOK
  <2>3. prvGetDisinheritPriorityAfterTimeout(k, X(t)) \in Prio
    BY <1>0, <2>2, DisinheritPriority
  <2>4. call[t].at = "disinherit" /\ call'[t].at = "call"
    BY <1>9, <1>12 DEF DisinheritLate, Runs
  <2>5. KernelOK(k', k) /\ UNCHANGED q
    BY <1>0, <1>9, <2>2, <2>3, DisinheritLateOK DEF DisinheritLate
  <2> QED
    BY <1>0, <1>13, <2>4, <2>5, SameQueues
<1>10. CASE xQueueGiveMutexRecursive(t)
  <2> DEFINE b == [q[X(t)] EXCEPT !.rec = @ - 1]
             done == IF b.rec = 0 THEN Sent(k, b, X(t), NULL, "queueSEND_TO_BACK") ELSE [k |-> k, b |-> b]
  <2>1. X(t) \in Object /\ QueueOK(q[X(t)]) /\ X(t) # TimerQueue
    BY <1>10, QueueOfCall DEF xQueueGiveMutexRecursive, Calls, OtherQueueOp
  <2>2. QueueOK(b)
    BY <2>1 DEF QueueOK, QueueFields
  <2>3. UNCHANGED <<k, q>> \/ Becomes(X(t), done)
    BY <1>10 DEF xQueueGiveMutexRecursive
  <2> HIDE DEF b
  <2>4. "queueSEND_TO_BACK" \in Position
    BY DEF Position
  <2>5. KernelOK(done.k, k) /\ QueueOK(done.b)
    BY <1>0, <2>1, <2>2, <2>4, SentOK
  <2> HIDE DEF done
  <2>6. call[t].at = "call" /\ call'[t].at = "call"
    BY <1>10, <1>12 DEF xQueueGiveMutexRecursive, Calls, Runs
  <2> QED
    BY <1>0, <1>13, <2>1, <2>3, <2>5, <2>6, OneQueue, SameQueues DEF Becomes, BoxOK
<1>11. CASE ResetQueue(t)
  <2>1. X(t) \in Object /\ QueueOK(q[X(t)]) /\ X(t) # TimerQueue
    BY <1>11, QueueOfCall DEF ResetQueue, Calls, OtherQueueOp
  <2>2. KernelOK(xQueueGenericReset(k, q[X(t)], X(t)).k, k) /\ QueueOK(xQueueGenericReset(k, q[X(t)], X(t)).b)
    BY <1>0, <2>1, ReceivedOK
  <2>3. call[t].at = "call" /\ call'[t].at = "call"
    BY <1>11, <1>12 DEF ResetQueue, Calls, Runs
  <2> QED
    BY <1>0, <1>11, <1>13, <2>1, <2>2, <2>3, OneQueue DEF ResetQueue, Becomes, BoxOK
<1> QED
  BY <1>1, <1>2, <1>3, <1>4, <1>5, <1>6, <1>7, <1>8, <1>9, <1>10, <1>11 DEF QueueStep

\* A time that is not now is yet to come.
LEMMA StillAhead ==
    ASSUME NEW wake \in Time, NEW tick \in Time, wake # tick
    PROVE  (wake - tick) % Ticks \in 1 .. Ticks - 1
<1> DEFINE e == wake - tick
<1>1. e \in (-Ticks) .. (Ticks + Ticks - 1) /\ e # 0 /\ e < Ticks /\ e > -Ticks
  BY TicksAssumption DEF Time
<1> HIDE DEF e
<1>2. e % Ticks = IF e < 0 THEN e + Ticks ELSE IF e < Ticks THEN e ELSE e - Ticks
  BY <1>1, Turns DEF Turn
<1>3. e % Ticks \in 1 .. Ticks - 1
  BY <1>1, <1>2, TicksAssumption
<1> QED
  BY <1>3 DEF e

LEMMA ControlStepOK ==
    ASSUME ListsInv, NewTasks, NEW t \in Task, ControlStep(t)
    PROVE  Passes(t)
<1> USE DEF Inside, Resuming
<1> DEFINE c == Now(t)
<1>0. /\ KernelOK(k, k) /\ FitsAt(c, call[t].at) /\ LegalCall(program, c) /\ StampOK(c, call[t])
      /\ k.tick \in Time
  BY CallIsLegal DEF ListsInv
<1>14. /\ \A at : call' = Goto(t, at) => call'[t].at = at
       /\ \A ok, got : call' = Return(t, ok, got) => call'[t].at = "call"
       /\ DOMAIN call = Task /\ DOMAIN call[t] = DOMAIN Fresh
  BY Places
<1>15. ASSUME KernelOK(k', k), call[t].at \notin Inside, call'[t].at \notin Inside PROVE Passes(t)
  BY <1>15 DEF Passes, Works
<1>16. ASSUME KernelOK(k', k), call[t].at \in Inside, call'[t].at \in Inside PROVE Passes(t)
  BY <1>16 DEF Passes, Works
<1>1. CASE SuspendForDelay(t)
  <2>1. \A b : KernelOK(configASSERT(k, b), k)
    BY <1>0, MovelessOK
  <2>2. KernelOK(portYIELD_WITHIN_API(k), k)
    BY <1>0, MovelessOK
  <2> DEFINE w == configASSERT(k, k.susp = 0)
             z == vTaskSuspendAll(w)
  <2>3. KernelOK(w, k) /\ KernelOK(z, z)
    BY <2>1, MovelessOK
  <2>4. /\ call[t].at = "call"
        /\ \/ k' = portYIELD_WITHIN_API(k) /\ call'[t].at = "call"
           \/ k' = z /\ call'[t].at = "sleep"
    BY <1>1, <1>14 DEF SuspendForDelay, Calls, Runs
  <2> HIDE DEF w
  <2>5. Paused(w, z) /\ Steady(k, w)
    BY <2>3, PauseOK, Own
  <2> HIDE DEF z
  <2>6. Paused(k, z)
    BY <2>5 DEF Paused, Steady, SameTime
  <2> QED
    BY <1>15, <2>2, <2>4, <2>6 DEF Passes, Suspends
<1>2. CASE vTaskDelay(t) \/ vTaskDelayUntil(t)
  <2>1. k.cur = t /\ k.cur \in Task
    BY <1>2 DEF vTaskDelay, vTaskDelayUntil, Runs
  <2>2. \A ticks \in 1 .. Ticks - 1 : KernelOK(prvAddCurrentTaskToDelayedList(k, ticks, FALSE), k)
    BY <1>0, <2>1, BlockOK
  <2> DEFINE last == call[t].last
             wake == (last + c.ticks) % Ticks
             ahead == (wake - k.tick) % Ticks
  <2>3. c.op \in {"vTaskDelay", "vTaskDelayUntil"} /\ (c.op = "vTaskDelay" => c.ticks # 0)
    BY <1>0, <1>2 DEF StampOK, StampAt, Runs, vTaskDelay, vTaskDelayUntil
  <2>4. c.ticks \in Time /\ last \in Time
    BY <1>0, <2>3 DEF LegalCall, TimedOp, Time, StampOK, RecordOK
  <2>5. wake \in Time
    BY <2>4, TicksAssumption DEF Time
  <2>6. \/ c.op = "vTaskDelay" /\ k' = prvAddCurrentTaskToDelayedList(k, c.ticks, FALSE)
        \/ k' = k
        \/ ShouldDelay(last, wake, k.tick) /\ k' = prvAddCurrentTaskToDelayedList(k, ahead, FALSE)
    BY <1>2 DEF vTaskDelay, vTaskDelayUntil
  <2> HIDE DEF last, wake
  <2>7. ShouldDelay(last, wake, k.tick) => ahead \in 1 .. Ticks - 1
    <3>1. ShouldDelay(last, wake, k.tick) => wake # k.tick
      BY <1>0, <2>4, <2>5, TicksAssumption DEF ShouldDelay, Time
    <3> QED
      BY <1>0, <2>5, <3>1, StillAhead
  <2> HIDE DEF ahead
  <2>8. c.op = "vTaskDelay" => c.ticks \in 1 .. Ticks - 1
    BY <2>3, <2>4, TicksAssumption DEF Time
  <2> HIDE DEF c
  <2>9. KernelOK(k', k)
    BY <1>0, <2>2, <2>6, <2>7, <2>8
  <2>10. call[t].at = "sleep" /\ call'[t].at = "awake"
    <3>1. CASE vTaskDelay(t)
      BY <1>14, <3>1 DEF vTaskDelay, Runs
    <3>2. CASE vTaskDelayUntil(t)
      <4>1. call[t].at = "sleep" /\ \E w : call' = [call EXCEPT ![t].last = w, ![t].at = "awake"]
        BY <3>2 DEF vTaskDelayUntil, Runs
      <4> QED
        BY <1>14, <4>1 DEF Fresh
    <3> QED
      BY <1>2, <3>1, <3>2
  <2> QED
    BY <1>16, <2>9, <2>10
<1>3. CASE ResumeFromDelay(t) \/ ResumeFromCreate(t) \/ ResumeFromHeap(t)
  <2>1. Released(k, ResumeAndYield(k)) /\ Released(k, xTaskResumeAll(k).k)
    BY <1>0, ResumeOK
  <2>2. Released(k, k')
    BY <1>3, <2>1 DEF ResumeFromDelay, ResumeFromCreate, ResumeFromHeap
  <2>3. call[t].at \in {"awake", "stack", "tcb", "noMemory", "malloced"}
        /\ call'[t].at \in {"slept", "stack2", "add", "noTcb", "call"}
    BY <1>3, <1>14 DEF ResumeFromDelay, ResumeFromCreate, ResumeFromHeap, Runs
  <2> QED
    BY <2>2, <2>3 DEF Passes, Resumes
<1>17. CASE EndDelay(t)
  <2>1. k' = k /\ call[t].at = "slept" /\ call'[t].at = "call"
    BY <1>14, <1>17 DEF EndDelay, Runs
  <2> QED
    BY <1>0, <1>15, <2>1
<1>4. CASE AllocateStack(t) \/ AllocateTcb(t) \/ FreeStack(t) \/ Malloc(t) \/ Free(t)
  <2>1. KernelOK(vTaskSuspendAll(k), vTaskSuspendAll(k))
    BY <1>0, MovelessOK
  <2>2. k' = vTaskSuspendAll(k) /\ call[t].at \in {"call", "stack2", "noTcb"}
        /\ call'[t].at \in {"stack", "tcb", "noMemory", "malloced"}
    BY <1>4, <1>14 DEF AllocateStack, AllocateTcb, FreeStack, Malloc, Free, Calls, Runs
  <2>3. Paused(k, k')
    BY <1>0, <2>1, <2>2, PauseOK
  <2> QED
    BY <2>2, <2>3 DEF Passes, Suspends
<1>5. CASE Suspend(t)
  <2>1. c.x \in Task
    BY <1>0, <1>5 DEF Suspend, Calls, LegalCall, TaskOp
  <2>2. KernelOK(vTaskSuspend(k, c.x), k)
    BY <1>0, <2>1, DeleteOK
  <2>3. call[t].at = "call" /\ call'[t].at = "resetUnblock"
    BY <1>5, <1>14 DEF Suspend, Calls, Runs
  <2> QED
    BY <1>5, <1>15, <2>2, <2>3 DEF Suspend
<1>6. CASE ResetUnblockTime(t)
  <2>1. \A b : KernelOK(configASSERT(k, b), k)
    BY <1>0, MovelessOK
  <2>2. \A b, d : KernelOK(YieldIf(prvResetNextTaskUnblockTime(configASSERT(k, b)), d), k)
    BY <2>1, MovelessOK
  <2>3. KernelOK(k', k)
    BY <1>6, <2>2, Zenon DEF ResetUnblockTime
  <2>4. call[t].at = "resetUnblock" /\ call'[t].at = "call"
    BY <1>6, <1>14 DEF ResetUnblockTime, Runs
  <2> QED
    BY <1>15, <2>3, <2>4
<1>7. CASE Resume(t)
  <2>1. c.x \in Task
    BY <1>0, <1>7 DEF Resume, Calls, LegalCall, TaskOp
  <2>2. KernelOK(vTaskResume(k, c.x), k)
    BY <1>0, <2>1, ResumeTaskOK
  <2>3. call[t].at = "call" /\ call'[t].at = "call"
    BY <1>7, <1>14 DEF Resume, Calls, Runs
  <2> QED
    BY <1>7, <1>15, <2>2, <2>3 DEF Resume
<1>8. CASE SetPriority(t)
  <2>1. c.x \in Task /\ c.v \in Prio
    BY <1>0, <1>8 DEF SetPriority, Calls, LegalCall, TaskOp
  <2>2. KernelOK(vTaskPrioritySet(k, c.x, c.v), k)
    BY <1>0, <2>1, PrioritySetOK
  <2>3. call[t].at = "call" /\ call'[t].at = "call"
    BY <1>8, <1>14 DEF SetPriority, Calls, Runs
  <2> QED
    BY <1>8, <1>15, <2>2, <2>3 DEF SetPriority
<1>9. CASE Delete(t)
  <2>1. c.x \in Task
    BY <1>0, <1>9 DEF Delete, Calls, LegalCall, TaskOp
  <2>2. \A u \in Task : KernelOK(vTaskDelete(k, u), k)
    BY <1>0, DeleteOK
  <2>3. \A b : KernelOK(portYIELD_WITHIN_API(configASSERT(vTaskDelete(k, t), b)), k)
    BY <2>2, MovelessOK
  <2>4. (\E b : k' = portYIELD_WITHIN_API(configASSERT(vTaskDelete(k, t), b))) \/ k' = vTaskDelete(k, c.x)
    BY <1>9, Zenon DEF Delete
  <2>5. call[t].at = "call" /\ call'[t].at = "call"
    BY <1>9, <1>14 DEF Delete, Calls, Runs
  <2>6. KernelOK(k', k)
    BY <2>1, <2>2, <2>3, <2>4
  <2> QED
    BY <1>15, <2>5, <2>6
<1>10. CASE AddTask(t)
  <2> DEFINE z == prvAddNewTaskToReadyList(k, c.x, c.v)
  <2>1. c.op = "xTaskCreate" /\ Runs(t, "add")
    BY <1>0, <1>10 DEF AddTask, Runs, FitsAt, CreatePoint, QueuePoint, DaemonPoint
  <2>2. c.x \in Task /\ c.v \in Prio
    BY <1>0, <2>1 DEF LegalCall, TaskOp
  <2>3. Nowhere(k, c.x)
    BY <2>1 DEF NewTasks, Nowhere
  <2>4. KernelOK(z, k)
    BY <1>0, <2>2, <2>3, NewTaskOK
  <2>5. k' = YieldIf(z, k.prio[k.cur] < c.v)
    BY <1>10 DEF AddTask
  <2> HIDE DEF z
  <2>6. \A b : KernelOK(YieldIf(z, b), k)
    BY <2>4, MovelessOK
  <2>7. KernelOK(k', k)
    BY <2>5, <2>6, Zenon
  <2>8. call[t].at = "add" /\ call'[t].at = "call"
    BY <1>10, <1>14 DEF AddTask, Runs, Return, Fresh
  <2> QED
    BY <1>15, <2>7, <2>8
<1>11. CASE Notify(t)
  <2>1. c.x \in Task
    BY <1>0, <1>11 DEF Notify, Calls, LegalCall, TaskOp
  <2>2. KernelOK(xTaskGenericNotify(k, c.x, c.v, c.action), k)
    BY <1>0, <2>1, NotifyOK
  <2>3. call[t].at = "call" /\ call'[t].at = "call"
    BY <1>11, <1>14 DEF Notify, Calls, Runs
  <2> QED
    BY <1>11, <1>15, <2>2, <2>3 DEF Notify
<1>12. CASE AwaitNotification(t)
  <2>1. k.cur \in Task /\ c.ticks \in Time
    BY <1>0, <1>12 DEF AwaitNotification, Calls, Runs, LegalCall, TimedOp, Time
  <2>2. KernelOK(ulTaskNotifyTake(k, c.ticks), k) /\ KernelOK(xTaskNotifyWait(k, c.ticks), k)
    BY <1>0, <2>1, AwaitOK
  <2>3. call[t].at = "call" /\ call'[t].at = "notified"
    BY <1>12, <1>14 DEF AwaitNotification, Calls, Runs
  <2> QED
    BY <1>12, <1>15, <2>2, <2>3 DEF AwaitNotification
<1>13. CASE TakeNotification(t)
  <2>1. KernelOK(NotifyTaken(k, c.v), k) /\ KernelOK(NotifyWaited(k), k)
    BY <1>0, NotedOK
  <2>2. call[t].at = "notified" /\ call'[t].at = "call"
    BY <1>13, <1>14 DEF TakeNotification, Runs
  <2> QED
    BY <1>13, <1>15, <2>1, <2>2 DEF TakeNotification
<1> QED
  BY <1>1, <1>2, <1>3, <1>4, <1>5, <1>6, <1>7, <1>8, <1>9, <1>10, <1>11, <1>12, <1>13, <1>17 DEF ControlStep

LEMMA ReadItemOK ==
    ASSUME NEW z, KernelOK(z, k), NEW t \in Task
    PROVE  KernelOK([z EXCEPT !.bits[t] = NoBits, !.key[t] = configMAX_PRIORITIES - z.prio[t]], k)
<1> DEFINE y == [z EXCEPT !.bits[t] = NoBits, !.key[t] = configMAX_PRIORITIES - z.prio[t]]
<1>1. DOMAIN z = Fields /\ z.prio[t] \in Prio /\ z.key \in [Task -> 1 .. configMAX_PRIORITIES]
  BY DEF KernelOK, KernelAt, Settled, Shape
<1>2. configMAX_PRIORITIES - z.prio[t] \in 1 .. configMAX_PRIORITIES
  BY <1>1, KeyOf
<1>3. DOMAIN y = Fields /\ y.key = [z.key EXCEPT ![t] = configMAX_PRIORITIES - z.prio[t]]
  BY <1>1 DEF Fields
<1>4. \A f \in Fields \ {"key", "bits"} : y[f] = z[f]
  BY <1>1 DEF Fields
<1> HIDE DEF y
<1>5. y.key \in [Task -> 1 .. configMAX_PRIORITIES]
  BY <1>1, <1>2, <1>3
<1>6. /\ y.prio = z.prio /\ y.base = z.base /\ y.pended = z.pended /\ y.events = z.events /\ y.ready = z.ready
      /\ y.wake = z.wake /\ y.tick = z.tick /\ y.overflows = z.overflows /\ y.next = z.next /\ y.top = z.top /\ y.cur = z.cur /\ y.susp = z.susp
      /\ y.delayed = z.delayed /\ y.overflow = z.overflow
      /\ \A l \in Elsewhere : y[l] = z[l]
  BY <1>4 DEF Fields, Elsewhere
<1>7. Shape(y)
  BY <1>3, <1>5, <1>6 DEF KernelOK, KernelAt, Settled, Shape
<1>8. OnePlace(y)
  BY <1>6 DEF KernelOK, KernelAt, Settled, OnePlace, InReady
<1>9. Known(y) /\ Asleep(y, 1) /\ Steady(k, y)
  BY <1>6 DEF KernelOK, KernelAt, Settled, Known, Asleep, Steady, SameTime, InReady
<1>10. KernelOK(y, k)
  BY <1>7, <1>8, <1>9 DEF KernelOK, KernelAt, Settled
<1> QED
  BY <1>10 DEF y

LEMMA GroupStepOK ==
    ASSUME ListsInv, NEW t \in Task, GroupStep(t)
    PROVE  Passes(t)
<1> USE DEF Inside, Resuming
<1> DEFINE c == Now(t)
           z == vTaskSuspendAll(k)
<1>0. KernelOK(k, k) /\ LegalCall(program, c)
  BY CallIsLegal
<1>8. /\ \A at : call' = Goto(t, at) => call'[t].at = at
      /\ \A ok, got : call' = Return(t, ok, got) => call'[t].at = "call"
      /\ DOMAIN call = Task /\ DOMAIN call[t] = DOMAIN Fresh
  BY Places
<1>9. ASSUME KernelOK(k', k), call[t].at \notin Inside, call'[t].at \notin Inside PROVE Passes(t)
  BY <1>9 DEF Passes, Works
<1>10. ASSUME KernelOK(k', z), call[t].at \notin Inside, call'[t].at \in Inside PROVE Passes(t)
  <2>1. Paused(k, k')
    BY <1>0, <1>10, PauseOK
  <2> QED
    BY <1>10, <2>1 DEF Passes, Suspends
<1>1. KernelOK(z, z) /\ z.cur = k.cur
  <2>1. z.cur = k.cur
    BY <1>0 DEF vTaskSuspendAll, KernelOK, KernelAt, Settled, Shape, Fields
  <2> QED
    BY <1>0, <2>1, MovelessOK
<1>2. ASSUME c.x \in Object, NEW b, NEW set
      PROVE  KernelOK(SetBits(z, b, c.x, set).k, z) /\ SetBits(z, b, c.x, set).k.cur = k.cur
  <2> HIDE DEF z
  <2> QED
    BY <1>1, <1>2, SetBitsOK, Own DEF Steady, SameTime
<1>3. CASE EnterGroup(t)
  <2> DEFINE done == (IF c.op = "xEventGroupSync" THEN SetBits(z, g[c.x], c.x, c.set)
                      ELSE [k |-> z, bits |-> g[c.x]]).k
  <2>1. k.cur = t /\ c.op \in GroupOp
    BY <1>3 DEF EnterGroup, Calls, Runs
  <2>2. c.x \in Object /\ c.ticks \in Time
    BY <1>0, <2>1 DEF LegalCall, TimedOp, Time
  <2>3. KernelOK(done, z) /\ done.cur = t
    <3> HIDE DEF z
    <3>1. CASE c.op = "xEventGroupSync"
      BY <1>2, <2>1, <2>2, <3>1
    <3>2. CASE c.op # "xEventGroupSync"
      BY <1>1, <2>1, <3>2
    <3> QED
      BY <3>1, <3>2
  <2>4. \/ k' = done
        \/ c.ticks # 0 /\ k' = vTaskPlaceOnUnorderedEventList(done, WaitingBits(c.x), Wanted(c), c.ticks)
    BY <1>3, Zenon DEF EnterGroup, Entered
  <2> HIDE DEF done, z
  <2>5. c.ticks # 0 =>
            KernelOK(vTaskPlaceOnUnorderedEventList(done, WaitingBits(c.x), Wanted(c), c.ticks), z)
    <3>1. c.ticks # 0 => c.ticks \in 1 .. Ticks - 1
      BY <2>2, TicksAssumption DEF Time
    <3> QED
      BY <2>2, <2>3, <3>1, EventListsOf, PlaceOnUnorderedOK
  <2>6. call[t].at = "call" /\ call'[t].at = "leave"
    <3>1. call[t].at = "call" /\ \E path, got : call' = [call EXCEPT ![t].at = "leave", ![t].path = path, ![t].got = got]
      BY <1>3 DEF EnterGroup, Entered, Calls, Runs
    <3> QED
      BY <1>8, <3>1 DEF Fresh
  <2> HIDE DEF c
  <2>7. KernelOK(k', z)
    BY <2>3, <2>4, <2>5
  <2> QED
    BY <1>10, <2>6, <2>7
<1>4. CASE LeaveGroup(t) \/ ResumeFromSet(t)
  <2>1. Released(k, ResumeAndYield(k)) /\ Released(k, xTaskResumeAll(k).k)
    BY <1>0, ResumeOK
  <2>2. Released(k, k')
    BY <1>4, <2>1 DEF LeaveGroup, ResumeFromSet
  <2>3. call[t].at \in {"leave", "setBits"} /\ call'[t].at \in {"told", "call"}
    BY <1>4, <1>8 DEF LeaveGroup, ResumeFromSet, Runs
  <2> QED
    BY <2>2, <2>3 DEF Passes, Resumes
<1>11. CASE LateForBits(t) \/ xEventGroupClearBits(t)
  <2>1. k' = k /\ call[t].at \in {"lateBits", "call"} /\ call'[t].at = "call"
    BY <1>8, <1>11 DEF LateForBits, xEventGroupClearBits, Calls, Runs
  <2> QED
    BY <1>0, <1>9, <2>1
<1>5. CASE ReadEventItem(t)
  <2>1. KernelOK([k EXCEPT !.bits[t] = NoBits, !.key[t] = configMAX_PRIORITIES - k.prio[t]], k)
    BY <1>0, ReadItemOK
  <2>2. KernelOK(k', k)
    BY <1>5, <2>1, Zenon DEF ReadEventItem
  <2>3. call[t].at = "told" /\ call'[t].at \in {"lateBits", "call"}
    BY <1>5, <1>8 DEF ReadEventItem, Runs
  <2> QED
    BY <1>9, <2>2, <2>3
<1>6. CASE xEventGroupSetBits(t)
  <2>1. c.x \in Object
    BY <1>0, <1>6 DEF xEventGroupSetBits, Calls, LegalCall
  <2>2. k' = SetBits(z, g[c.x], c.x, c.v).k
    BY <1>6 DEF xEventGroupSetBits, BitsSet
  <2>3. call[t].at = "call" /\ call'[t].at = "setBits"
    BY <1>6, <1>8 DEF xEventGroupSetBits, Calls, Runs
  <2> HIDE DEF z
  <2> QED
    BY <1>2, <1>10, <2>1, <2>2, <2>3
<1>7. CASE vEventGroupDelete(t)
  <2> DEFINE l == k.events[WaitingBits(c.x)]
  <2>1. c.x \in Object
    BY <1>0, <1>7 DEF vEventGroupDelete, Calls, LegalCall
  <2>2. l \in Seq(Task)
    BY <1>0, <2>1, EventListsOf DEF KernelOK, KernelAt, Settled, Shape
  <2>3. k' = FoldLeft(TellNothing, z, l)
    BY <1>7, Zenon DEF vEventGroupDelete
  <2> HIDE DEF l, z
  <2>4. KernelOK(FoldLeft(TellNothing, z, l), z)
    BY <1>1, <2>2, TellNobodyOK, Zenon
  <2>5. call[t].at = "call" /\ call'[t].at = "setBits"
    BY <1>7, <1>8 DEF vEventGroupDelete, Calls, Runs
  <2>6. KernelOK(k', z)
    BY <2>3, <2>4, Zenon
  <2> QED
    BY <1>10, <2>5, <2>6
<1> QED
  BY <1>3, <1>4, <1>5, <1>6, <1>7, <1>11 DEF GroupStep

\* Writing and reading leave those who wait alone.
SameWaiters(b, y) == DOMAIN y = DOMAIN b /\ y.toSend = b.toSend /\ y.toReceive = b.toReceive

LEMMA StreamStays ==
    ASSUME NEW b, {"toSend", "toReceive"} \subseteq DOMAIN b, NEW bytes, NEW count
    PROVE  /\ SameWaiters(b, prvWriteBytesToBuffer(b, bytes))
           /\ SameWaiters(b, Write(b, count)) /\ SameWaiters(b, Read(b, count))
           /\ SameWaiters(b, AfterLength(b))
<1>1. \A m : SameWaiters(b, prvWriteBytesToBuffer(b, m))
  BY DEF prvWriteBytesToBuffer, SameWaiters
<1>2. SameWaiters(b, Write(b, count))
  <2> DEFINE w == prvWriteBytesToBuffer(b, Numbered(b, count))
  <2>1. SameWaiters(b, w)
    BY <1>1
  <2> HIDE DEF w
  <2>2. \A v : SameWaiters(b, [w EXCEPT !.in = v])
    BY <2>1 DEF SameWaiters
  <2> QED
    BY <2>2, Zenon DEF Write, w
<1>3. ASSUME NEW a, SameWaiters(b, a), NEW n PROVE SameWaiters(b, prvReadBytesFromBuffer(a, n))
  BY <1>3 DEF SameWaiters, prvReadBytesFromBuffer
<1>4. SameWaiters(b, b)
  BY DEF SameWaiters
<1>5. SameWaiters(b, AfterLength(b))
  BY <1>3, <1>4, Zenon DEF AfterLength
<1>6. SameWaiters(b, Read(b, count))
  <2> DEFINE w == prvReadBytesFromBuffer(b, count)
  <2>1. SameWaiters(b, w)
    BY <1>3, <1>4
  <2> HIDE DEF w
  <2>2. \A v : SameWaiters(b, [w EXCEPT !.out = v])
    BY <2>1 DEF SameWaiters
  <2> QED
    BY <1>4, <2>2, Zenon DEF Read, w
<1> QED
  BY <1>1, <1>2, <1>5, <1>6

LEMMA WaitersStay ==
    ASSUME WaitersOK, SameWaiters(s, s')
    PROVE  WaitersOK'
  BY DEF WaitersOK, SameWaiters

LEMMA WaitersChange ==
    ASSUME WaitersOK, NEW w \in Task \cup {NULL}, s' = [s EXCEPT !.toSend = w] \/ s' = [s EXCEPT !.toReceive = w]
    PROVE  WaitersOK'
  BY DEF WaitersOK

\* The steps of a call for a stream that are critical sections.
LEMMA StreamOutside ==
    ASSUME ListsInv, NEW t \in Task,
           \/ TryToSend(t) \/ WaitForStream(t) \/ EndWaitForStream(t) \/ CheckSendTime(t) \/ WriteToStream(t)
           \/ WriteMessageData(t) \/ TryToReceive(t) \/ LookAfterWait(t) \/ ReadFromStream(t)
           \/ ReadMessageData(t) \/ PutLengthBack(t) \/ xStreamBufferReset(t)
    PROVE  call[t].at \notin Inside /\ call'[t].at \notin Inside
<1> USE DEF Inside, Resuming
<1>0. /\ \A at : call' = Goto(t, at) => call'[t].at = at
      /\ \A ok, got : call' = Return(t, ok, got) => call'[t].at = "call"
      /\ \A at, size : call' = Local(t, at, size) => call'[t].at = at
      /\ DOMAIN call = Task /\ DOMAIN call[t] = DOMAIN Fresh
  BY Places
<1>1. CASE TryToSend(t)
  <2> DEFINE space == xStreamBufferSpacesAvailable(s)
             since == vTaskInternalSetTimeOutState(k)
             timed == IF call[t].at = "call"
                      THEN [call EXCEPT ![t].left = Now(t).ticks, ![t].since = since] ELSE call
  <2>1. /\ call[t].at \in {"call", "sendAgain"}
        /\ \/ call' = Local(t, "write", 0) \/ call' = Local(t, "write", space)
           \/ call' = [timed EXCEPT ![t].at = "sendWait", ![t].size = space]
    BY <1>1 DEF TryToSend, Calls, Runs
  <2> HIDE DEF space, since
  <2>2. CASE call' = [timed EXCEPT ![t].at = "sendWait", ![t].size = space]
    BY <1>0, <2>1, <2>2 DEF Fresh
  <2> QED
    BY <1>0, <2>1, <2>2
<1>2. CASE WaitForStream(t) \/ EndWaitForStream(t) \/ WriteMessageData(t) \/ xStreamBufferReset(t)
  BY <1>0, <1>2 DEF WaitForStream, EndWaitForStream, WriteMessageData, xStreamBufferReset, Calls, Runs
<1>3. CASE CheckSendTime(t)
  <2>1. call[t].at = "sendCheck" /\ \E out, left, since :
           call' = [call EXCEPT ![t].at = IF out THEN "write" ELSE "sendAgain", ![t].left = left, ![t].since = since]
    BY <1>3 DEF CheckSendTime, Runs
  <2> QED
    BY <1>0, <2>1 DEF Fresh
<1>4. CASE WriteToStream(t)
  <2> DEFINE count == Writable(s, Now(t).v, IF call[t].size = 0
                                            THEN xStreamBufferSpacesAvailable(s) ELSE call[t].size)
  <2>1. /\ call[t].at = "write"
        /\ \/ call' = Return(t, FALSE, "timeout")
           \/ \E at \in {"writeData", "sent"} : call' = Local(t, at, count)
    BY <1>4 DEF WriteToStream, Runs
  <2> HIDE DEF count
  <2> QED
    BY <1>0, <2>1
<1>5. CASE TryToReceive(t) \/ LookAfterWait(t) \/ ReadFromStream(t) \/ ReadMessageData(t) \/ PutLengthBack(t)
  <2>1. /\ call[t].at \in {"call", "receiveCheck", "read", "readData", "putBack"}
        /\ \/ \E at \in {"receiveWait", "received"} : call' = Goto(t, at)
           \/ \E at \in {"read", "readData", "putBack"} : \E size : call' = Local(t, at, size)
           \/ \E ok, got : call' = Return(t, ok, got)
    BY <1>5 DEF TryToReceive, LookAfterWait, ReadFromStream, ReadMessageData, PutLengthBack, EndRead, Calls, Runs
  <2> QED
    BY <1>0, <2>1
<1> QED
  BY <1>1, <1>2, <1>3, <1>4, <1>5

LEMMA StreamStepOK ==
    ASSUME ListsInv, NEW t \in Task, StreamStep(t)
    PROVE  Passes(t) /\ WaitersOK'
<1>0. KernelOK(k, k) /\ WaitersOK /\ {"toSend", "toReceive"} \subseteq DOMAIN s
  BY DEF ListsInv, WaitersOK
<1>1. UNCHANGED s => WaitersOK'
  BY <1>0 DEF WaitersOK
<1>2. \A c : KernelOK(configASSERT(xTaskNotifyStateClear(k), c), k)
  <2>1. KernelOK(xTaskNotifyStateClear(k), k)
    BY <1>0, NotedOK
  <2> QED
    BY <2>1, MovelessOK
<1>14. /\ \A at : call' = Goto(t, at) => call'[t].at = at
       /\ \A ok, got : call' = Return(t, ok, got) => call'[t].at = "call"
  BY Places
<1>15. ASSUME KernelOK(k', k), call[t].at \notin Inside, call'[t].at \notin Inside PROVE Passes(t)
  BY <1>15 DEF Passes, Works
<1>16. ASSUME KernelOK(k', vTaskSuspendAll(k)), call[t].at \notin Inside, call'[t].at \in Inside PROVE Passes(t)
  <2>1. Paused(k, k')
    BY <1>0, <1>16, PauseOK
  <2> QED
    BY <1>16, <2>1 DEF Passes, Suspends
<1>3. KernelOK(vTaskSuspendAll(k), vTaskSuspendAll(k))
  BY <1>0, MovelessOK
<1>4. ASSUME NEW w \in Task
      PROVE  KernelOK(xTaskGenericNotify(vTaskSuspendAll(k), w, 0, "eNoAction"), vTaskSuspendAll(k))
  BY <1>3, NotifyOK
<1>5. CASE TryToSend(t)
  <2>1. \/ UNCHANGED <<k, s>>
        \/ s' = [s EXCEPT !.toSend = t] /\ k' = configASSERT(xTaskNotifyStateClear(k), s.toSend = NULL)
    BY <1>5 DEF TryToSend
  <2>2. KernelOK(k', k)
    BY <1>0, <1>2, <2>1
  <2>3. WaitersOK'
    BY <1>0, <1>1, <2>1, WaitersChange
  <2>4. call[t].at \notin Inside /\ call'[t].at \notin Inside
    BY <1>5, StreamOutside
  <2> QED
    BY <1>15, <2>2, <2>3, <2>4
<1>6. CASE TryToReceive(t)
  <2>1. \/ UNCHANGED <<k, s>>
        \/ s' = [s EXCEPT !.toReceive = t] /\ k' = configASSERT(xTaskNotifyStateClear(k), s.toReceive = NULL)
    BY <1>6 DEF TryToReceive
  <2>2. KernelOK(k', k)
    BY <1>0, <1>2, <2>1
  <2>3. WaitersOK'
    BY <1>0, <1>1, <2>1, WaitersChange
  <2>4. call[t].at \notin Inside /\ call'[t].at \notin Inside
    BY <1>6, StreamOutside
  <2> QED
    BY <1>15, <2>2, <2>3, <2>4
<1>7. CASE WaitForStream(t)
  <2>1. k.cur \in Task /\ (call[t].at = "sendWait" \/ call[t].at = "receiveWait")
    BY <1>7 DEF WaitForStream, Runs
  <2>2. \A ticks \in Time : KernelOK(xTaskNotifyWait(k, ticks), k)
    BY <1>0, <2>1, AwaitOK
  <2>3. /\ UNCHANGED s
        /\ k' = xTaskNotifyWait(k, IF call[t].at = "sendWait" THEN call[t].left ELSE Now(t).ticks)
    BY <1>7, Zenon DEF WaitForStream
  <2>4. (call[t].at = "receiveWait" => Now(t).ticks \in Time) /\ call[t].left \in Time
    BY <2>1, CallIsLegal DEF LegalCall, TimedOp, StampOK, StampAt, RecordOK, Time
  <2>5. KernelOK(k', k)
    BY <2>1, <2>2, <2>3, <2>4
  <2> QED
    BY <1>1, <1>7, <1>15, <2>3, <2>5, StreamOutside
<1>8. CASE EndWaitForStream(t)
  <2>1. KernelOK(k', k) /\ UNCHANGED s
    BY <1>0, <1>8, NotedOK DEF EndWaitForStream
  <2> QED
    BY <1>1, <1>8, <1>15, <2>1, StreamOutside
<1>17. CASE ResumeFromStream(t)
  <2>1. Released(k, k') /\ UNCHANGED s
    BY <1>0, <1>17, ResumeOK DEF ResumeFromStream
  <2>2. call[t].at = "streamDone" /\ call'[t].at = "call"
    BY <1>14, <1>17 DEF ResumeFromStream, Runs
  <2> QED
    BY <1>1, <2>1, <2>2 DEF Passes, Resumes, Inside, Resuming
<1>9. CASE CheckSendTime(t) \/ LookAfterWait(t)
  <2>1. UNCHANGED k /\ (s' = [s EXCEPT !.toSend = NULL] \/ s' = [s EXCEPT !.toReceive = NULL])
    BY <1>9 DEF CheckSendTime, LookAfterWait
  <2> QED
    BY <1>0, <1>9, <1>15, <2>1, StreamOutside, WaitersChange
<1>10. CASE \/ WriteToStream(t) \/ WriteMessageData(t)
            \/ ReadFromStream(t) \/ ReadMessageData(t) \/ PutLengthBack(t)
  <2>1. UNCHANGED k
    BY <1>10 DEF WriteToStream, WriteMessageData, ReadFromStream, ReadMessageData, PutLengthBack
  <2>2. \/ UNCHANGED s
        \/ \E m : s' = prvWriteBytesToBuffer(s, m)
        \/ \E n : s' = Write(s, n) \/ s' = Read(s, n) \/ s' = [s EXCEPT !.tail = n]
        \/ s' = AfterLength(s)
    BY <1>10, Zenon DEF WriteToStream, WriteMessageData, ReadFromStream, ReadMessageData, PutLengthBack
  <2>3. \A n : SameWaiters(s, [s EXCEPT !.tail = n])
    BY <1>0 DEF SameWaiters
  <2>4. UNCHANGED s \/ SameWaiters(s, s')
    BY <1>0, <2>2, <2>3, StreamStays
  <2> QED
    BY <1>0, <1>1, <1>10, <1>15, <2>1, <2>4, StreamOutside, WaitersStay
<1>11. CASE NotifyReceiver(t)
  <2>1. /\ call[t].at = "sent"
        /\ \/ UNCHANGED <<k, s>> /\ call'[t].at = "call"
           \/ /\ s' = [s EXCEPT !.toReceive = NULL] /\ call'[t].at = "streamDone"
              /\ k' = IF s.toReceive = NULL THEN vTaskSuspendAll(k)
                      ELSE xTaskGenericNotify(vTaskSuspendAll(k), s.toReceive, 0, "eNoAction")
    BY <1>11, <1>14 DEF NotifyReceiver, Runs
  <2>2. s.toReceive \in Task \cup {NULL}
    BY <1>0 DEF WaitersOK
  <2>3. CASE UNCHANGED <<k, s>> /\ call'[t].at = "call"
    BY <1>0, <1>1, <1>15, <2>1, <2>3 DEF Inside, Resuming
  <2>4. CASE /\ s' = [s EXCEPT !.toReceive = NULL] /\ call'[t].at = "streamDone"
             /\ k' = IF s.toReceive = NULL THEN vTaskSuspendAll(k)
                     ELSE xTaskGenericNotify(vTaskSuspendAll(k), s.toReceive, 0, "eNoAction")
    <3>1. KernelOK(k', vTaskSuspendAll(k))
      BY <1>3, <1>4, <2>2, <2>4
    <3>2. WaitersOK'
      BY <1>0, <2>4, WaitersChange
    <3> QED
      BY <1>16, <2>1, <2>4, <3>1, <3>2 DEF Inside, Resuming
  <2> QED
    BY <2>1, <2>3, <2>4
<1>12. CASE NotifySender(t)
  <2>1. /\ s' = [s EXCEPT !.toSend = NULL]
        /\ k' = IF s.toSend = NULL THEN vTaskSuspendAll(k)
                ELSE xTaskGenericNotify(vTaskSuspendAll(k), s.toSend, 0, "eNoAction")
    BY <1>12 DEF NotifySender
  <2>2. s.toSend \in Task \cup {NULL}
    BY <1>0 DEF WaitersOK
  <2>3. call[t].at = "received" /\ call'[t].at = "streamDone"
    BY <1>12, <1>14 DEF NotifySender, Runs
  <2>4. KernelOK(k', vTaskSuspendAll(k))
    BY <1>3, <1>4, <2>1, <2>2
  <2>5. WaitersOK'
    BY <1>0, <2>1, WaitersChange
  <2> QED
    BY <1>16, <2>3, <2>4, <2>5 DEF Inside, Resuming
<1>13. CASE xStreamBufferReset(t)
  <2>1. UNCHANGED k
    BY <1>13 DEF xStreamBufferReset
  <2>2. \/ UNCHANGED s
        \/ s' = [prvInitialiseNewStreamBuffer(s.length, s.trigger, s.message) EXCEPT !.in = s.in, !.out = s.in]
    BY <1>13 DEF xStreamBufferReset
  <2>3. UNCHANGED s \/ ({"toSend", "toReceive"} \subseteq DOMAIN s' /\ s'.toSend = NULL /\ s'.toReceive = NULL)
    BY <2>2 DEF prvInitialiseNewStreamBuffer
  <2>4. WaitersOK'
    BY <1>1, <2>3 DEF WaitersOK
  <2> QED
    BY <1>0, <1>13, <1>15, <2>1, <2>4, StreamOutside
<1> QED
  BY <1>5, <1>6, <1>7, <1>8, <1>9, <1>10, <1>11, <1>12, <1>13, <1>17 DEF StreamStep

\* What the daemon hands back.
LEMMA AdoptOK ==
    ASSUME QueuesOK, NEW z, NEW from, DaemonOK(z, from, Timer), Adopt(z)
    PROVE  KernelOK(k', from) /\ QueuesKept /\ TimersOK(tm', Timer)
<1>1. KernelOK(z.k, from) /\ BoxOK(TimerQueue, z.b) /\ TimersOK(z.tm, Timer)
  BY DEF DaemonOK, BoxOK
<1> QED
  BY <1>1, OneQueue DEF Adopt

LEMMA TimerStepOK ==
    ASSUME ListsInv, NEW t \in Task, TimerStep(t)
    PROVE  Passes(t) /\ QueuesKept /\ TimersOK(tm', Timer) /\ Sampled'
<1> USE DEF Inside, Resuming
<1>0. /\ KernelOK(k, k) /\ QueuesOK /\ TimersOK(tm, Timer) /\ FitsAt(Now(t), call[t].at)
      /\ StampsInv /\ Sampled /\ k.tick \in Time
  BY CallIsLegal, InTime DEF ListsInv
<1>1. k.cur = t /\ Now(t).op = "prvTimerTask"
  BY <1>0, DaemonSteps
<1>2. TimerQueue \in Object /\ QueueOK(q[TimerQueue]) /\ MailOK(q[TimerQueue], Timer)
  BY <1>1, DaemonsQueue
<1>3. DaemonOK(Daemons, k, Timer)
  BY <1>0, <1>2 DEF DaemonOK, Daemons
<1>4. Sampled'
  BY <1>0, <1>2, <1>3, DaemonSampled
<1>10. /\ \A at : call' = Goto(t, at) => call'[t].at = at
       /\ DOMAIN call = Task /\ DOMAIN call[t] = DOMAIN Fresh
  BY Places
<1>11. ASSUME KernelOK(k', k), call[t].at \notin Inside, call'[t].at \notin Inside PROVE Passes(t)
  BY <1>11 DEF Passes, Works
<1>5. CASE ExpireOrBlock(t)
  <2> DEFINE before == [Daemons EXCEPT !.k = vTaskSuspendAll(@)]
             z == vTaskSuspendAll(k)
             b == prvLockQueue(q[TimerQueue])
             empty == tm.current = <<>>
             expiry == IF empty THEN 0 ELSE tm.expiry[Head(tm.current)]
             forever == empty /\ tm.overflow = <<>>
             ahead == Since(expiry, k.tick)
  <2>1. KernelOK(z, z) /\ z.cur = t /\ z.tick = k.tick
    <3>1. z.cur = k.cur /\ z.tick = k.tick
      BY <1>0 DEF vTaskSuspendAll, KernelOK, KernelAt, Settled, Shape, Fields
    <3> QED
      BY <1>0, <1>1, <3>1, MovelessOK
  <2>7. call[t].at = "call" /\ call'[t].at \in {"unlockTx", "sampled"}
    <3>1. \/ call' = [call EXCEPT ![t].at = "unlockTx", ![t].path = "blocked"]
          \/ \E path : call' = [call EXCEPT ![t].at = "sampled", ![t].size = k.tick, ![t].path = path]
      BY <1>5, Zenon DEF ExpireOrBlock
    <3>2. call[t].at = "call"
      BY <1>5 DEF ExpireOrBlock, Calls, Runs
    <3> QED
      BY <1>10, <3>1, <3>2 DEF Fresh
  <2>8. KernelOK(k', z) => Passes(t)
    BY <1>0, <2>7, PauseOK DEF Passes, Suspends
  <2> HIDE DEF z
  <2>2. before.k = z /\ before.tm = tm /\ DaemonOK(before, z, Timer)
    BY <1>0, <1>2, <2>1 DEF DaemonOK, Daemons, z
  <2>3. BoxOK(TimerQueue, b)
    <3>1. QueueOK(b)
      BY <1>2, CopyOK DEF Position
    <3>2. \A f \in QueueFields \ {"rx", "tx"} : b[f] = q[TimerQueue][f]
      BY <1>2 DEF prvLockQueue, QueueOK, QueueFields
    <3>3. BoxOK(TimerQueue, q[TimerQueue])
      BY <1>2 DEF BoxOK
    <3> HIDE DEF b
    <3> QED
      BY <3>1, <3>2, <3>3, SameBox
  <2>4. \/ /\ ~Switched(before) /\ ~(~empty /\ expiry <= k.tick)
           /\ k' \in {vTaskPlaceOnEventListRestricted(before.k, Receiving(TimerQueue), ahead, forever), before.k}
           /\ q' = [q EXCEPT ![TimerQueue] = b]
           /\ tm' = [tm EXCEPT !.last = k.tick]
        \/ Adopt(prvSampleTimeNow(before))
    <3>1. q' = [q EXCEPT ![TimerQueue] = prvLockQueue(@)] => q' = [q EXCEPT ![TimerQueue] = b]
      OBVIOUS
    <3>2. \/ /\ ~Switched(before) /\ ~(~empty /\ expiry <= k.tick)
             /\ k' = IF prvIsQueueEmpty(q[TimerQueue])
                     THEN vTaskPlaceOnEventListRestricted(before.k, Receiving(TimerQueue), ahead, forever)
                     ELSE before.k
             /\ q' = [q EXCEPT ![TimerQueue] = prvLockQueue(@)]
             /\ tm' = [tm EXCEPT !.last = k.tick]
          \/ Adopt(prvSampleTimeNow(before))
      BY <1>5, Zenon DEF ExpireOrBlock
    <3> HIDE DEF before, b, expiry, forever, ahead, empty
    <3> QED
      BY <3>1, <3>2
  <2> HIDE DEF before, b
  <2>5. CASE Adopt(prvSampleTimeNow(before))
    <3>1. DaemonOK(prvSampleTimeNow(before), z, Timer)
      BY <1>2, <2>2, SampleOK
    <3> QED
      BY <1>0, <1>4, <2>5, <2>8, <3>1, AdoptOK
  <2>6. CASE /\ ~Switched(before) /\ ~(~empty /\ expiry <= k.tick)
             /\ k' \in {vTaskPlaceOnEventListRestricted(before.k, Receiving(TimerQueue), ahead, forever), before.k}
             /\ q' = [q EXCEPT ![TimerQueue] = b]
             /\ tm' = [tm EXCEPT !.last = k.tick]
    <3>1. ~(k.tick < tm.last) /\ tm.last \in Time /\ (tm.overflow # <<>> => tm.last > 0)
      BY <1>0, <2>1, <2>2, <2>6 DEF Switched, TimersOK
    <3>2. TimersOK([tm EXCEPT !.last = k.tick], Timer)
      <4> DEFINE m == [tm EXCEPT !.last = k.tick]
      <4>1. DOMAIN m = TimerFields /\ m.last = k.tick /\ \A f \in TimerFields \ {"last"} : m[f] = tm[f]
        BY <1>0 DEF TimersOK, TimerFields
      <4>2. tm.overflow # <<>> => k.tick > 0
        BY <1>0, <3>1 DEF Time
      <4> HIDE DEF m
      <4>3. TimersOK(m, Timer)
        BY <1>0, <4>1, <4>2 DEF TimersOK, TimerFields
      <4> QED
        BY <4>3 DEF m
    <3>3. ~forever => ahead \in 1 .. Ticks - 1
      <4>1. expiry \in Time
        <5>1. ~empty => Head(tm.current) \in Timer
          BY <1>0 DEF TimersOK
        <5> QED
          BY <1>0, <5>1, TicksAssumption DEF TimersOK, Time
      <4>2. ~forever => expiry # k.tick
        BY <1>0, <2>6, <3>1, <4>1 DEF Time
      <4> HIDE DEF expiry, forever
      <4> QED
        BY <1>0, <4>1, <4>2, StillAhead DEF Since
    <3> HIDE DEF forever, ahead
    <3>4. KernelOK(vTaskPlaceOnEventListRestricted(z, Receiving(TimerQueue), ahead, forever), z)
      BY <1>2, <2>1, <3>3, EventListsOf, PlaceRestrictedOK
    <3>5. KernelOK(k', z)
      BY <2>1, <2>2, <2>6, <3>4
    <3>6. QueuesKept
      BY <1>0, <2>3, <2>6, OneQueue
    <3> QED
      BY <1>4, <2>6, <2>8, <3>2, <3>5, <3>6
  <2> QED
    BY <2>4, <2>5, <2>6
<1>6. CASE ResumeDaemon(t)
  <2>1. Released(k, k') /\ UNCHANGED <<q, tm>>
    BY <1>0, <1>6, ResumeOK DEF ResumeDaemon
  <2>2. call[t].at = "sampled" /\ call'[t].at \in {"expire", "again"}
    BY <1>6, <1>10 DEF ResumeDaemon, Runs
  <2> QED
    BY <1>0, <1>4, <2>1, <2>2, SameQueues DEF Passes, Resumes
<1>7. CASE prvProcessExpiredTimer(t)
  <2> DEFINE x == Head(tm.current)
             at == tm.expiry[x]
             out == RemoveTimer(tm, x)
             expiry == (at + tm.period[x]) % Ticks
             set == prvInsertTimerInActiveList(out, x, expiry, call[t].size, at)
             z == [Daemons EXCEPT !.tm = set.m]
             sent == SendToSelf(z, "tmrCOMMAND_START_DONT_TRACE", x, at)
             off == [out EXCEPT !.active[x] = FALSE]
             still == [z EXCEPT !.tm = off]
             queued == IF set.late THEN sent ELSE z
             reloaded == IF tm.auto[x] THEN queued ELSE still
  <2>1. Adopt([reloaded EXCEPT !.tm = pxCallbackFunction(@, x)])
    BY <1>7, Zenon DEF prvProcessExpiredTimer
  <2>2. call[t].size = tm.last /\ tm.current # <<>>
    BY <1>0, <1>7 DEF prvProcessExpiredTimer, Runs, Sampled, DaemonTime
  <2>3. x \in Timer /\ at \in Time
    <3>1. x \in Timer
      BY <1>0, <2>2 DEF TimersOK
    <3> QED
      BY <1>0, <3>1 DEF TimersOK
  <2>4. TimersOK(out, Timer) /\ out.last = tm.last /\ out.period = tm.period
    <3>1. out.period = tm.period
      BY <1>0 DEF RemoveTimer, TimersOK, TimerFields
    <3> QED
      BY <1>0, <3>1, RemovedTimer
  <2> HIDE DEF out, x, at
  <2>5. TimersOK(set.m, Timer) /\ TimersOK(off, Timer)
    <3>1. \A v : TimersOK([out EXCEPT !.active[x] = v], Timer)
      BY <2>4, CalledBack, Zenon
    <3>2. expiry = (at + out.period[x]) % Ticks /\ set.m = prvInsertTimerInActiveList(out, x, expiry, out.last, at).m
      BY <2>2, <2>4
    <3> HIDE DEF set, expiry
    <3>3. TimersOK(set.m, Timer)
      BY ONLY <2>3, <2>4, <3>2, InsertTimerOK
    <3> QED
      BY <3>1, <3>3
  <2> HIDE DEF set, off
  <2>6. DaemonOK(z, k, Timer)
    BY <1>3, <2>5, WithTimersOK
  <2> HIDE DEF z
  <2>7. DaemonOK(sent, k, Timer) /\ DaemonOK(still, k, Timer)
    BY <1>2, <2>3, <2>5, <2>6, SendToSelfOK, WithTimersOK
  <2> HIDE DEF sent, still
  <2>8. reloaded \in {sent, z, still}
    OBVIOUS
  <2> HIDE DEF reloaded
  <2>9. DaemonOK(reloaded, k, Timer)
    BY <2>6, <2>7, <2>8
  <2>10. TimersOK(pxCallbackFunction(reloaded.tm, x), Timer)
    BY <2>9, CalledBack DEF DaemonOK
  <2>11. DaemonOK([reloaded EXCEPT !.tm = pxCallbackFunction(reloaded.tm, x)], k, Timer)
    BY <2>9, <2>10, WithTimersOK
  <2>12. call[t].at = "expire" /\ call'[t].at = "again"
    <3>1. call[t].at = "expire" /\ call' = [call EXCEPT ![t].at = "again", ![t].size = 0]
      BY <1>7, Zenon DEF prvProcessExpiredTimer, Runs
    <3> QED
      BY <1>10, <3>1 DEF Fresh
  <2> QED
    BY <1>0, <1>4, <1>11, <2>1, <2>11, <2>12, AdoptOK
<1>8. CASE ReceiveCommand(t)
  <2> DEFINE b == q[TimerQueue]
             done == Received(k, b, TimerQueue)
             next == [tm EXCEPT !.message = First(b)]
  <2>1. UNCHANGED <<k, q, tm>>
        \/ (b.n # 0 /\ k' = done.k /\ q' = [q EXCEPT ![TimerQueue] = done.b] /\ tm' = next)
    BY <1>8 DEF ReceiveCommand, Fetch, prvIsQueueEmpty
  <2>2. b.n # 0 => KernelOK(done.k, k) /\ BoxOK(TimerQueue, done.b)
    BY <1>0, <1>1, <1>2, ReceivedOK, BoxReceived DEF BoxOK
  <2>3. b.n # 0 => TimersOK(next, Timer)
    <3>1. b.n # 0 => MessageOK(First(b), Timer)
      BY <1>2, MailRead
    <3>2. DOMAIN next = TimerFields /\ next.message = First(b) /\ \A f \in TimerFields \ {"message"} : next[f] = tm[f]
      BY <1>0 DEF TimersOK, TimerFields
    <3> HIDE DEF b, next
    <3> QED
      BY <1>0, <3>1, <3>2 DEF TimersOK, TimerFields
  <2>4. call[t].at = "again" /\ call'[t].at \in {"call", "command received"}
    <3>1. call[t].at = "again"
          /\ (call' = [call EXCEPT ![t] = Fresh] \/ call' = Goto(t, "command received"))
      BY <1>8 DEF ReceiveCommand, Runs
    <3>2. call' = [call EXCEPT ![t] = Fresh] => call'[t].at = "call"
      BY <1>10, FreshStamp
    <3> QED
      BY <1>10, <3>1, <3>2
  <2> HIDE DEF b, done, next
  <2> QED
    BY <1>0, <1>4, <1>11, <2>1, <2>2, <2>3, <2>4, OneQueue, SameQueues
<1>9. CASE ProcessCommand(t)
  <2> DEFINE c == tm.message
             x == c.timer
             y == [Daemons EXCEPT !.tm = RemoveTimer(@, x)]
             z == prvSampleTimeNow(y)
  <2>1. Execute(z, c)
    BY <1>9, Zenon DEF ProcessCommand
  <2>2. TimersOK(RemoveTimer(tm, x), Timer)
    BY <1>0, RemovedTimer
  <2>3. DaemonOK(y, k, Timer)
    BY <1>3, <2>2 DEF DaemonOK, Daemons
  <2> HIDE DEF y
  <2>4. DaemonOK(z, k, Timer) /\ TimersOK(z.tm, Timer) /\ z.tm.last = k.tick /\ z.k.tick = k.tick
    <3>1. DaemonOK(z, k, Timer) /\ z.tm.last = k.tick
      BY <1>2, <2>3, SampleOK
    <3> QED
      BY <3>1 DEF DaemonOK, KernelOK, KernelAt, Settled, Steady, SameTime
  <2>5. c.id # "none" => x \in Timer /\ c.value \in Time /\ (c.id = "tmrCOMMAND_CHANGE_PERIOD" => c.value # 0)
    BY <1>0 DEF TimersOK, MessageOK
  <2> HIDE DEF z
  <2> DEFINE m == [z.tm EXCEPT !.active[x] = TRUE]
             off == [z.tm EXCEPT !.active[x] = FALSE]
             expiry == (c.value + z.tm.period[x]) % Ticks
             set == prvInsertTimerInActiveList(m, x, expiry, z.k.tick, c.value)
  <2>6. TimersOK(m, Timer) /\ m.last = z.tm.last /\ TimersOK(off, Timer) /\ m.period = z.tm.period
    <3>1. m.period = z.tm.period
      BY <2>4 DEF TimersOK, TimerFields
    <3>2. ASSUME NEW v PROVE TimersOK([z.tm EXCEPT !.active[x] = v], Timer)
      BY <2>4, CalledBack, Zenon
    <3>3. ASSUME NEW v PROVE [z.tm EXCEPT !.active[x] = v].last = z.tm.last
      BY <2>4, CalledBack
    <3> QED
      BY <3>1, <3>2, <3>3, Zenon
  <2>7. \/ c.id \in Start /\ Adopt(Started(z, x, c.value, set))
        \/ c.id = "tmrCOMMAND_CHANGE_PERIOD" /\ Adopt(PeriodChanged(z, x, c.value))
        \/ Adopt([z EXCEPT !.tm = off])
    <3>1. [z EXCEPT !.tm.active[x] = FALSE] = [z EXCEPT !.tm = off]
      BY DEF off
    <3> QED
      BY <2>1, <3>1, Zenon DEF Execute, m
  <2> HIDE DEF m, off, c, x
  <2>8. c.id # "none" => TimersOK(set.m, Timer)
    BY <2>4, <2>5, <2>6, InsertTimerOK
  <2> HIDE DEF set
  <2>9. c.id \in Start => DaemonOK(Started(z, x, c.value, set), k, Timer)
    BY <1>2, <2>4, <2>5, <2>8, StartedOK DEF Start
  <2>10. c.id = "tmrCOMMAND_CHANGE_PERIOD" => DaemonOK(PeriodChanged(z, x, c.value), k, Timer)
    BY <2>4, <2>5, PeriodChangedOK
  <2>11. DaemonOK([z EXCEPT !.tm = off], k, Timer)
    BY <2>4, <2>6, WithTimersOK
  <2>12. call[t].at = "command received" /\ call'[t].at = "again"
    BY <1>9, <1>10 DEF ProcessCommand, Runs
  <2>13. KernelOK(k', k) /\ QueuesKept /\ TimersOK(tm', Timer)
    BY <1>0, <2>7, <2>9, <2>10, <2>11, AdoptOK
  <2> QED
    BY <1>4, <1>11, <2>12, <2>13
<1> QED
  BY <1>5, <1>6, <1>7, <1>8, <1>9 DEF TimerStep

----------------------------------------------------------------------------
(* The idle task and the interrupts                                         *)

LEMMA IdleStepOK ==
    ASSUME ListsInv, IdleStep
    PROVE  Passes(Idle)
<1> USE DEF Inside, Resuming
<1>0. KernelOK(k, k) /\ Idle \in Task
  BY PriorityAssumption DEF ListsInv
<1>6. /\ \A at : call' = Goto(Idle, at) => call'[Idle].at = at
      /\ DOMAIN call = Task /\ DOMAIN call[Idle] = DOMAIN Fresh
  BY <1>0, Places
<1>7. ASSUME KernelOK(k', k), call[Idle].at \notin Inside, call'[Idle].at \notin Inside PROVE Passes(Idle)
  BY <1>7 DEF Passes, Works
<1>1. KernelOK(vTaskSuspendAll(k), vTaskSuspendAll(k)) /\ Released(k, xTaskResumeAll(k).k)
      /\ \A b : KernelOK(YieldIf(k, b), k)
  BY <1>0, MovelessOK, ResumeOK
<1>2. k.dying # <<>> => KernelOK(prvCheckTasksWaitingTermination(k), k)
  BY <1>0, TerminationOK
<1>3. CASE CleanUp
  <2>1. KernelOK(k', k)
    BY <1>2, <1>3 DEF CleanUp
  <2>2. call[Idle].at = "call" /\ call'[Idle].at = "freeStack"
    <3>1. call[Idle].at = "call" /\ \E x : call' = [call EXCEPT ![Idle].at = "freeStack", ![Idle].got = x]
      BY <1>3 DEF CleanUp, Runs
    <3> QED
      BY <1>0, <1>6, <3>1 DEF Fresh
  <2> QED
    BY <1>7, <2>1, <2>2
<1>4. CASE FreeDead
  <2>1. Paused(k, k')
    BY <1>0, <1>1, <1>4, PauseOK DEF FreeDead
  <2>2. call[Idle].at \in {"freeStack", "freeTcb"} /\ call'[Idle].at \in {"freedStack", "freedTcb"}
    BY <1>4, <1>6 DEF FreeDead, Runs
  <2> QED
    BY <2>1, <2>2 DEF Passes, Suspends
<1>8. CASE ResumeFromFree
  <2>1. Released(k, k')
    BY <1>1, <1>8 DEF ResumeFromFree
  <2>2. call[Idle].at \in {"freedStack", "freedTcb"} /\ call'[Idle].at \in {"freeTcb", "call"}
    <3>1. /\ call[Idle].at \in {"freedStack", "freedTcb"}
          /\ call' = Goto(Idle, "freeTcb") \/ call' = [call EXCEPT ![Idle] = Fresh]
      BY <1>8 DEF ResumeFromFree, Runs
    <3> QED
      BY <1>0, <1>6, <3>1 DEF Fresh
  <2> QED
    BY <2>1, <2>2 DEF Passes, Resumes
<1>5. CASE IdleYield
  <2>1. k' = YieldIf(k, Len(k.ready[0].items) > 1)
    BY <1>5 DEF IdleYield
  <2>2. KernelOK(k', k)
    BY <1>1, <2>1, Zenon
  <2>3. call[Idle].at = "call" /\ call'[Idle].at = "call"
    BY <1>5 DEF IdleYield, Runs
  <2> QED
    BY <1>7, <2>2, <2>3
<1> QED
  BY <1>3, <1>4, <1>5, <1>8 DEF IdleStep

LEMMA SysTickOK ==
    ASSUME ListsInv, xPortSysTickHandler
    PROVE  /\ KernelOK(k', k') /\ Rests(k, k')
           /\ k.susp > 0 => k'.tick = k.tick /\ k'.overflows = k.overflows /\ k'.pended = k.pended + 1
           /\ ~(k.susp > 0) => NextTick(k, k') /\ k'.pended = k.pended
           /\ TimersOK(tm', Timer) /\ tm'.last = tm.last /\ tm'.current = tm.current
<1> DEFINE r == xTaskIncrementTick(k)
<1>0. KernelOK(k, k)
  BY DEF ListsInv
<1>1. /\ KernelOK(r.k, r.k) /\ Rests(k, r.k)
      /\ k.susp > 0 => r.k.tick = k.tick /\ r.k.overflows = k.overflows /\ r.k.pended = k.pended + 1
      /\ ~(k.susp > 0) => NextTick(k, r.k) /\ r.k.pended = k.pended
  BY <1>0, TickOK, TickTime
<1>2. k' = YieldIf(r.k, r.switch) /\ tm' = Aged
  BY DEF xPortSysTickHandler
<1> HIDE DEF r
<1>3. \A b : KernelOK(YieldIf(r.k, b), r.k)
  BY <1>1, MovelessOK
<1>7. KernelOK(k', r.k)
  BY <1>2, <1>3, Zenon
<1>8. KernelOK(k', k') /\ Steady(r.k, k')
  BY <1>7, Own
<1>4. /\ KernelOK(k', k') /\ Rests(k, k')
      /\ k.susp > 0 => k'.tick = k.tick /\ k'.overflows = k.overflows /\ k'.pended = k.pended + 1
      /\ ~(k.susp > 0) => NextTick(k, k') /\ k'.pended = k.pended
  BY <1>1, <1>8 DEF Steady, SameTime, Rests, NextTick
<1>5. ASSUME NEW v \in [Timer -> Int]
      PROVE  TimersOK([tm EXCEPT !.age = v], Timer) /\ [tm EXCEPT !.age = v].last = tm.last
             /\ [tm EXCEPT !.age = v].current = tm.current
  <2>1. TimersOK(tm, Timer)
    BY DEF ListsInv
  <2>2. TimersOK([tm EXCEPT !.age = v], Timer)
    BY <2>1, CalledBack, Zenon
  <2> QED
    BY <2>1, <2>2 DEF TimersOK, TimerFields
<1>6. \E v \in [Timer -> Int] : tm' = [tm EXCEPT !.age = v]
  <2> DEFINE v == [x \in DOMAIN tm.age |-> IF tm.active[x] /\ tm.age[x] < 2 * Ticks THEN tm.age[x] + 1 ELSE tm.age[x]]
  <2>1. tm.age \in [Timer -> Int]
    BY DEF ListsInv, TimersOK
  <2>2. v \in [Timer -> Int]
    BY <2>1
  <2>3. tm' = [tm EXCEPT !.age = v]
    BY <1>2, Zenon DEF Aged
  <2> QED
    BY <2>2, <2>3
<1> QED
  BY <1>4, <1>5, <1>6, Zenon

LEMMA PendSVOK ==
    ASSUME ListsInv, xPortPendSVHandler
    PROVE  KernelOK(k', k') /\ k'.susp = k.susp /\ (k.susp > 0 => k'.cur = k.cur) /\ SameTime(k, k')
<1> DEFINE z == [k EXCEPT !.pendsv = FALSE]
<1>1. KernelOK(z, k)
  BY FreeFieldsOK DEF ListsInv
<1>2. k' = vTaskSwitchContext(z)
  BY DEF xPortPendSVHandler
<1> HIDE DEF z
<1>3. Steady(k, z)
  BY <1>1, Own
<1>4. KernelOK(k', k') /\ k'.susp = z.susp /\ (z.susp > 0 => k'.cur = z.cur) /\ SameTime(z, k')
  BY <1>1, <1>2, SwitchOK
<1> QED
  BY <1>3, <1>4 DEF Steady, SameTime

LEMMA NotifyWaitingOK ==
    ASSUME KernelOK(k, k), NEW w \in Task \cup {NULL}
    PROVE  KernelOK(NotifyWaiting(w), k)
<1>1. w # NULL => KernelOK(xTaskGenericNotifyFromISR(k, w, 0, "eNoAction"), k)
  BY NotifyOK
<1> QED
  BY <1>1, Zenon DEF NotifyWaiting

LEMMA HandlerOK ==
    ASSUME ListsInv, NEW c \in App[program].handlers, Handler(c)
    PROVE  KernelOK(k', k) /\ (QueuesKept \/ UNCHANGED q) /\ (WaitersOK' \/ UNCHANGED s)
<1>0. KernelOK(k, k) /\ QueuesOK /\ WaitersOK /\ program \in Program
  BY DEF ListsInv
<1>1. IF c.op # "xTimerGenericCommand" THEN LegalCall(program, c)
      ELSE HasQueue(program, TimerQueue) /\ c.x \in Timer /\ c.v # "tmrCOMMAND_CHANGE_PERIOD"
  <2>1. LegalHandler(program, c)
    BY <1>0, AppAssumption, Zenon
  <2> QED
    BY <2>1 DEF LegalHandler, Timer
<1>2. ASSUME NEW x, HasQueue(program, x) PROVE x \in Object /\ BoxOK(x, q[x]) /\ QueueOK(q[x])
  BY <1>0, <1>2 DEF HasQueue, QueuesOK, BoxOK
<1>3. ASSUME NEW x, HasQueue(program, x), NEW v, NEW position \in Position, SendFromISR(x, v, position),
             x = TimerQueue => MessageOK(v, Timer) /\ position = "queueSEND_TO_BACK"
      PROVE  KernelOK(k', k) /\ QueuesKept
  <2> DEFINE done == SentFromISR(k, q[x], x, v, position)
  <2>0. x = TimerQueue => q[x].n # q[x].length
    BY <1>3 DEF SendFromISR, prvIsQueueFull
  <2>1. KernelOK(done.k, k) /\ BoxOK(x, done.b)
    BY <1>0, <1>2, <1>3, <2>0, SentOK, BoxSent
  <2>2. k' = done.k /\ q' = [q EXCEPT ![x] = done.b]
    BY <1>3 DEF SendFromISR, Becomes
  <2> HIDE DEF done
  <2> QED
    BY <1>0, <2>1, <2>2, OneQueue
<1>4. CASE c.op = "xQueueGenericSendFromISR" /\ SendFromISR(c.x, c.v, c.position) /\ UNCHANGED <<h, s>>
  <2>1. HasQueue(program, c.x) /\ c.position \in Position /\ c.x # TimerQueue
    BY <1>1, <1>4 DEF LegalCall, OtherQueueOp
  <2> QED
    BY <1>3, <1>4, <2>1
<1>5. CASE c.op = "xQueueReceiveFromISR" /\ ReceiveFromISR(c.x) /\ UNCHANGED <<h, s>>
  <2> DEFINE done == ReceivedFromISR(k, q[c.x], c.x)
  <2>1. HasQueue(program, c.x) /\ c.x # TimerQueue
    BY <1>1, <1>5 DEF LegalCall, OtherQueueOp
  <2>2. KernelOK(done.k, k) /\ QueueOK(done.b)
    BY <1>0, <1>2, <2>1, ReceivedOK
  <2>3. k' = done.k /\ q' = [q EXCEPT ![c.x] = done.b]
    BY <1>5 DEF ReceiveFromISR, Becomes
  <2> HIDE DEF done
  <2> QED
    BY <1>0, <1>5, <2>1, <2>2, <2>3, OneQueue DEF BoxOK
<1>6. CASE /\ c.op = "xTimerGenericCommand"
           /\ SendFromISR(TimerQueue, [id |-> c.v, timer |-> c.x, value |-> k.tick], "queueSEND_TO_BACK")
           /\ UNCHANGED <<h, s>>
  <2> DEFINE v == [id |-> c.v, timer |-> c.x, value |-> k.tick]
  <2>1. HasQueue(program, TimerQueue) /\ "queueSEND_TO_BACK" \in Position
    BY <1>1, <1>6 DEF Position
  <2>2. MessageOK(v, Timer)
    BY <1>0, <1>1, <1>6 DEF MessageOK, KernelOK, KernelAt, Settled, Shape
  <2> HIDE DEF v
  <2>3. SendFromISR(TimerQueue, v, "queueSEND_TO_BACK")
    BY <1>6 DEF v
  <2> QED
    BY <1>3, <1>6, <2>1, <2>2, <2>3
<1>7. CASE c.op = "xTaskResumeFromISR" /\ ResumeFromISR(c.x) /\ UNCHANGED <<q, s>>
  <2> DEFINE done == xTaskResumeFromISR(k, c.x)
  <2>1. c.x \in Task
    BY <1>1, <1>7 DEF LegalCall, TaskOp
  <2>2. KernelOK(done.k, k)
    BY <1>0, <2>1, ResumeTaskOK
  <2>3. k' = YieldIf(done.k, done.yield)
    BY <1>7 DEF ResumeFromISR
  <2> HIDE DEF done
  <2>4. \A b : KernelOK(YieldIf(done.k, b), k)
    BY <2>2, MovelessOK
  <2>5. KernelOK(k', k)
    BY <2>3, <2>4, Zenon
  <2> QED
    BY <1>7, <2>5
<1>8. CASE c.op = "xTaskGenericNotifyFromISR" /\ NotifyFromISR(c.x, c.v, c.action) /\ UNCHANGED <<q, s>>
  <2>1. c.x \in Task
    BY <1>1, <1>8 DEF LegalCall, TaskOp
  <2>2. KernelOK(xTaskGenericNotifyFromISR(k, c.x, c.v, c.action), k)
    BY <1>0, <2>1, NotifyOK
  <2> QED
    BY <1>8, <2>2 DEF NotifyFromISR
<1>9. \A w \in Task \cup {NULL} : KernelOK(NotifyWaiting(w), k)
  BY <1>0, NotifyWaitingOK
<1>10. s.toSend \in Task \cup {NULL} /\ s.toReceive \in Task \cup {NULL}
       /\ {"toSend", "toReceive"} \subseteq DOMAIN s
  BY <1>0 DEF WaitersOK
<1>11. CASE c.op = "xStreamBufferSendFromISR" /\ StreamSendFromISR(c.v) /\ UNCHANGED <<q, h>>
  <2> DEFINE count == Writable(s, c.v, xStreamBufferSpacesAvailable(s))
             framed == IF s.message THEN prvWriteBytesToBuffer(s, <<count>>) ELSE s
             written == Write(framed, count)
             wakes == prvBytesInBuffer(written) >= s.trigger
             w == IF wakes THEN NULL ELSE written.toReceive
  <2>1. /\ k' = IF wakes THEN NotifyWaiting(s.toReceive) ELSE k
        /\ s' = [written EXCEPT !.toReceive = w]
    BY <1>11 DEF StreamSendFromISR
  <2> HIDE DEF count
  <2>2. SameWaiters(s, framed)
    <3>1. SameWaiters(s, prvWriteBytesToBuffer(s, <<count>>)) /\ SameWaiters(s, s)
      BY <1>10, StreamStays DEF SameWaiters
    <3> QED
      BY <3>1, Zenon
  <2> HIDE DEF framed
  <2>3. SameWaiters(s, written)
    <3>1. SameWaiters(framed, Write(framed, count))
      BY <1>10, <2>2, StreamStays DEF SameWaiters
    <3> QED
      BY <2>2, <3>1 DEF SameWaiters
  <2> HIDE DEF written, wakes
  <2>4. WaitersOK'
    BY <1>10, <2>1, <2>3 DEF WaitersOK, SameWaiters
  <2>5. KernelOK(k', k)
    BY <1>0, <1>9, <1>10, <2>1
  <2> QED
    BY <1>11, <2>4, <2>5
<1>12. CASE c.op = "xStreamBufferReceiveFromISR" /\ StreamReceiveFromISR(c.v) /\ UNCHANGED <<q, h>>
  <2> DEFINE available == prvBytesInBuffer(s)
             count == IF available <= LengthBytes THEN 0 ELSE Readable(s, c.v, available)
             framed == AfterLength(s)
             read == Read(framed, count)
  <2>1. k' = NotifyWaiting(s.toSend) /\ s' = [read EXCEPT !.toSend = NULL]
    BY <1>12 DEF StreamReceiveFromISR
  <2> HIDE DEF available, count
  <2>2. SameWaiters(s, framed)
    BY <1>10, StreamStays
  <2> HIDE DEF framed
  <2>3. SameWaiters(s, read)
    <3>1. SameWaiters(framed, read)
      BY <1>10, <2>2, StreamStays DEF SameWaiters
    <3> QED
      BY <2>2, <3>1 DEF SameWaiters
  <2> HIDE DEF read
  <2>4. WaitersOK'
    BY <1>10, <2>1, <2>3 DEF WaitersOK, SameWaiters
  <2>5. KernelOK(k', k)
    BY <1>9, <1>10, <2>1
  <2> QED
    BY <1>12, <2>4, <2>5
<1> QED
  BY <1>4, <1>5, <1>6, <1>7, <1>8, <1>11, <1>12 DEF Handler

----------------------------------------------------------------------------
(* The invariant                                                            *)

\* Who takes a step of a task is the running task.
LEMMA Running ==
    ASSUME NEW t \in Task, QueueStep(t) \/ ControlStep(t) \/ GroupStep(t) \/ StreamStep(t) \/ TimerStep(t)
    PROVE  k.cur = t
<1>1. CASE QueueStep(t)
  BY <1>1 DEF QueueStep, TakeAgain, ReadCommandTime, TryQueue, SuspendForQueue, LockQueue, BlockOnQueue, UnlockTx,
              UnlockRx, ResumeFromQueue, LateForQueue, DisinheritLate, xQueueGiveMutexRecursive, ResetQueue,
              Calls, Runs
<1>2. CASE ControlStep(t)
  BY <1>2 DEF ControlStep, SuspendForDelay, vTaskDelay, vTaskDelayUntil, ResumeFromDelay, EndDelay, Suspend,
              ResetUnblockTime, Resume, SetPriority, Delete, AllocateStack, AllocateTcb, FreeStack,
              ResumeFromCreate, AddTask, Malloc, Free, ResumeFromHeap, Notify, AwaitNotification,
              TakeNotification, Calls, Runs
<1>3. CASE GroupStep(t)
  BY <1>3 DEF GroupStep, EnterGroup, LeaveGroup, ReadEventItem, LateForBits, xEventGroupClearBits,
              ResumeFromSet, xEventGroupSetBits, vEventGroupDelete, Calls, Runs
<1>4. CASE StreamStep(t)
  BY <1>4 DEF StreamStep, TryToSend, WaitForStream, EndWaitForStream, CheckSendTime, WriteToStream,
              WriteMessageData, NotifyReceiver, ResumeFromStream, TryToReceive, LookAfterWait,
              ReadFromStream, ReadMessageData, PutLengthBack, NotifySender, xStreamBufferReset, Calls, Runs
<1>5. CASE TimerStep(t)
  BY <1>5 DEF TimerStep, ExpireOrBlock, ResumeDaemon, prvProcessExpiredTimer, ReceiveCommand, ProcessCommand,
              Calls, Runs
<1> QED
  BY <1>1, <1>2, <1>3, <1>4, <1>5

\* Only the running task goes in and out of the places where the scheduler is
\* suspended.
LEMMA TaskKeepsNesting ==
    ASSUME ListsInv, NEW t \in Task, k.cur = t, Passes(t), Alone(t)
    PROVE  KernelOK(k', k') /\ SuspendedByCaller'
<1>1. SuspendedByCaller
  BY DEF ListsInv
<1>2. ASSUME NEW u \in Task \ {t} PROVE call[u].at \notin Inside /\ call'[u].at \notin Inside
  <2>1. call[u].at \notin Inside /\ Fresh.at \notin Inside
    BY <1>1, FreshStamp DEF SuspendedByCaller, Inside, Resuming
  <2> QED
    BY <2>1 DEF Alone
<1>3. CASE Works(t)
  <2>1. Steady(k, k')
    BY <1>3, Own DEF Works
  <2> QED
    BY <1>1, <1>2, <1>3, <2>1, PassesOK DEF SuspendedByCaller, Steady, SameTime, Works
<1>4. CASE Suspends(t)
  BY <1>1, <1>2, <1>4, PassesOK DEF SuspendedByCaller, Paused, SameTime, Suspends
<1>5. CASE Resumes(t)
  BY <1>1, <1>2, <1>5, PassesOK DEF SuspendedByCaller, Released, Resumes
<1> QED
  BY <1>3, <1>4, <1>5 DEF Passes

LEMMA OthersKeepNesting ==
    ASSUME ListsInv,
           \/ UNCHANGED vars
           \/ xPortSysTickHandler
           \/ xPortPendSVHandler
           \/ UNCHANGED call /\ KernelOK(k', k)
    PROVE  KernelOK(k', k') /\ SuspendedByCaller'
<1>1. SuspendedByCaller /\ KernelOK(k, k)
  BY DEF ListsInv
<1>2. CASE UNCHANGED vars
  BY <1>1, <1>2 DEF vars, SuspendedByCaller
<1>3. CASE xPortSysTickHandler
  <2>1. \A u \in Task : call'[u].at = call[u].at
    <3>1. ASSUME NEW u \in Task PROVE call'[u].at = call[u].at
      <4>1. DOMAIN call[u] = DOMAIN Fresh
        BY InTime, StampFacts
      <4>2. call'[u] = [call[u] EXCEPT !.age = Age(u)]
        BY <1>3 DEF xPortSysTickHandler
      <4> QED
        BY <4>1, <4>2 DEF Fresh
    <3> QED
      BY <3>1
  <2> QED
    BY <1>1, <1>3, <2>1, SysTickOK DEF SuspendedByCaller, Rests
<1>4. CASE xPortPendSVHandler
  <2>1. call' = call
    BY <1>4 DEF xPortPendSVHandler
  <2> QED
    BY <1>1, <1>4, <2>1, PendSVOK DEF SuspendedByCaller, SameTime
<1>5. CASE UNCHANGED call /\ KernelOK(k', k)
  BY <1>1, <1>5, Own DEF SuspendedByCaller, Steady, SameTime
<1> QED
  BY <1>2, <1>3, <1>4, <1>5

LEMMA ListsInvInit == Init => ListsInv
<1> SUFFICES ASSUME Init PROVE ListsInv
  OBVIOUS
<1>1. program \in Program /\ InScript /\ Fits /\ Stamps /\ Sampled
  <2>1. Sampled
    BY DEF Init, CallInit, Fresh, Sampled, DaemonTime
  <2> QED
    BY <2>1, ScriptInit, FitsInit, StampsInit
<1>2. KernelOK(k, k) /\ SuspendedByCaller
  <2>1. LegalTasks(App[program].tasks)
    BY <1>1, AppAssumption, Zenon
  <2>2. k = vTaskStartScheduler(App[program].tasks)
    BY DEF Init, CallInit
  <2>3. \A t \in Task : call[t].at = "call"
    BY FreshStamp DEF Init, CallInit
  <2> QED
    BY <2>1, <2>2, <2>3, StartOK DEF SuspendedByCaller, Inside, Resuming
<1>3. QueuesOK
  <2>1. q = App[program].queues
    BY DEF Init, QueueInit
  <2>2. \A x \in DOMAIN q : Unused(q[x])
    BY <1>1, <2>1, AppAssumption, Zenon
  <2>3. ASSUME TimerQueue \in DOMAIN q PROVE MailOK(q[TimerQueue], Timer)
    <3> DEFINE b == q[TimerQueue]
               L == b.length
    <3>1. NewQueue(b)
      BY <1>1, <2>1, <2>3, AppAssumption, Zenon
    <3>2. L \in Nat \ {0} /\ b = prvInitialiseNewQueue("queue", L, b.buf[0])
      BY <3>1 DEF NewQueue
    <3> HIDE DEF b
    <3>3. /\ DOMAIN b = QueueFields /\ b.type = "queue" /\ b.n = 0 /\ b.w = 0 /\ b.r = L - 1
          /\ DOMAIN b.buf = 0 .. L - 1
      BY <3>2 DEF prvInitialiseNewQueue, QueueFields
    <3> HIDE DEF L
    <3>4. L - 1 + 1 + 0 = L /\ Rem(L, L) = 0
      BY <3>2, Wraps
    <3>5. MailOK(b, Timer)
      BY <3>2, <3>3, <3>4 DEF MailOK, L
    <3> QED
      BY <3>5 DEF b
  <2> QED
    BY <2>1, <2>2, <2>3 DEF QueuesOK, BoxOK, QueueOK, Unused, queueUNLOCKED
<1>4. WaitersOK
  <2>1. s = App[program].stream
    BY DEF Init, StreamInit
  <2>2. /\ {"toSend", "toReceive"} \subseteq DOMAIN App[program].stream
        /\ App[program].stream.toSend = NULL /\ App[program].stream.toReceive = NULL
    BY <1>1, AppAssumption, Zenon
  <2> QED
    BY <2>1, <2>2 DEF WaitersOK
<1>5. TimersOK(tm, Timer)
  <2>1. tm = App[program].timers
    BY DEF Init, TimerInit
  <2>2. LegalTimers(tm)
    BY <1>1, <2>1, AppAssumption, Zenon
  <2>3. DOMAIN tm.period = Timer
    BY <2>1 DEF Timer
  <2>4. IsFiniteSet(Timer) /\ tm.period \in [Timer -> Period]
        /\ tm = prvInitialiseNewTimers(tm.period, {x \in DOMAIN tm.period : tm.auto[x]})
    BY <2>2, <2>3 DEF LegalTimers
  <2>5. /\ DOMAIN tm = TimerFields /\ tm.current = <<>> /\ tm.overflow = <<>> /\ tm.last = 0
        /\ tm.expiry = [x \in Timer |-> 0] /\ tm.message.id = "none" /\ tm.age = [x \in Timer |-> 0]
    BY <2>3, <2>4 DEF prvInitialiseNewTimers, TimerFields
  <2> QED
    BY <2>4, <2>5, TicksAssumption DEF TimersOK, MessageOK, Time
<1> QED
  BY <1>1, <1>2, <1>3, <1>4, <1>5 DEF ListsInv

LEMMA ListsInvNext == ListsInv /\ NewTasks /\ [Next]_vars => ListsInv'
<1> SUFFICES ASSUME ListsInv, NewTasks, [Next]_vars PROVE ListsInv'
  OBVIOUS
<1>1. program' \in Program /\ InScript' /\ Fits' /\ program' = program
  BY ScriptStep, FitsNext DEF ListsInv
<1>2. KernelOK(k, k) /\ QueuesOK /\ WaitersOK /\ TimersOK(tm, Timer) /\ StampsInv /\ Sampled
  BY InTime DEF ListsInv
<1>3. /\ KernelOK(k', k') /\ SuspendedByCaller' /\ (QueuesKept \/ UNCHANGED q) /\ (WaitersOK' \/ UNCHANGED s)
      /\ TimersOK(tm', Timer) \/ UNCHANGED tm
      /\ Sampled' \/ (Undisturbed /\ tm'.last = tm.last /\ tm'.current = tm.current)
  <2>1. CASE UNCHANGED vars
    BY <1>2, <2>1, OthersKeepNesting DEF vars, Undisturbed
  <2>2. CASE xPortSysTickHandler
    BY <1>1, <1>2, <2>2, SysTickOK, OthersKeepNesting, OthersStamp DEF xPortSysTickHandler
  <2>3. CASE xPortPendSVHandler
    BY <1>1, <1>2, <2>3, OthersKeepNesting, OthersStamp DEF xPortPendSVHandler
  <2>4. CASE Interrupt
    <3>1. KernelOK(k', k) /\ (QueuesKept \/ UNCHANGED q) /\ (WaitersOK' \/ UNCHANGED s) /\ UNCHANGED <<call, tm>>
      BY <2>4, HandlerOK DEF Interrupt
    <3>2. KernelOK(k', k') /\ SuspendedByCaller'
      BY <3>1, OthersKeepNesting
    <3> QED
      BY <1>1, <1>2, <2>4, <3>1, <3>2, OthersStamp
  <2>5. CASE QueueCall
    <3>1. PICK t \in Task : QueueStep(t)
      BY <2>5 DEF QueueCall
    <3>2. Passes(t) /\ QueuesKept
      BY <3>1, QueueStepOK
    <3>3. Alone(t) /\ Undisturbed
      BY <1>1, <1>2, <3>1, QueueStamps
    <3>4. KernelOK(k', k') /\ SuspendedByCaller'
      BY <3>1, <3>2, <3>3, Running, TaskKeepsNesting
    <3>5. UNCHANGED <<s, tm>>
      BY <2>5 DEF QueueCall
    <3> QED
      BY <1>2, <3>2, <3>3, <3>4, <3>5
  <2>6. CASE ControlCall
    <3>1. PICK t \in Task : ControlStep(t)
      BY <2>6 DEF ControlCall
    <3>2. Passes(t)
      BY <3>1, ControlStepOK
    <3>3. Alone(t) /\ Undisturbed
      BY <1>1, <1>2, <3>1, ControlStamps
    <3>4. KernelOK(k', k') /\ SuspendedByCaller'
      BY <3>1, <3>2, <3>3, Running, TaskKeepsNesting
    <3>5. UNCHANGED <<q, s, tm>>
      BY <2>6 DEF ControlCall
    <3> QED
      BY <1>2, <3>2, <3>3, <3>4, <3>5
  <2>7. CASE GroupCall
    <3>1. PICK t \in Task : GroupStep(t)
      BY <2>7 DEF GroupCall
    <3>2. Passes(t)
      BY <3>1, GroupStepOK
    <3>3. Alone(t) /\ Undisturbed
      BY <1>1, <1>2, <3>1, GroupStamps
    <3>4. KernelOK(k', k') /\ SuspendedByCaller'
      BY <3>1, <3>2, <3>3, Running, TaskKeepsNesting
    <3>5. UNCHANGED <<q, s, tm>>
      BY <2>7 DEF GroupCall
    <3> QED
      BY <1>2, <3>2, <3>3, <3>4, <3>5
  <2>8. CASE StreamCall
    <3>1. PICK t \in Task : StreamStep(t)
      BY <2>8 DEF StreamCall
    <3>2. Passes(t) /\ WaitersOK'
      BY <3>1, StreamStepOK
    <3>3. Alone(t) /\ Undisturbed
      BY <1>1, <1>2, <3>1, StreamStamps
    <3>4. KernelOK(k', k') /\ SuspendedByCaller'
      BY <3>1, <3>2, <3>3, Running, TaskKeepsNesting
    <3>5. UNCHANGED <<q, tm>>
      BY <2>8 DEF StreamCall
    <3> QED
      BY <1>2, <3>2, <3>3, <3>4, <3>5
  <2>9. CASE TimerCall
    <3>1. PICK t \in Task : TimerStep(t)
      BY <2>9 DEF TimerCall
    <3>2. Passes(t) /\ QueuesKept /\ TimersOK(tm', Timer) /\ Sampled'
      BY <3>1, TimerStepOK
    <3>3. KernelOK(k', k') /\ SuspendedByCaller'
      BY <1>1, <1>2, <3>1, <3>2, Running, TimerStamps, TaskKeepsNesting
    <3>4. UNCHANGED s
      BY <2>9 DEF TimerCall
    <3> QED
      BY <3>2, <3>3, <3>4
  <2>10. CASE IdleLoop
    <3>1. IdleStep /\ UNCHANGED <<q, s, tm>> /\ Idle \in Task
      BY <2>10, PriorityAssumption DEF IdleLoop
    <3>2. k.cur = Idle /\ Passes(Idle)
      BY <3>1, IdleStepOK DEF IdleStep, CleanUp, FreeDead, ResumeFromFree, IdleYield, Runs
    <3>3. Undisturbed /\ (Alone(Idle) \/ xPortSysTickHandler)
      BY <1>1, <1>2, <3>1, OthersStamp
    <3>4. KernelOK(k', k') /\ SuspendedByCaller'
      BY <3>1, <3>2, <3>3, TaskKeepsNesting, OthersKeepNesting
    <3> QED
      BY <1>2, <3>1, <3>3, <3>4
  <2> QED
    BY <2>1, <2>2, <2>3, <2>4, <2>5, <2>6, <2>7, <2>8, <2>9, <2>10 DEF Next
<1>4. Timer' = Timer
  BY <1>1 DEF Timer
<1>5. QueuesOK'
  BY <1>1, <1>2, <1>3, <1>4 DEF QueuesOK, QueuesKept, BoxOK
<1>6. WaitersOK' /\ TimersOK(tm', Timer')
  BY <1>2, <1>3, <1>4 DEF WaitersOK
<1>7. Stamps' /\ Sampled'
  BY <1>2, <1>3, StampsNext, SampledStays
<1> QED
  BY <1>1, <1>3, <1>5, <1>6, <1>7 DEF ListsInv

\* ListsAgree (RtosProperties): whatever the tasks, their priorities and
\* scripts, the queues, groups, streams and timers, and whatever the
\* interrupts, no step of the kernel leaves a task in two lists, twice in one,
\* or in a ready list that is not of its priority; and the sleeping tasks are
\* in the order of their wake times, none of them past, before and after the
\* wrap of the tick count, and xNextTaskUnblockTime is not after the first;
\* and uxTopReadyPriority has the priority of every ready task.  A task that is
\* created is new (NewTasks, which Rtos.cfg checks).
THEOREM TasksInOnePlace == Spec /\ []NewTasks => []ListsAgree
<1>1. ListsInv => ListsAgree
  <2> SUFFICES ASSUME ListsInv PROVE ListsAgree
    OBVIOUS
  <2>1. /\ OnePlace(k) /\ Known(k) /\ Asleep(k, 1) /\ k.tick \in Time /\ k.wake \in [Task -> Time]
        /\ k.delayed \in Seq(Task) /\ k.overflow \in Seq(Task)
    BY DEF ListsInv, KernelOK, KernelAt, Settled, Shape, Elsewhere
  <2>2. ASSUME NEW l \in Seq(Task), NEW t \in ToSet(l) PROVE t \in Task /\ Contains(l, t)
    BY <2>2 DEF ToSet, Contains
  <2>3. \A t \in ToSet(k.delayed) : k.tick < k.wake[t] /\ k.next <= k.wake[t]
    <3> SUFFICES ASSUME NEW t \in ToSet(k.delayed) PROVE k.tick < k.wake[t] /\ k.next <= k.wake[t]
      OBVIOUS
    <3>1. t \in Task /\ k.wake[t] \in Time /\ k.tick + 1 <= k.wake[t] /\ k.next <= k.wake[t]
      BY <2>1, <2>2 DEF Asleep
    <3> QED
      BY <2>1, <3>1 DEF Time
  <2>4. \A t \in ToSet(k.overflow) : k.wake[t] < k.tick
    BY <2>1, <2>2 DEF Asleep
  <2> QED
    BY <2>1, <2>3, <2>4 DEF ListsAgree, SleepersInOrder, Asleep
<1> QED
  BY <1>1, ListsInvInit, ListsInvNext, PTL DEF Spec

\* SuspendedByCaller (RtosProperties): whatever a task meets between
\* vTaskSuspendAll and xTaskResumeAll, an early return, a timeout, ticks and
\* interrupts, the scheduler is suspended once, by the running task and while
\* that one is there, and no tick put off meanwhile is left uncounted.
THEOREM SchedulerNesting == Spec /\ []NewTasks => []SuspendedByCaller
<1>1. ListsInv => SuspendedByCaller
  BY DEF ListsInv
<1> QED
  BY <1>1, ListsInvInit, ListsInvNext, PTL DEF Spec

----------------------------------------------------------------------------
(* Timeouts of queues                                                       *)

\* A call that is out of time is at one of these places.
GivenUp(r) ==
    \/ r.at \in {"late", "disinherit"}
    \/ r.path = "late" /\ r.at \in {"unlockTx", "unlockRx", "resume"}

\* What a call c for a queue keeps of its time in its record r, once it has
\* begun: while it has not waited for as long as it was given it has time left,
\* and since it noted the time (xTaskCheckForTimeOut) no more ticks have been
\* counted than it has waited and not yet accounted for.
Patient(z, c, r) ==
    r.at \notin Beginning =>
        /\ c.ticks > 0
        /\ c.ticks = portMAX_DELAY => r.left = c.ticks /\ ~GivenUp(r)
        /\ c.ticks < portMAX_DELAY /\ r.age < c.ticks =>
              /\ ~GivenUp(r) /\ r.left \in 1 .. c.ticks
              /\ Within(z, r.since, r.age - z.pended - (c.ticks - r.left))
AllPatient == \A t \in Task : Now(t).op \in QueueOp => Patient(k, Now(t), call[t])

LEMMA PatienceKept ==
    ASSUME NEW z, NEW y, SameTime(z, y), NEW c, NEW r, Patient(z, c, r)
    PROVE  Patient(y, c, r)
  BY DEF Patient, SameTime, Within

LEMMA PatienceLater ==
    ASSUME NEW z, NEW y, z.pended \in Nat, y.pended = 0, Later(z, y, z.pended),
           NEW c, c.ticks \in Time, NEW r, RecordOK(r), Patient(z, c, r)
    PROVE  Patient(y, c, r)
<1> DEFINE m == r.age - z.pended - (c.ticks - r.left)
<1>1. r.age \in Nat /\ r.left \in Time /\ r.since.tick \in Time
  BY TicksAssumption DEF RecordOK
<1>2. CASE c.ticks < portMAX_DELAY /\ r.age < c.ticks /\ r.at \notin Beginning
  <2>1. /\ c.ticks > 0 /\ ~GivenUp(r) /\ r.left \in 1 .. c.ticks /\ Within(z, r.since, m)
    BY <1>2 DEF Patient
  <2>2. m \in Int /\ m + z.pended < Ticks /\ m + z.pended = r.age - y.pended - (c.ticks - r.left)
    BY <1>1, <1>2, <2>1, TicksAssumption DEF Time
  <2> HIDE DEF m
  <2>3. Within(y, r.since, m + z.pended)
    BY <1>1, <2>1, <2>2 DEF Later
  <2>4. Within(y, r.since, r.age - y.pended - (c.ticks - r.left))
    BY <2>2, <2>3
  <2>5. c.ticks # portMAX_DELAY
    BY <1>1, <1>2, TicksAssumption DEF Time, portMAX_DELAY
  <2> QED
    BY <2>1, <2>4, <2>5 DEF Patient
<1> QED
  BY <1>2 DEF Patient

\* A tick is counted, or put off while the scheduler is suspended.
LEMMA PatienceTick ==
    ASSUME NEW z, NEW y, z.tick \in Time, z.pended \in Nat,
           \/ NextTick(z, y) /\ y.pended = z.pended
           \/ y.tick = z.tick /\ y.overflows = z.overflows /\ y.pended = z.pended + 1,
           NEW c, c.ticks \in Time, NEW r, RecordOK(r), Patient(z, c, r), NEW x,
           x.at = r.at, x.path = r.path, x.left = r.left, x.since = r.since,
           r.at \notin Beginning /\ c.ticks < portMAX_DELAY => x.age = IF r.age < Ticks THEN r.age + 1 ELSE Ticks
    PROVE  Patient(y, c, x)
<1> DEFINE m == r.age - z.pended - (c.ticks - r.left)
<1>1. r.age \in 0 .. Ticks /\ r.left \in Time /\ r.since.tick \in Time /\ c.ticks \in Nat /\ Ticks \in Nat
  BY TicksAssumption DEF RecordOK, Time
<1>2. GivenUp(x) <=> GivenUp(r)
  BY DEF GivenUp
<1>3. CASE c.ticks < portMAX_DELAY /\ x.age < c.ticks /\ r.at \notin Beginning
  <2>1. r.age < c.ticks /\ x.age = r.age + 1
    BY <1>1, <1>3 DEF portMAX_DELAY
  <2>2. /\ c.ticks > 0 /\ ~GivenUp(r) /\ r.left \in 1 .. c.ticks /\ Within(z, r.since, m)
    BY <1>3, <2>1 DEF Patient
  <2>3. m \in Int /\ m + 1 < Ticks
    BY <1>1, <1>3, <2>1, <2>2 DEF portMAX_DELAY
  <2>4. m + 1 = x.age - z.pended - (c.ticks - r.left) /\ m = x.age - (z.pended + 1) - (c.ticks - r.left)
    BY <1>1, <2>1, <2>2
  <2> HIDE DEF m
  <2>5. Within(y, r.since, x.age - y.pended - (c.ticks - r.left))
    <3>1. CASE NextTick(z, y) /\ y.pended = z.pended
      BY <1>1, <2>2, <2>3, <2>4, <3>1, TickLater
    <3>2. CASE y.tick = z.tick /\ y.overflows = z.overflows /\ y.pended = z.pended + 1
      BY <2>2, <2>4, <3>2 DEF Within
    <3> QED
      BY <3>1, <3>2
  <2>6. c.ticks # portMAX_DELAY
    BY <1>1, <1>3 DEF portMAX_DELAY
  <2> QED
    BY <1>2, <2>2, <2>5, <2>6 DEF Patient
<1> QED
  BY <1>2, <1>3 DEF Patient

\* The look at the clock: while less has been counted than is left, it finds
\* some time left, and the count goes on from now.
LEMMA CheckOK ==
    ASSUME k.tick \in Time, NEW since, since.tick \in Time, NEW left \in Nat, left # portMAX_DELAY,
           NEW m \in Int, m < left, Within(k, since, m), NEW check, check = xTaskCheckForTimeOut(k, since, left)
    PROVE  /\ ~check.out /\ check.left \in 1 .. left
           /\ Within(k, check.since, m - (left - check.left))
<1> DEFINE d == k.tick - since.tick
           e == d % Ticks
           wrapped == k.overflows # since.overflows /\ k.tick >= since.tick
           now == vTaskInternalSetTimeOutState(k)
<1>1. d \in (-Ticks) .. (Ticks + Ticks - 1) /\ Ticks \in Nat /\ e \in Nat
  BY TicksAssumption DEF Time
<1>2. e <= m
  BY DEF Within, Turn
<1>3. ~wrapped
  BY DEF Within, Time
<1>4. check = IF left = portMAX_DELAY THEN [out |-> FALSE, left |-> left, since |-> since]
              ELSE IF wrapped THEN [out |-> TRUE, left |-> left, since |-> since]
              ELSE IF e < left
              THEN [out |-> FALSE, left |-> left - e, since |-> now]
              ELSE [out |-> TRUE, left |-> 0, since |-> since]
  BY Zenon DEF xTaskCheckForTimeOut, e, d, wrapped, now
<1>5. now.tick = k.tick /\ now.overflows = k.overflows
  BY DEF vTaskInternalSetTimeOutState
<1> HIDE DEF d, e, wrapped, now
<1>6. ~check.out /\ check.left = left - e /\ check.since = now
  BY <1>1, <1>2, <1>3, <1>4
<1>7. Turn(k.tick - now.tick) = 0
  <2>1. k.tick - now.tick = 0 /\ 0 \in (-Ticks) .. (Ticks + Ticks - 1)
    BY <1>1, <1>5, TicksAssumption DEF Time
  <2>2. Turn(0) = 0
    BY <2>1, Turns, TicksAssumption
  <2> QED
    BY <2>1, <2>2
<1>8. 0 <= m - e /\ e <= m /\ left - e \in 1 .. left /\ m - (left - (left - e)) = m - e
  BY <1>1, <1>2
<1> QED
  BY <1>5, <1>6, <1>7, <1>8 DEF Within

\* What the kernel does in a step of the running task does not take the time
\* of a call that waits.
LEMMA PatiencePasses ==
    ASSUME ListsInv, NEW t \in Task, k.cur = t, Passes(t),
           NEW c, c.ticks \in Time, NEW r, RecordOK(r), Patient(k, c, r)
    PROVE  Patient(k', c, r)
<1>1. SuspendedByCaller /\ k.pended \in Nat
  BY DEF ListsInv, KernelOK, KernelAt, Settled, Shape
<1>2. CASE Works(t)
  <2>1. SameTime(k, k')
    BY <1>2, Own DEF Works, Steady
  <2> QED
    BY <2>1, PatienceKept
<1>3. CASE Suspends(t)
  BY <1>3, PatienceKept DEF Suspends, Paused
<1>4. CASE Resumes(t)
  <2>1. k.susp = 1 /\ k'.susp = k.susp - 1
    BY <1>1, <1>4 DEF SuspendedByCaller, Resumes, Released
  <2>2. k'.pended = 0 /\ Later(k, k', k.pended)
    BY <1>4, <2>1 DEF Resumes, Released
  <2> QED
    BY <1>1, <2>2, PatienceLater
<1> QED
  BY <1>2, <1>3, <1>4 DEF Passes

\* A step within a call that leaves its time alone.
LEMMA PatienceGoto ==
    ASSUME NEW z, NEW c, NEW r, Patient(z, c, r), r.at \notin Beginning, NEW x,
           x.left = r.left, x.since = r.since, x.age = r.age, GivenUp(x) => GivenUp(r)
    PROVE  Patient(z, c, x)
  BY DEF Patient

\* The place of t, its branch and what it keeps of the time after a step.
LEMMA GotoOrReturn ==
    ASSUME ListsInv, NEW t \in Task
    PROVE  /\ \A at : call' = Goto(t, at) =>
                 /\ call'[t].at = at /\ call'[t].path = call[t].path /\ call'[t].left = call[t].left
                 /\ call'[t].since = call[t].since /\ call'[t].age = call[t].age
           /\ \A ok, got : call' = Return(t, ok, got) => call'[t].at = "call" /\ call'[t].got = got
<1>1. DOMAIN call = Task /\ DOMAIN call[t] = DOMAIN Fresh
  BY Places
<1> QED
  BY <1>1 DEF Goto, Return, Fresh

\* What a call for a queue is given, and gives up.
LEMMA QueueTime ==
    ASSUME ListsInv, NEW t \in Task, Now(t).op \in QueueOp
    PROVE  Now(t).ticks \in Time /\ RecordOK(call[t])
  BY CallIsLegal DEF LegalCall, TimedOp, Time, StampOK

LEMMA LookPatience ==
    ASSUME ListsInv, NEW t \in Task, Now(t).op \in QueueOp, Patient(k, Now(t), call[t]), BlockOnQueue(t)
    PROVE  Patient(k, Now(t), call'[t]) /\ call'[t].at # "call"
<1> DEFINE c == Now(t)
           r == call[t]
           check == xTaskCheckForTimeOut(k, r.since, r.left)
           mutex == c.op \in TakeOp /\ q[X(t)].type = "mutex"
           inherits == Inherits(k, IF mutex THEN q[X(t)].holder ELSE NULL)
           inherited(path) == IF path = "blocked" /\ mutex THEN inherits ELSE r.inherited
           Take(path) ==
               call' = [call EXCEPT ![t].at = "unlockTx", ![t].left = check.left, ![t].since = check.since,
                                    ![t].path = path, ![t].inherited = inherited(path)]
<1>0. DOMAIN call = Task /\ DOMAIN call[t] = DOMAIN Fresh /\ k.tick \in Time /\ k.pended \in Nat
  BY Places, CallIsLegal DEF KernelOK, KernelAt, Settled, Shape
<1>1. c.ticks \in Time /\ RecordOK(r)
  BY QueueTime
<1>2. r.at = "look" /\ ((~check.out /\ (Take("blocked") \/ Take("retry"))) \/ (check.out /\ Take("late")))
  BY DEF BlockOnQueue, Runs
<1>3. check = xTaskCheckForTimeOut(k, r.since, r.left)
  OBVIOUS
<1>4. r.left = portMAX_DELAY => ~check.out /\ check.left = r.left
  BY Zenon DEF xTaskCheckForTimeOut
<1> HIDE DEF check, mutex, inherits, Take
<1>5. PICK path : Take(path) /\ (path = "late" => check.out)
  BY <1>2
<1>6. /\ call'[t].at = "unlockTx" /\ call'[t].left = check.left /\ call'[t].since = check.since
      /\ call'[t].path = path /\ call'[t].age = r.age
  BY <1>0, <1>5 DEF Fresh, Take
<1>7. r.at \notin Beginning
  BY <1>2 DEF Beginning
<1> HIDE DEF c, r
<1>8. Patient(k, c, r)
  BY DEF c, r
<1>9. GivenUp(call'[t]) => check.out
  BY <1>5, <1>6 DEF GivenUp
<1>10. ASSUME c.ticks < portMAX_DELAY, r.age < c.ticks
       PROVE  /\ ~check.out /\ check.left \in 1 .. c.ticks
              /\ Within(k, check.since, r.age - k.pended - (c.ticks - check.left))
  <2> DEFINE m == r.age - k.pended - (c.ticks - r.left)
  <2>1. r.left \in 1 .. c.ticks /\ Within(k, r.since, m)
    BY <1>7, <1>8, <1>10 DEF Patient
  <2>2. /\ r.left \in Nat /\ r.left # portMAX_DELAY /\ m \in Int /\ m < r.left /\ r.since.tick \in Time
        /\ c.ticks \in Nat /\ r.age \in Nat
    BY <1>0, <1>1, <1>10, <2>1, TicksAssumption DEF Time, portMAX_DELAY, RecordOK
  <2> HIDE DEF m
  <2>3. /\ ~check.out /\ check.left \in 1 .. r.left
        /\ Within(k, check.since, m - (r.left - check.left))
    BY <1>0, <1>3, <2>1, <2>2, CheckOK
  <2>4. m - (r.left - check.left) = r.age - k.pended - (c.ticks - check.left) /\ check.left \in 1 .. c.ticks
    BY <1>0, <2>1, <2>2, <2>3 DEF m
  <2> QED
    BY <2>3, <2>4
<1>11. c.ticks > 0 /\ (c.ticks = portMAX_DELAY => r.left = c.ticks)
  BY <1>7, <1>8 DEF Patient
<1>12. Patient(k, c, call'[t])
  BY <1>4, <1>6, <1>9, <1>10, <1>11 DEF Patient
<1> QED
  BY <1>6, <1>12 DEF c

\* A call for a queue gives up only when it has waited for all of its time.
LEMMA QueuePatience ==
    ASSUME ListsInv, NEW t \in Task, Now(t).op \in QueueOp, Patient(k, Now(t), call[t]), QueueStep(t)
    PROVE  Patient(k, Now(t), call'[t]) /\ (TimesOut(t) /\ Now(t).ticks > 0 => WaitedLong(t))
<1> DEFINE c == Now(t)
           r == call[t]
<1>0. DOMAIN call = Task /\ DOMAIN call[t] = DOMAIN Fresh /\ c.ticks \in Time /\ RecordOK(r) /\ SuspendedByCaller
  BY Places, QueueTime DEF ListsInv
<1>1. ASSUME r.at \notin Beginning, GivenUp(r) PROVE WaitedLong(t)
  BY <1>0, <1>1, TicksAssumption DEF Patient, WaitedLong, Time, portMAX_DELAY, RecordOK
<1>2. call'[t].at \in Beginning => Patient(k, c, call'[t])
  BY DEF Patient
<1>3. CASE r.at = "call" /\ call'[t].at \in Beginning
  BY <1>2, <1>3 DEF TimesOut
<1>4. CASE TakeAgain(t) \/ ReadCommandTime(t) \/ xQueueGiveMutexRecursive(t) \/ ResetQueue(t)
  <2>1. call[t].at = "call" /\ call'[t].at \in Beginning
    <3>1. CASE ReadCommandTime(t)
      BY <1>0, <3>1 DEF ReadCommandTime, Calls, Runs, Beginning, Fresh
    <3>2. CASE TakeAgain(t) \/ xQueueGiveMutexRecursive(t) \/ ResetQueue(t)
      <4>1. call[t].at = "call" /\ \E ok, got : call' = Return(t, ok, got)
        BY <3>2 DEF TakeAgain, xQueueGiveMutexRecursive, ResetQueue, Calls, Runs
      <4> QED
        BY <4>1, GotoOrReturn DEF Beginning
    <3> QED
      BY <1>4, <3>1, <3>2
  <2> QED
    BY <1>3, <2>1
<1>5. CASE TryQueue(t)
  <2> DEFINE first == r.at # "again"
             left == IF first THEN c.ticks ELSE r.left
             now == vTaskInternalSetTimeOutState(k)
             since == IF first THEN now ELSE r.since
  <2>1. k.cur = t /\ r.at \in {"call", "command", "again"}
    BY <1>5 DEF TryQueue, Runs
  <2>2. \/ call' = Return(t, TRUE, "pdPASS")
        \/ left = 0 /\ call' = Return(t, FALSE, "timeout")
        \/ left # 0 /\ call' = [call EXCEPT ![t].at = "suspend", ![t].left = left, ![t].since = since]
    BY <1>5 DEF TryQueue
  <2>3. first => r.at \in Beginning /\ r.age = 0 /\ left = c.ticks
    BY <1>0, <2>1 DEF Beginning, RecordOK
  <2>4. ~first => r.at \notin Beginning /\ left = r.left /\ since = r.since
    BY DEF Beginning
  <2>5. first => since = now
    OBVIOUS
  <2>6. now.tick = k.tick /\ now.overflows = k.overflows
    BY DEF vTaskInternalSetTimeOutState
  <2> HIDE DEF left, since, first, now
  <2>7. CASE call' = Return(t, TRUE, "pdPASS")
    <3>1. call'[t].at = "call" /\ call'[t].got = "pdPASS"
      BY <2>7, GotoOrReturn
    <3> QED
      BY <1>2, <3>1 DEF TimesOut, Beginning
  <2>8. CASE left = 0 /\ call' = Return(t, FALSE, "timeout")
    <3>1. call'[t].at = "call"
      BY <2>8, GotoOrReturn
    <3>2. c.ticks > 0 => ~first
      BY <2>3, <2>8
    <3>3. ~first => WaitedLong(t)
      BY <1>0, <2>4, <2>8, TicksAssumption DEF Patient, WaitedLong, Time, portMAX_DELAY, RecordOK
    <3> QED
      BY <1>2, <3>1, <3>2, <3>3 DEF TimesOut, Beginning
  <2>9. CASE left # 0 /\ call' = [call EXCEPT ![t].at = "suspend", ![t].left = left, ![t].since = since]
    <3>1. call'[t].at = "suspend" /\ call'[t].left = left /\ call'[t].since = since /\ call'[t].age = r.age
      BY <1>0, <2>9 DEF Fresh
    <3>2. ~GivenUp(call'[t])
      BY <3>1 DEF GivenUp
    <3>3. CASE first
      <4>1. k.pended = 0
        BY <1>0, <2>1 DEF SuspendedByCaller, Inside, Resuming
      <4>2. Turn(k.tick - now.tick) = 0
        <5>1. k.tick \in Time
          BY CallIsLegal
        <5>2. k.tick - now.tick = 0 /\ 0 \in (-Ticks) .. (Ticks + Ticks - 1)
          BY <2>6, <5>1, TicksAssumption DEF Time
        <5>3. Turn(0) = 0
          BY <5>2, Turns, TicksAssumption
        <5> QED
          BY <5>2, <5>3
      <4>3. Within(k, now, 0)
        BY <2>6, <4>2 DEF Within
      <4>4. r.age - k.pended - (c.ticks - left) = 0 /\ c.ticks > 0 /\ left \in 1 .. c.ticks
        BY <1>0, <2>3, <2>9, <3>3, <4>1 DEF Time
      <4> QED
        BY <2>3, <2>5, <3>1, <3>2, <3>3, <4>3, <4>4 DEF Patient, TimesOut
    <3>4. CASE ~first
      <4>1. Patient(k, c, call'[t])
        BY <2>4, <3>1, <3>2, <3>4, PatienceGoto
      <4> QED
        BY <3>1, <4>1 DEF TimesOut
    <3> QED
      BY <3>3, <3>4
  <2> QED
    BY <2>2, <2>7, <2>8, <2>9
<1>6. CASE SuspendForQueue(t) \/ LockQueue(t) \/ UnlockTx(t) \/ UnlockRx(t)
  <2>1. \/ r.at = "suspend" /\ call' = Goto(t, "lock")
        \/ r.at = "lock" /\ call' = Goto(t, "look")
        \/ r.at = "unlockTx" /\ call' = Goto(t, "unlockRx")
        \/ r.at = "unlockRx" /\ call' = Goto(t, "resume")
    BY <1>6 DEF SuspendForQueue, LockQueue, UnlockTx, UnlockRx, Runs
  <2>2. /\ call'[t].left = r.left /\ call'[t].since = r.since /\ call'[t].age = r.age /\ call'[t].path = r.path
        /\ \/ call'[t].at \in {"lock", "look"}
           \/ call'[t].at \in {"unlockRx", "resume"} /\ r.at \in {"unlockTx", "unlockRx"}
        /\ r.at \notin Beginning
    BY <2>1, GotoOrReturn DEF Beginning
  <2>3. GivenUp(call'[t]) => GivenUp(r)
    BY <2>2 DEF GivenUp
  <2>4. Patient(k, c, call'[t])
    BY <2>2, <2>3, PatienceGoto
  <2> QED
    BY <2>2, <2>4 DEF TimesOut
<1>7. CASE BlockOnQueue(t)
  BY <1>7, LookPatience DEF TimesOut
<1>8. CASE ResumeFromQueue(t) \/ LateForQueue(t) \/ DisinheritLate(t)
  <2>1. /\ r.at \in {"resume", "late", "disinherit"}
        /\ \/ call' = Goto(t, "again")
           \/ GivenUp(r) /\ \E at \in {"late", "disinherit"} : call' = Goto(t, at)
           \/ GivenUp(r) /\ call' = Return(t, FALSE, "timeout")
    BY <1>8 DEF ResumeFromQueue, LateForQueue, DisinheritLate, Runs, GivenUp
  <2>2. r.at \notin Beginning
    BY <2>1 DEF Beginning
  <2>3. CASE GivenUp(r) /\ call' = Return(t, FALSE, "timeout")
    <3>1. call'[t].at = "call"
      BY <2>3, GotoOrReturn
    <3> QED
      BY <1>1, <1>2, <2>2, <2>3, <3>1 DEF Beginning
  <2>4. ASSUME NEW at \in {"again", "late", "disinherit"}, call' = Goto(t, at), at # "again" => GivenUp(r)
        PROVE  Patient(k, c, call'[t]) /\ ~TimesOut(t)
    <3>1. /\ call'[t].left = r.left /\ call'[t].since = r.since /\ call'[t].age = r.age /\ call'[t].at = at
      BY <2>4, GotoOrReturn
    <3>2. GivenUp(call'[t]) => GivenUp(r)
      BY <2>4, <3>1 DEF GivenUp
    <3>3. Patient(k, c, call'[t])
      BY <2>2, <3>1, <3>2, PatienceGoto
    <3> QED
      BY <2>4, <3>1, <3>3 DEF TimesOut
  <2> QED
    BY <2>1, <2>3, <2>4
<1> QED
  BY <1>4, <1>5, <1>6, <1>7, <1>8 DEF QueueStep

\* A step of one task: the others keep their patience.
LEMMA TaskPatience ==
    ASSUME ListsInv, ListsInv', UNCHANGED program, AllPatient, NEW t \in Task, k.cur = t, Passes(t), Alone(t),
           Now(t).op \in QueueOp => QueueStep(t)
    PROVE  /\ AllPatient'
           /\ \A u \in Task : TimesOut(u) /\ Now(u).op \in QueueOp /\ Now(u).ticks > 0 => WaitedLong(u)
<1> SUFFICES ASSUME NEW u \in Task
             PROVE  /\ Now(u)'.op \in QueueOp => Patient(k', Now(u)', call'[u])
                    /\ TimesOut(u) /\ Now(u).op \in QueueOp /\ Now(u).ticks > 0 => WaitedLong(u)
  BY DEF AllPatient
<1>1. call'[u].n = call[u].n => Now(u)' = Now(u)
  BY DEF Now, ScriptOf
<1>2. call'[u].at = "call" => Patient(k', Now(u)', call'[u])
  BY DEF Patient, Beginning
<1>3. ASSUME Now(u).op \in QueueOp, Patient(k, Now(u), call'[u]), call'[u].n = call[u].n
      PROVE  Patient(k', Now(u)', call'[u])
  <2>1. Now(u).ticks \in Time
    BY <1>3, QueueTime
  <2>2. RecordOK(call'[u])
    BY DEF ListsInv, Stamps, StampOK
  <2>3. Patient(k', Now(u), call'[u])
    BY <1>3, <2>1, <2>2, PatiencePasses
  <2> QED
    BY <1>1, <1>3, <2>3
<1>4. CASE u # t
  <2>1. call'[u] = call[u] \/ call'[u] = Fresh
    BY <1>4 DEF Alone
  <2>2. CASE call'[u] = call[u]
    <3>1. ~TimesOut(u)
      BY <2>2 DEF TimesOut
    <3>2. Now(u).op \in QueueOp => Patient(k, Now(u), call'[u])
      BY <2>2 DEF AllPatient
    <3> QED
      BY <1>1, <1>3, <2>2, <3>1, <3>2
  <2>3. CASE call'[u] = Fresh
    BY <1>2, <2>3 DEF Fresh, TimesOut
  <2> QED
    BY <2>1, <2>2, <2>3
<1>5. CASE u = t /\ Now(t).op \in QueueOp
  <2>1. Patient(k, Now(t), call'[t]) /\ (TimesOut(t) /\ Now(t).ticks > 0 => WaitedLong(t))
    BY <1>5, QueuePatience DEF AllPatient
  <2>2. call'[t].n = call[t].n \/ call'[t].at = "call"
    BY DEF Alone
  <2> QED
    BY <1>2, <1>3, <1>5, <2>1, <2>2
<1>6. CASE u = t /\ Now(t).op \notin QueueOp
  <2>1. call'[t].n = call[t].n \/ call'[t].at = "call"
    BY DEF Alone
  <2> QED
    BY <1>1, <1>2, <1>6, <2>1
<1> QED
  BY <1>4, <1>5, <1>6

\* A step of nobody: the tick is the one that ages the calls.
LEMMA OthersPatience ==
    ASSUME ListsInv, ListsInv', UNCHANGED program, AllPatient,
           \/ UNCHANGED vars
           \/ xPortSysTickHandler
           \/ xPortPendSVHandler
           \/ UNCHANGED call /\ KernelOK(k', k)
    PROVE  AllPatient' /\ \A u \in Task : ~TimesOut(u)
<1> SUFFICES ASSUME NEW u \in Task
             PROVE  (Now(u)'.op \in QueueOp => Patient(k', Now(u)', call'[u])) /\ ~TimesOut(u)
  BY DEF AllPatient
<1>1. KernelOK(k, k) /\ SuspendedByCaller
  BY DEF ListsInv
<1>2. CASE xPortSysTickHandler
  <2>1. DOMAIN call[u] = DOMAIN Fresh /\ StampOK(Now(u), call[u]) /\ k.tick \in Time /\ k.pended \in Nat
    BY <1>1, CallIsLegal, Places DEF KernelOK, KernelAt, Settled, Shape
  <2>2. call'[u] = [call[u] EXCEPT !.age = Age(u)]
    BY <1>2 DEF xPortSysTickHandler
  <2>3. /\ call'[u].at = call[u].at /\ call'[u].path = call[u].path /\ call'[u].left = call[u].left
        /\ call'[u].since = call[u].since /\ call'[u].n = call[u].n /\ call'[u].age = Age(u)
    BY <2>1, <2>2 DEF Fresh
  <2>4. Now(u)' = Now(u) /\ ~TimesOut(u)
    BY <2>3 DEF Now, ScriptOf, TimesOut
  <2>5. ASSUME Now(u).op \in QueueOp PROVE Patient(k', Now(u), call'[u])
    <3>1. Now(u).ticks \in Time /\ RecordOK(call[u]) /\ Patient(k, Now(u), call[u])
      BY <2>5, QueueTime DEF AllPatient
    <3>2. \/ NextTick(k, k') /\ k'.pended = k.pended
          \/ k'.tick = k.tick /\ k'.overflows = k.overflows /\ k'.pended = k.pended + 1
      BY <1>1, <1>2, SysTickOK DEF SuspendedByCaller
    <3>3. call[u].at # "receiveWait"
      BY <2>1, <2>5 DEF StampOK, StampAt, QueueOp, SendOp, ReceiveOp, TakeOp
    <3>4. ASSUME call[u].at \notin Beginning, Now(u).ticks < portMAX_DELAY
          PROVE  Age(u) = IF call[u].age < Ticks THEN call[u].age + 1 ELSE Ticks
      <4>1. Now(u).ticks > 0
        BY <3>1, <3>4 DEF Patient
      <4>2. Timed(u)
        BY <3>3, <3>4, <4>1 DEF Timed, Beginning
      <4> QED
        BY <4>2 DEF Age
    <3> QED
      BY <2>1, <2>3, <3>1, <3>2, <3>4, PatienceTick
  <2> QED
    BY <2>4, <2>5
<1>3. CASE call' = call /\ SameTime(k, k')
  <2>1. Now(u)' = Now(u) /\ ~TimesOut(u)
    BY <1>3 DEF Now, ScriptOf, TimesOut
  <2> QED
    BY <1>3, <2>1, PatienceKept DEF AllPatient
<1>4. CASE UNCHANGED vars
  BY <1>3, <1>4 DEF vars, SameTime
<1>5. CASE xPortPendSVHandler
  BY <1>1, <1>3, <1>5, PendSVOK DEF xPortPendSVHandler
<1>6. CASE UNCHANGED call /\ KernelOK(k', k)
  BY <1>3, <1>6, Own DEF Steady
<1> QED
  BY <1>2, <1>4, <1>5, <1>6

LEMMA PatienceNext ==
    ASSUME ListsInv, NewTasks, AllPatient, [Next]_vars
    PROVE  /\ AllPatient'
           /\ \A u \in Task : TimesOut(u) /\ Now(u).op \in QueueOp /\ Now(u).ticks > 0 => WaitedLong(u)
<1>1. ListsInv' /\ StampsInv /\ UNCHANGED program
  <2>1. UNCHANGED program
    BY ScriptStep, FitsNext DEF ListsInv
  <2> QED
    BY <2>1, ListsInvNext, InTime
<1>2. ASSUME UNCHANGED vars \/ xPortSysTickHandler \/ xPortPendSVHandler \/ Interrupt
      PROVE  AllPatient' /\ \A u \in Task : ~TimesOut(u)
  <2>1. Interrupt => UNCHANGED call /\ KernelOK(k', k)
    BY HandlerOK DEF Interrupt
  <2> QED
    BY <1>1, <1>2, <2>1, OthersPatience
<1>3. CASE QueueCall
  <2>1. PICK t \in Task : QueueStep(t)
    BY <1>3 DEF QueueCall
  <2>2. Passes(t) /\ Alone(t) /\ k.cur = t
    BY <1>1, <2>1, QueueStepOK, QueueStamps, Running
  <2> QED
    BY <1>1, <2>1, <2>2, TaskPatience
<1>4. ASSUME NEW t \in Task, ControlStep(t) \/ GroupStep(t) \/ StreamStep(t) \/ TimerStep(t), Passes(t), Alone(t)
      PROVE  /\ AllPatient'
             /\ \A u \in Task : TimesOut(u) /\ Now(u).op \in QueueOp /\ Now(u).ticks > 0 => WaitedLong(u)
  BY <1>1, <1>4, NotForQueues, Running, TaskPatience
<1>5. CASE ControlCall
  BY <1>1, <1>4, <1>5, ControlStepOK, ControlStamps DEF ControlCall
<1>6. CASE GroupCall
  BY <1>1, <1>4, <1>6, GroupStepOK, GroupStamps DEF GroupCall
<1>7. CASE StreamCall
  BY <1>1, <1>4, <1>7, StreamStepOK, StreamStamps DEF StreamCall
<1>8. CASE TimerCall
  BY <1>1, <1>4, <1>8, TimerStepOK, TimerStamps DEF TimerCall
<1>9. CASE IdleLoop
  <2>1. IdleStep /\ UNCHANGED <<q, s, tm>> /\ Idle \in Task
    BY <1>9, PriorityAssumption DEF IdleLoop
  <2>2. k.cur = Idle /\ Passes(Idle)
    BY <2>1, IdleStepOK DEF IdleStep, CleanUp, FreeDead, ResumeFromFree, IdleYield, Runs
  <2>3. Alone(Idle) \/ xPortSysTickHandler
    BY <1>1, <2>1, OthersStamp
  <2> QED
    BY <1>1, <1>2, <2>1, <2>2, <2>3, IdleIsIdle, TaskPatience
<1> QED
  BY <1>2, <1>3, <1>5, <1>6, <1>7, <1>8, <1>9 DEF Next

\* QueuesNotEarly (RtosProperties): a call for a queue, a semaphore or a mutex,
\* or a command to the daemon, that reports a timeout was to wait for a limited
\* time and has waited for all of it, whatever the lengths of the queues, the
\* number of tasks and their priorities, the wraps of the tick count and of
\* the count of overflows, and the wakeups that came to nothing.
THEOREM QueueTimeouts == Spec /\ []NewTasks => QueuesNotEarly
<1>1. Init => AllPatient
  BY DEF Init, CallInit, Fresh, AllPatient, Patient, Beginning
<1>2. ListsInv /\ NewTasks /\ AllPatient /\ [Next]_vars =>
          AllPatient' /\ [\A t \in Task : TimesOut(t) /\ Now(t).op \in QueueOp /\ Now(t).ticks > 0
                                          => WaitedLong(t)]_vars
  BY PatienceNext
<1> QED
  BY <1>1, <1>2, ListsInvInit, ListsInvNext, PTL DEF Spec, QueuesNotEarly

----------------------------------------------------------------------------
(* The idle task makes no calls                                             *)

\* It is in its loop, or frees the memory of a task that was deleted.
IdleHome == call[Idle].at \in {"call", "freeStack", "freedStack", "freeTcb", "freedTcb"}

\* All others are calls of other tasks.
LEMMA NotIdle ==
    ASSUME ListsInv, IdleHome, NEW t \in Task,
           QueueStep(t) \/ ControlStep(t) \/ GroupStep(t) \/ StreamStep(t) \/ TimerStep(t)
    PROVE  t # Idle
<1> SUFFICES ASSUME t = Idle PROVE FALSE
  OBVIOUS
<1> DEFINE at == call[Idle].at
           op == Now(Idle).op
<1>1. op = "prvIdleTask"
  <2>1. App[program].script[Idle] = Idling /\ call[Idle].n \in DOMAIN App[program].script[Idle]
    BY AppAssumption, PriorityAssumption, Zenon DEF ListsInv, InScript
  <2> QED
    BY <2>1 DEF Now, ScriptOf, Idling
<1>2. at \in {"call", "freeStack", "freedStack", "freeTcb", "freedTcb"} /\ FitsAt(Now(Idle), at)
  BY DEF IdleHome, ListsInv, Fits
<1>3. \A p : (Calls(Idle, p) => p = op) /\ (Runs(Idle, p) => p = at)
  BY DEF Calls, Runs
<1>4. op \notin QueueOp \cup GroupOp
  BY <1>1 DEF QueueOp, SendOp, ReceiveOp, TakeOp, GroupOp
<1>5. ~TimerStep(Idle)
  BY <1>1, <1>2, DaemonSteps
<1> HIDE DEF at, op
<1>6. ~QueueStep(Idle)
  <2>1. ~TryQueue(Idle)
    BY <1>4 DEF TryQueue, op
  <2>2. \A p \in {"suspend", "lock", "look", "unlockTx", "unlockRx", "resume", "late", "disinherit"} : ~Runs(Idle, p)
    BY <1>2, <1>3
  <2>3. \A p \in {"xQueueTakeMutexRecursive", "xTimerGenericCommand", "xQueueGiveMutexRecursive", "xQueueReset"} :
            ~Calls(Idle, p)
    BY <1>1, <1>3
  <2> QED
    BY <2>1, <2>2, <2>3
       DEF QueueStep, TakeAgain, ReadCommandTime, SuspendForQueue, LockQueue, BlockOnQueue, UnlockTx, UnlockRx,
           ResumeFromQueue, LateForQueue, DisinheritLate, xQueueGiveMutexRecursive, ResetQueue
<1>7. ~ControlStep(Idle)
  <2>1. \A p \in {"sleep", "awake", "slept", "resetUnblock", "stack2", "noTcb", "stack", "tcb", "noMemory", "add",
                  "malloced", "notified"} : ~Runs(Idle, p)
    BY <1>2, <1>3
  <2>2. \A p \in {"vTaskDelay", "vTaskDelayUntil", "vTaskSuspend", "vTaskResume", "vTaskPrioritySet", "vTaskDelete",
                  "xTaskCreate", "pvPortMalloc", "vPortFree", "xTaskGenericNotify", "ulTaskNotifyTake",
                  "xTaskNotifyWait"} : ~Calls(Idle, p)
    BY <1>1, <1>3
  <2> QED
    BY <2>1, <2>2
       DEF ControlStep, SuspendForDelay, vTaskDelay, vTaskDelayUntil, ResumeFromDelay, EndDelay, Suspend,
           ResetUnblockTime, Resume, SetPriority, Delete, AllocateStack, AllocateTcb, FreeStack, ResumeFromCreate,
           AddTask, Malloc, Free, ResumeFromHeap, Notify, AwaitNotification, TakeNotification
<1>8. ~GroupStep(Idle)
  <2>1. \A p \in {"leave", "told", "lateBits", "setBits"} : ~Runs(Idle, p)
    BY <1>2, <1>3
  <2>2. \A p \in GroupOp \cup {"xEventGroupSetBits", "xEventGroupClearBits", "vEventGroupDelete"} : ~Calls(Idle, p)
    BY <1>1, <1>3, <1>4
  <2> QED
    BY <2>1, <2>2
       DEF GroupStep, EnterGroup, LeaveGroup, ReadEventItem, LateForBits, xEventGroupSetBits,
           xEventGroupClearBits, vEventGroupDelete, ResumeFromSet
<1>9. ~StreamStep(Idle)
  <2>1. \A p \in {"sendAgain", "sendWait", "receiveWait", "sendWoken", "receiveWoken", "sendCheck", "write",
                  "writeData", "sent", "streamDone", "receiveCheck", "read", "readData", "putBack",
                  "received"} : ~Runs(Idle, p)
    BY <1>2, <1>3
  <2>2. \A p \in {"xStreamBufferSend", "xStreamBufferReceive", "xStreamBufferReset"} : ~Calls(Idle, p)
    BY <1>1, <1>3
  <2> QED
    BY <2>1, <2>2
       DEF StreamStep, TryToSend, WaitForStream, EndWaitForStream, CheckSendTime, WriteToStream,
           WriteMessageData, NotifyReceiver, ResumeFromStream, TryToReceive, LookAfterWait, ReadFromStream,
           ReadMessageData, PutLengthBack, NotifySender, xStreamBufferReset
<1> QED
  BY <1>5, <1>6, <1>7, <1>8, <1>9

LEMMA IdleHomeNext ==
    ASSUME ListsInv, IdleHome, [Next]_vars
    PROVE  IdleHome'
<1>1. StampsInv /\ UNCHANGED program /\ Idle \in Task
  <2>1. UNCHANGED program
    BY ScriptStep, FitsNext DEF ListsInv
  <2> QED
    BY <2>1, InTime, PriorityAssumption
<1>2. ASSUME NEW t \in Task, Alone(t), t # Idle PROVE IdleHome'
  BY <1>1, <1>2 DEF Alone, IdleHome, Fresh
<1>3. CASE QueueCall
  BY <1>1, <1>2, <1>3, NotIdle, QueueStamps DEF QueueCall
<1>4. CASE ControlCall
  BY <1>1, <1>2, <1>4, NotIdle, ControlStamps DEF ControlCall
<1>5. CASE GroupCall
  BY <1>1, <1>2, <1>5, NotIdle, GroupStamps DEF GroupCall
<1>6. CASE StreamCall
  BY <1>1, <1>2, <1>6, NotIdle, StreamStamps DEF StreamCall
<1>7. CASE TimerCall
  BY <1>1, <1>2, <1>7, NotIdle, TimerStamps DEF TimerCall
<1>8. DOMAIN call = Task /\ DOMAIN call[Idle] = DOMAIN Fresh
  BY <1>1, StampFacts
<1>9. CASE IdleStep
  <2>1. \/ \E x : call' = [call EXCEPT ![Idle].at = "freeStack", ![Idle].got = x]
        \/ \E p \in {"freedStack", "freedTcb", "freeTcb"} : call' = [call EXCEPT ![Idle].at = p]
        \/ call' = [call EXCEPT ![Idle] = Fresh]
        \/ UNCHANGED call
    BY <1>9 DEF IdleStep, CleanUp, FreeDead, ResumeFromFree, IdleYield, Goto
  <2> QED
    BY <1>1, <1>8, <2>1 DEF IdleHome, Fresh
<1>10. CASE xPortSysTickHandler
  <2>1. call' = [u \in Task |-> [call[u] EXCEPT !.age = Age(u)]]
    BY <1>10 DEF xPortSysTickHandler
  <2>2. call'[Idle].at = call[Idle].at
    BY <1>1, <1>8, <2>1 DEF Fresh
  <2> QED
    BY <2>2 DEF IdleHome
<1>11. CASE UNCHANGED call
  BY <1>11 DEF IdleHome
<1> QED
  BY <1>3, <1>4, <1>5, <1>6, <1>7, <1>9, <1>10, <1>11 DEF Next, vars, xPortPendSVHandler, Interrupt, IdleLoop

LEMMA IdleHomeInit == Init => IdleHome
  BY PriorityAssumption DEF Init, CallInit, Fresh, IdleHome

----------------------------------------------------------------------------
(* What the queues count                                                    *)

\* A queue with no more in it than there is room for; a mutex has room for
\* one, which is out while somebody holds it, and the idle task holds none.  Not
\* more can have happened while the queue was locked than i interrupts.
Counted(b, i) ==
    /\ DOMAIN b = QueueFields /\ b.length \in Nat \ {0} /\ b.n \in 0 .. b.length
    /\ b.type = "mutex" => b.length = 1
    /\ b.holder # Idle /\ (b.holder # NULL => b.type = "mutex" /\ b.n = 0)
    /\ b.rx \in queueUNLOCKED .. i /\ b.tx \in queueUNLOCKED .. i
Remains(b, c, i) == Counted(c, i) /\ c.type = b.type /\ c.length = b.length

\* What needs no room, and takes nothing, leaves the counts right.
LEMMA FieldsRemain ==
    ASSUME NEW i \in Nat, NEW b, Counted(b, i), NEW r
    PROVE  /\ Remains(b, b, i) /\ Remains(b, [b EXCEPT !.rec = r], i)
           /\ Remains(b, prvLockQueue(b), i)
           /\ Remains(b, [b EXCEPT !.tx = queueUNLOCKED], i) /\ Remains(b, [b EXCEPT !.rx = queueUNLOCKED], i)
           /\ r \in queueUNLOCKED .. i => /\ Remains(b, [b EXCEPT !.tx = r], i)
                                           /\ Remains(b, [b EXCEPT !.rx = r], i)
  BY DEF Remains, Counted, QueueFields, prvLockQueue, queueUNLOCKED, queueLOCKED_UNMODIFIED

LEMMA CopyRemains ==
    ASSUME NEW i \in Nat, NEW b, Counted(b, i), NEW v, NEW position \in Position,
           b.n # b.length \/ (b.type = "queue" /\ position = "queueOVERWRITE"),
           NEW c, c = prvCopyDataToQueue(b, v, position)
    PROVE  Remains(b, c, i) /\ c.rx = b.rx /\ c.tx = b.tx
<1>1. DOMAIN b = QueueFields /\ b.n \in 0 .. b.length /\ b.length \in Nat \ {0}
  BY DEF Counted
<1>2. /\ DOMAIN c = QueueFields /\ c.type = b.type /\ c.length = b.length /\ c.rx = b.rx /\ c.tx = b.tx
      /\ c.holder = (IF b.type # "queue" THEN NULL ELSE b.holder)
      /\ c.n = IF b.type = "queue" /\ position = "queueOVERWRITE"
               THEN (IF b.n > 0 THEN b.n ELSE 1) ELSE b.n + 1
  <2>1. CASE b.type # "queue"
    BY <1>1, <2>1 DEF prvCopyDataToQueue, QueueFields
  <2>2. CASE b.type = "queue" /\ position = "queueSEND_TO_BACK"
    <3>1. c = ToBack(b, v)
      BY <2>2 DEF prvCopyDataToQueue
    <3> QED
      BY <1>1, <2>2, <3>1 DEF ToBack, QueueFields
  <2>3. CASE b.type = "queue" /\ position = "queueSEND_TO_FRONT"
    <3>1. c = ToFront(b, v)
      BY <2>3 DEF prvCopyDataToQueue
    <3> QED
      BY <1>1, <2>3, <3>1 DEF ToFront, QueueFields
  <2>4. CASE b.type = "queue" /\ position = "queueOVERWRITE"
    <3>1. c = Overwrite(b, v)
      BY <2>4 DEF prvCopyDataToQueue
    <3> QED
      BY <1>1, <2>4, <3>1 DEF Overwrite, ToFront, QueueFields
  <2> QED
    BY <2>1, <2>2, <2>3, <2>4 DEF Position
<1>3. NULL # Idle
  BY NullAssumption, PriorityAssumption
<1> QED
  BY <1>1, <1>2, <1>3 DEF Remains, Counted

LEMMA SendRemains ==
    ASSUME NEW i \in Nat, NEW b, Counted(b, i), NEW v, NEW position \in Position, NEW x,
           b.n # b.length \/ (b.type = "queue" /\ position = "queueOVERWRITE")
    PROVE  /\ \A z : Remains(b, Sent(z, b, x, v, position).b, i)
           /\ \A z : Remains(b, SentFromISR(z, b, x, v, position).b, i + 1)
<1> DEFINE c == prvCopyDataToQueue(b, v, position)
<1>1. Remains(b, c, i) /\ c.rx = b.rx /\ c.tx = b.tx
  BY CopyRemains
<1>2. \A z : Sent(z, b, x, v, position).b = c
  BY DEF Sent
<1>3. \A z : \E count \in {b.tx, b.tx + 1} : SentFromISR(z, b, x, v, position).b = [c EXCEPT !.tx = count]
  BY DEF SentFromISR, CountTx, Deferred
<1> HIDE DEF c
<1>4. \A count \in {b.tx, b.tx + 1} : Remains(b, [c EXCEPT !.tx = count], i + 1)
  BY <1>1 DEF Remains, Counted, QueueFields, queueUNLOCKED
<1> QED
  BY <1>1, <1>2, <1>3, <1>4

LEMMA ReceiveRemains ==
    ASSUME NEW i \in Nat, NEW b, Counted(b, i), b.n # 0, NEW x
    PROVE  /\ \A z : z.cur # Idle => Remains(b, Received(z, b, x).b, i)
           /\ \A z : b.type # "mutex" => Remains(b, ReceivedFromISR(z, b, x).b, i + 1)
<1> DEFINE c == Taken(b)
           out(m) == [c EXCEPT !.holder = IF b.type = "mutex" THEN m ELSE @]
<1>1. /\ DOMAIN c = QueueFields /\ c.type = b.type /\ c.length = b.length /\ c.rx = b.rx /\ c.tx = b.tx
      /\ c.holder = b.holder /\ c.n = b.n - 1
  BY DEF Taken, prvCopyDataFromQueue, Counted, QueueFields
<1>2. \A z : Received(z, b, x).b = out(z.cur)
  BY DEF Received, Taken
<1>3. \A z : \E count \in {b.rx, b.rx + 1} : ReceivedFromISR(z, b, x).b = [c EXCEPT !.rx = count]
  BY DEF ReceivedFromISR, CountRx, Deferred, Taken
<1> HIDE DEF c
<1>4. \A m : m # Idle => Remains(b, out(m), i)
  BY <1>1 DEF Remains, Counted, QueueFields
<1> HIDE DEF out
<1>5. \A count \in {b.rx, b.rx + 1} : b.type # "mutex" => Remains(b, [c EXCEPT !.rx = count], i + 1)
  BY <1>1 DEF Remains, Counted, QueueFields, queueUNLOCKED
<1>6. \A z : z.cur # Idle => Remains(b, Received(z, b, x).b, i)
  BY <1>2, <1>4
<1>7. \A z : b.type # "mutex" => Remains(b, ReceivedFromISR(z, b, x).b, i + 1)
  BY <1>3, <1>5
<1> QED
  BY <1>6, <1>7

\* The counts of every queue, and the kinds of queues, are right.
CountsInv ==
    /\ irqs \in Nat /\ DOMAIN q = DOMAIN App[program].queues
    /\ \A x \in DOMAIN q : Remains(App[program].queues[x], q[x], irqs)
CountsStay == DOMAIN q' = DOMAIN q /\ \A x \in DOMAIN q : Remains(q[x], q'[x], irqs)

LEMMA OneRemains ==
    ASSUME CountsInv, NEW x, NEW b, q' = [q EXCEPT ![x] = b] \/ UNCHANGED q,
           x \in DOMAIN q /\ Counted(q[x], irqs) => Remains(q[x], b, irqs)
    PROVE  CountsStay
<1>1. \A y \in DOMAIN q : Counted(q[y], irqs) /\ Remains(q[y], q[y], irqs)
  BY FieldsRemain DEF CountsInv, Remains
<1> HIDE DEF Counted, Remains
<1> QED
  BY <1>1 DEF CountsStay, CountsInv

\* The daemon, whatever it makes of its timers and sends to itself.
Serves(b, z, i) == DOMAIN z = {"k", "b", "tm"} /\ Remains(b, z.b, i)

LEMMA SendToSelfServes ==
    ASSUME NEW i \in Nat, NEW b, NEW z, Serves(b, z, i), NEW id, NEW x, NEW v
    PROVE  Serves(b, SendToSelf(z, id, x, v), i)
<1> DEFINE done == Sent(z.k, z.b, TimerQueue, [id |-> id, timer |-> x, value |-> v], "queueSEND_TO_BACK")
           y == SendToSelf(z, id, x, v)
<1>1. y = IF prvIsQueueFull(z.b) THEN [z EXCEPT !.k.halted = TRUE] ELSE [z EXCEPT !.k = done.k, !.b = done.b]
  BY DEF SendToSelf, WithQueue
<1>2. DOMAIN z = {"k", "b", "tm"} /\ Remains(b, z.b, i) /\ Counted(z.b, i)
  BY DEF Serves, Remains
<1>3. z.b.n # z.b.length => Remains(z.b, done.b, i)
  <2>1. "queueSEND_TO_BACK" \in Position
    BY DEF Position
  <2> QED
    BY <1>2, <2>1, SendRemains
<1> HIDE DEF done, y
<1>4. DOMAIN y = {"k", "b", "tm"} /\ y.b = IF prvIsQueueFull(z.b) THEN z.b ELSE done.b
  BY <1>1, <1>2
<1> QED
  BY <1>2, <1>3, <1>4 DEF Serves, Remains, prvIsQueueFull, y

LEMMA ExpireServes ==
    ASSUME NEW i \in Nat, NEW b, NEW z, Serves(b, z, i), NEW j
    PROVE  Serves(b, Expire(z, j), i)
<1> DEFINE x == Head(z.tm.current)
           at == z.tm.expiry[x]
           w == [z EXCEPT !.tm = pxCallbackFunction(RemoveTimer(@, x), x)]
<1>1. Expire(z, j) \in {z, Reload(w, x, at)}
  BY Zenon DEF Expire, ExpireHead
<1>2. Serves(b, w, i)
  BY DEF Serves
<1> HIDE DEF w, x, at
<1> DEFINE listed(expiry, l) == [w EXCEPT !.tm.expiry = expiry, !.tm.current = l]
<1>3. \/ Reload(w, x, at) = w
      \/ \E expiry, l : Reload(w, x, at) = listed(expiry, l)
      \/ Reload(w, x, at) = SendToSelf(w, "tmrCOMMAND_START_DONT_TRACE", x, at)
  BY Zenon DEF Reload
<1>4. \A expiry, l : Serves(b, listed(expiry, l), i)
  BY <1>2 DEF Serves
<1> HIDE DEF listed
<1>5. Serves(b, SendToSelf(w, "tmrCOMMAND_START_DONT_TRACE", x, at), i)
  BY <1>2, SendToSelfServes
<1>6. Serves(b, Reload(w, x, at), i)
  BY <1>2, <1>3, <1>4, <1>5, Zenon
<1> QED
  BY <1>1, <1>6

LEMMA SampleServes ==
    ASSUME NEW i \in Nat, NEW b, NEW z, Serves(b, z, i), IsFiniteSet(DOMAIN z.tm.period)
    PROVE  Serves(b, prvSampleTimeNow(z), i)
<1> DEFINE n == Ticks * Cardinality(DOMAIN z.tm.period)
           l == [j \in 1 .. n |-> j]
           w == FoldLeft(Expire, z, l)
<1>1. n \in Nat /\ DOMAIN l = 1 .. n
  <2>1. Cardinality(DOMAIN z.tm.period) \in Nat
    BY FS_CardinalityType
  <2>2. \A c, d \in Nat : c * d \in Nat
    OBVIOUS
  <2> QED
    BY <2>1, <2>2, TicksAssumption
<1> HIDE DEF l, n
<1>2. Outcome("expire", z, l, n, FoldLeft(Expire, z, l))
  BY <1>1, ExpireLoop
<1>3. PICK after : InTurn("expire", z, l, n, after) /\ after[n] = FoldLeft(Expire, z, l)
  BY <1>2 DEF Outcome
<1>4. after[0] = z /\ \A j \in 1 .. n : after[j] = Expire(after[j - 1], l[j])
  BY <1>3, Bodies DEF InTurn
<1> DEFINE S == {j \in 0 .. n : Serves(b, after[j], i)}
<1>5. 0 \in S /\ \A j \in 1 .. n : j - 1 \in S => j \in S
  BY <1>1, <1>4, ExpireServes
<1>6. Serves(b, w, i)
  <2> HIDE DEF S
  <2>1. n \in S
    BY <1>1, <1>5, Climb
  <2> QED
    BY <1>3, <2>1 DEF S
<1>7. prvSwitchTimerLists(z) = SwapLists(w)
  BY Zenon DEF prvSwitchTimerLists, l, n
<1> HIDE DEF w
<1>8. Serves(b, SwapLists(w), i)
  BY <1>6 DEF Serves, SwapLists
<1>9. \A y : Serves(b, y, i) => Serves(b, [y EXCEPT !.tm.last = z.k.tick], i)
  BY DEF Serves
<1>10. prvSampleTimeNow(z) \in {[z EXCEPT !.tm.last = z.k.tick], [prvSwitchTimerLists(z) EXCEPT !.tm.last = z.k.tick]}
  BY Zenon DEF prvSampleTimeNow
<1> QED
  BY <1>7, <1>8, <1>9, <1>10

LEMMA StartServes ==
    ASSUME NEW i \in Nat, NEW b, NEW z, Serves(b, z, i), NEW x, NEW v, NEW set
    PROVE  Serves(b, Started(z, x, v, set), i)
<1> DEFINE m == [set.m EXCEPT !.age[x] = Since(z.k.tick, v)]
           w == [z EXCEPT !.tm = pxCallbackFunction(m, x)]
           due == (v + w.tm.period[x]) % Ticks
<1>1. Serves(b, w, i) /\ Serves(b, [z EXCEPT !.tm = m], i)
  BY DEF Serves
<1>2. Started(z, x, v, set) \in {Late(w, x, v), [z EXCEPT !.tm = m]}
  BY Zenon DEF Started
<1> HIDE DEF w, m
<1>3. Late(w, x, v) \in {w, SendToSelf(w, "tmrCOMMAND_START_DONT_TRACE", x, due)}
  BY Zenon DEF Late
<1> QED
  BY <1>1, <1>2, <1>3, SendToSelfServes

LEMMA ExecuteServes ==
    ASSUME NEW i \in Nat, NEW b, NEW z, Serves(b, z, i), NEW c, Execute(z, c)
    PROVE  \E y : Serves(b, y, i) /\ q' = [q EXCEPT ![TimerQueue] = y.b]
<1>1. PICK y : Adopt(y) /\ \/ \E set : y = Started(z, c.timer, c.value, set)
                           \/ y = PeriodChanged(z, c.timer, c.value)
                           \/ y = [z EXCEPT !.tm.active[c.timer] = FALSE]
  BY Zenon DEF Execute
<1>2. Serves(b, PeriodChanged(z, c.timer, c.value), i) /\ Serves(b, [z EXCEPT !.tm.active[c.timer] = FALSE], i)
  BY DEF Serves, PeriodChanged
<1>3. Serves(b, y, i)
  BY <1>1, <1>2, StartServes
<1> QED
  BY <1>1, <1>3 DEF Adopt

LEMMA TryCounts ==
    ASSUME CountsInv, program \in Program, InScript, NEW t \in Task \ {Idle}, TryQueue(t)
    PROVE  CountsStay
<1> DEFINE x == X(t)
           b == q[x]
           c == Count(t, Success(t)).b
<1>1. LegalCall(program, Now(t)) /\ x = Now(t).x /\ irqs \in Nat
  BY NowIsLegal DEF X, CountsInv
<1>2. UNCHANGED q \/ (Able(t) /\ q' = [q EXCEPT ![x] = c])
  BY DEF TryQueue, Becomes
<1>3. ASSUME Able(t), x \in DOMAIN q, Counted(b, irqs) PROVE Remains(b, c, irqs)
  <2>1. b.type = App[program].queues[x].type /\ b.length = App[program].queues[x].length
    BY <1>3 DEF CountsInv, Remains
  <2>2. CASE Now(t).op \in SendOp
    <3>1. c = Sent(k, b, x, ItemOf(t), Now(t).position).b
      BY <1>1, <2>2 DEF Success, Count, SendOp
    <3>2. Now(t).position \in Position /\ (Now(t).position = "queueOVERWRITE" => b.type = "queue")
      BY <1>1, <2>1, <2>2 DEF LegalCall, Overwritten
    <3>3. b.n # b.length \/ Now(t).position = "queueOVERWRITE"
      BY <1>3, <2>2 DEF Able, prvIsQueueFull
    <3> HIDE DEF b, c, x
    <3> QED
      BY <1>1, <1>3, <3>1, <3>2, <3>3, SendRemains
  <2>3. CASE Now(t).op = "xQueuePeek"
    <3>1. c = b
      BY <1>1, <2>3 DEF Success, Count, SendOp, Peeked
    <3> QED
      BY <1>1, <1>3, <3>1, FieldsRemain
  <2>4. CASE Now(t).op \notin SendOp /\ Now(t).op # "xQueuePeek"
    <3> DEFINE d == Received(k, b, x).b
    <3>1. Success(t) = Received(k, b, x)
      BY <1>1, <2>4 DEF Success
    <3>2. c = d \/ c = [d EXCEPT !.rec = @ + 1]
      BY <3>1 DEF Count, Received
    <3>3. b.n # 0 /\ k.cur # Idle
      BY <1>3, <2>4 DEF Able, prvIsQueueEmpty, TryQueue, Calls, Runs
    <3> HIDE DEF b, c, x
    <3>4. Remains(b, d, irqs)
      BY <1>1, <1>3, <3>3, ReceiveRemains
    <3> HIDE DEF d
    <3>5. Counted(d, irqs)
      BY <3>4 DEF Remains
    <3>6. \A r : Remains(d, [d EXCEPT !.rec = r], irqs)
      BY <1>1, <3>5, FieldsRemain
    <3> QED
      BY <3>2, <3>4, <3>6 DEF Remains
  <2> QED
    BY <2>2, <2>3, <2>4
<1> HIDE DEF c
<1>4. q' = [q EXCEPT ![x] = c] => CountsStay
  <2>1. CASE Able(t)
    BY <1>3, <2>1, OneRemains
  <2>2. CASE ~Able(t) /\ UNCHANGED q
    BY <1>1, <2>2, FieldsRemain, OneRemains
  <2> QED
    BY <1>2, <2>1, <2>2
<1>5. UNCHANGED q => CountsStay
  BY <1>1, FieldsRemain, OneRemains
<1> QED
  BY <1>2, <1>4, <1>5

LEMMA GiveCounts ==
    ASSUME CountsInv, program \in Program, InScript, NEW t \in Task, xQueueGiveMutexRecursive(t)
    PROVE  CountsStay
<1> DEFINE x == X(t)
           b == q[x]
           c == [b EXCEPT !.rec = @ - 1]
           done == IF c.rec = 0 THEN Sent(k, c, x, NULL, "queueSEND_TO_BACK") ELSE [k |-> k, b |-> c]
<1>1. UNCHANGED q \/ (b.holder = t /\ q' = [q EXCEPT ![x] = done.b])
  BY DEF xQueueGiveMutexRecursive, Becomes
<1>2. irqs \in Nat /\ t # NULL
  BY NullAssumption DEF CountsInv
<1>3. ASSUME b.holder = t, Counted(b, irqs) PROVE Remains(b, done.b, irqs)
  <2>1. Remains(b, c, irqs)
    BY <1>2, <1>3, FieldsRemain
  <2>2. c.n # c.length
    BY <1>2, <1>3 DEF Counted
  <2>3. "queueSEND_TO_BACK" \in Position
    BY DEF Position
  <2> HIDE DEF b, c, x
  <2>4. Remains(c, Sent(k, c, x, NULL, "queueSEND_TO_BACK").b, irqs)
    BY <1>2, <2>1, <2>2, <2>3, SendRemains DEF Remains
  <2>5. done.b \in {c, Sent(k, c, x, NULL, "queueSEND_TO_BACK").b}
    OBVIOUS
  <2> HIDE DEF done
  <2> QED
    BY <2>1, <2>4, <2>5 DEF Remains
<1> HIDE DEF done
<1> QED
  BY <1>1, <1>2, <1>3, FieldsRemain, OneRemains

LEMMA QueueCounts ==
    ASSUME CountsInv, program \in Program, InScript, NEW t \in Task \ {Idle}, QueueStep(t)
    PROVE  CountsStay
<1> DEFINE x == X(t)
           b == q[x]
<1>0. irqs \in Nat
  BY DEF CountsInv
<1>1. CASE TryQueue(t)
  BY <1>1, TryCounts
<1>2. CASE xQueueGiveMutexRecursive(t)
  BY <1>2, GiveCounts
<1>3. CASE TakeAgain(t)
  <2>1. q' = [q EXCEPT ![x] = [b EXCEPT !.rec = @ + 1]]
    BY <1>3 DEF TakeAgain
  <2> QED
    BY <1>0, <2>1, FieldsRemain, OneRemains
<1>4. CASE LockQueue(t)
  <2>1. q' = [q EXCEPT ![x] = prvLockQueue(b)]
    BY <1>4 DEF LockQueue
  <2> QED
    BY <1>0, <2>1, FieldsRemain, OneRemains
<1>5. CASE UnlockTx(t)
  <2>1. q' = [q EXCEPT ![x] = [b EXCEPT !.tx = queueUNLOCKED]]
    BY <1>5 DEF UnlockTx
  <2> QED
    BY <1>0, <2>1, FieldsRemain, OneRemains
<1>6. CASE UnlockRx(t)
  <2>1. q' = [q EXCEPT ![x] = [b EXCEPT !.rx = queueUNLOCKED]]
    BY <1>6 DEF UnlockRx
  <2> QED
    BY <1>0, <2>1, FieldsRemain, OneRemains
<1>7. CASE ResetQueue(t)
  <2> DEFINE c == xQueueGenericReset(k, b, x).b
  <2>1. q' = [q EXCEPT ![x] = c]
    BY <1>7 DEF ResetQueue, Becomes
  <2>2. c = [b EXCEPT !.n = 0, !.w = 0, !.r = b.length - 1, !.rx = queueUNLOCKED, !.tx = queueUNLOCKED]
    BY DEF xQueueGenericReset
  <2>3. Counted(b, irqs) => Remains(b, c, irqs)
    BY <1>0, <2>2 DEF Remains, Counted, QueueFields, queueUNLOCKED
  <2> HIDE DEF c
  <2> QED
    BY <2>1, <2>3, OneRemains
<1>8. CASE UNCHANGED q
  BY <1>0, <1>8, FieldsRemain, OneRemains
<1> QED
  BY <1>1, <1>2, <1>3, <1>4, <1>5, <1>6, <1>7, <1>8
     DEF QueueStep, ReadCommandTime, SuspendForQueue, BlockOnQueue, ResumeFromQueue, LateForQueue,
         DisinheritLate

LEMMA TimerCounts ==
    ASSUME CountsInv, NEW t \in Task \ {Idle}, TimerStep(t), TimersOK(tm, Timer)
    PROVE  CountsStay
<1> DEFINE b == q[TimerQueue]
           Sound(c) == Counted(b, irqs) => Remains(b, c, irqs)
<1>0. irqs \in Nat
  BY DEF CountsInv
<1>1. ASSUME NEW c, Sound(c), q' = [q EXCEPT ![TimerQueue] = c] PROVE CountsStay
  BY <1>1, OneRemains
<1>2. ASSUME Counted(b, irqs) PROVE Serves(b, Daemons, irqs)
  BY <1>0, <1>2, FieldsRemain DEF Serves, Daemons
<1>3. CASE ExpireOrBlock(t)
  <2> DEFINE y == [Daemons EXCEPT !.k = vTaskSuspendAll(@)]
             z == prvSampleTimeNow(y)
  <2>1. \/ q' = [q EXCEPT ![TimerQueue] = prvLockQueue(b)]
        \/ q' = [q EXCEPT ![TimerQueue] = z.b]
    BY <1>3, Zenon DEF ExpireOrBlock, Adopt
  <2>2. Sound(prvLockQueue(b))
    BY <1>0, FieldsRemain
  <2>3. Sound(z.b)
    <3> SUFFICES ASSUME Counted(b, irqs) PROVE Remains(b, z.b, irqs)
      OBVIOUS
    <3>1. Serves(b, y, irqs) /\ y.tm = tm /\ IsFiniteSet(DOMAIN y.tm.period)
      BY <1>2 DEF Serves, Daemons, TimersOK
    <3> HIDE DEF y
    <3> QED
      BY <1>0, <3>1, SampleServes DEF Serves
  <2> HIDE DEF Sound, z
  <2> QED
    BY <1>1, <2>1, <2>2, <2>3
<1>4. CASE prvProcessExpiredTimer(t)
  <2> DEFINE x == Head(tm.current)
             at == tm.expiry[x]
             out == RemoveTimer(tm, x)
             set == prvInsertTimerInActiveList(out, x, (at + tm.period[x]) % Ticks, call[t].size, at)
             z == [Daemons EXCEPT !.tm = set.m]
             sent == SendToSelf(z, "tmrCOMMAND_START_DONT_TRACE", x, at)
             still == [z EXCEPT !.tm = [out EXCEPT !.active[x] = FALSE]]
             queued == IF set.late THEN sent ELSE z
             y == IF tm.auto[x] THEN queued ELSE still
             w == [y EXCEPT !.tm = pxCallbackFunction(@, x)]
  <2>1. Adopt(w)
    BY <1>4, Zenon DEF prvProcessExpiredTimer
  <2>2. Sound(w.b)
    <3> SUFFICES ASSUME Counted(b, irqs) PROVE Remains(b, w.b, irqs)
      OBVIOUS
    <3> HIDE DEF x, at, out, set
    <3>1. Serves(b, z, irqs) /\ Serves(b, still, irqs)
      BY <1>2 DEF Serves
    <3> HIDE DEF z, still
    <3>2. Serves(b, sent, irqs)
      BY <1>0, <3>1, SendToSelfServes
    <3> HIDE DEF sent
    <3>3. Serves(b, y, irqs)
      BY <3>1, <3>2
    <3> HIDE DEF y
    <3> QED
      BY <3>3 DEF Serves
  <2> HIDE DEF Sound, w
  <2> QED
    BY <1>1, <2>1, <2>2 DEF Adopt
<1>5. CASE ReceiveCommand(t)
  <2>1. UNCHANGED q \/ (b.n # 0 /\ q' = [q EXCEPT ![TimerQueue] = Received(k, b, TimerQueue).b])
    BY <1>5 DEF ReceiveCommand, Fetch, prvIsQueueEmpty
  <2>2. b.n # 0 => Sound(Received(k, b, TimerQueue).b)
    <3>1. k.cur # Idle
      BY <1>5, Running DEF ReceiveCommand, Fetch
    <3> QED
      BY <1>0, <3>1, ReceiveRemains
  <2>3. CASE UNCHANGED q
    BY <1>0, <2>3, FieldsRemain, OneRemains
  <2> HIDE DEF Sound
  <2> QED
    BY <1>1, <2>1, <2>2, <2>3
<1>6. CASE ProcessCommand(t)
  <2> DEFINE y == [Daemons EXCEPT !.tm = RemoveTimer(@, tm.message.timer)]
  <2>1. Execute(prvSampleTimeNow(y), tm.message)
    BY <1>6, Zenon DEF ProcessCommand
  <2>2. PICK c : Sound(c) /\ q' = [q EXCEPT ![TimerQueue] = c]
    <3>1. CASE Counted(b, irqs)
      <4>1. Serves(b, y, irqs) /\ y.tm = RemoveTimer(tm, tm.message.timer)
        BY <1>2, <3>1 DEF Serves, Daemons
      <4>2. IsFiniteSet(DOMAIN y.tm.period)
        <5>1. RemoveTimer(tm, tm.message.timer).period = tm.period /\ IsFiniteSet(DOMAIN tm.period)
          BY DEF RemoveTimer, TimersOK, TimerFields
        <5> QED
          BY <4>1, <5>1
      <4> HIDE DEF y
      <4>3. Serves(b, prvSampleTimeNow(y), irqs)
        BY <1>0, <4>1, <4>2, SampleServes
      <4>4. PICK z : Serves(b, z, irqs) /\ q' = [q EXCEPT ![TimerQueue] = z.b]
        BY <1>0, <2>1, <4>3, ExecuteServes
      <4> QED
        BY <4>4 DEF Serves
    <3>2. CASE ~Counted(b, irqs)
      <4>1. \E z : q' = [q EXCEPT ![TimerQueue] = z.b]
        BY <1>6, Zenon DEF ProcessCommand, Execute, Adopt
      <4> QED
        BY <3>2, <4>1
    <3> QED
      BY <3>1, <3>2
  <2> HIDE DEF Sound
  <2> QED
    BY <1>1, <2>2
<1>7. CASE UNCHANGED q
  BY <1>0, <1>7, FieldsRemain, OneRemains
<1> QED
  BY <1>3, <1>4, <1>5, <1>6, <1>7 DEF TimerStep, ResumeDaemon

\* An interrupt is counted, and adds one to one count at most.
LEMMA InterruptCounts ==
    ASSUME CountsInv, program \in Program, Interrupt
    PROVE  DOMAIN q' = DOMAIN q /\ \A x \in DOMAIN q : Remains(q[x], q'[x], irqs')
<1>1. PICK c \in App[program].handlers : Handler(c)
  BY DEF Interrupt
<1>2. irqs \in Nat /\ irqs' = irqs + 1
  BY DEF Interrupt, CountsInv
<1>3. LegalHandler(program, c)
  BY AppAssumption
<1>4. ASSUME NEW x \in DOMAIN q
      PROVE  /\ Counted(q[x], irqs) /\ Remains(q[x], q[x], irqs + 1)
             /\ q[x].type = App[program].queues[x].type /\ q[x].length = App[program].queues[x].length
  BY <1>2 DEF CountsInv, Remains, Counted, queueUNLOCKED
<1>5. ASSUME NEW x, NEW b, q' = [q EXCEPT ![x] = b], x \in DOMAIN q => Remains(q[x], b, irqs + 1)
      PROVE  DOMAIN q' = DOMAIN q /\ \A y \in DOMAIN q : Remains(q[y], q'[y], irqs + 1)
  <2> HIDE DEF Remains
  <2> QED
    BY <1>4, <1>5 DEF CountsInv
<1>6. ASSUME NEW x, NEW v, NEW position \in Position, SendFromISR(x, v, position),
             position = "queueOVERWRITE" => App[program].queues[x].type = "queue"
      PROVE  DOMAIN q' = DOMAIN q /\ \A y \in DOMAIN q : Remains(q[y], q'[y], irqs + 1)
  <2>1. /\ q' = [q EXCEPT ![x] = SentFromISR(k, q[x], x, v, position).b]
        /\ q[x].n # q[x].length \/ position = "queueOVERWRITE"
    BY <1>6 DEF SendFromISR, Becomes, prvIsQueueFull
  <2>2. x \in DOMAIN q => Remains(q[x], SentFromISR(k, q[x], x, v, position).b, irqs + 1)
    BY <1>2, <1>4, <1>6, <2>1, SendRemains
  <2> QED
    BY <1>5, <2>1, <2>2
<1>7. CASE c.op = "xQueueGenericSendFromISR"
  <2>1. SendFromISR(c.x, c.v, c.position)
    BY <1>1, <1>7 DEF Handler
  <2>2. c.position \in Position /\ (c.position = "queueOVERWRITE" => App[program].queues[c.x].type = "queue")
    BY <1>3, <1>7 DEF LegalHandler, LegalCall, Overwritten
  <2> QED
    BY <1>2, <1>6, <2>1, <2>2
<1>8. CASE c.op = "xTimerGenericCommand"
  <2>1. \E v : SendFromISR(TimerQueue, v, "queueSEND_TO_BACK")
    BY <1>1, <1>8 DEF Handler
  <2>2. "queueSEND_TO_BACK" \in Position
    BY DEF Position
  <2> QED
    BY <1>2, <1>6, <2>1, <2>2
<1>9. CASE c.op = "xQueueReceiveFromISR"
  <2>1. q' = [q EXCEPT ![c.x] = ReceivedFromISR(k, q[c.x], c.x).b] /\ q[c.x].n # 0
    BY <1>1, <1>9 DEF Handler, ReceiveFromISR, Becomes, prvIsQueueEmpty
  <2>2. c.x \notin Mutexes(program)
    BY <1>3, <1>9 DEF LegalHandler, LegalCall
  <2>3. c.x \in DOMAIN q => Remains(q[c.x], ReceivedFromISR(k, q[c.x], c.x).b, irqs + 1)
    <3>1. c.x \in DOMAIN q => q[c.x].type # "mutex"
      BY <1>4, <2>2 DEF Mutexes, CountsInv
    <3> QED
      BY <1>2, <1>4, <2>1, <3>1, ReceiveRemains
  <2> QED
    BY <1>2, <1>5, <2>1, <2>3
<1>10. CASE UNCHANGED q
  BY <1>2, <1>4, <1>10
<1> QED
  BY <1>1, <1>7, <1>8, <1>9, <1>10 DEF Handler, ResumeFromISR, NotifyFromISR, StreamSendFromISR, StreamReceiveFromISR

LEMMA CountsNext ==
    ASSUME CountsInv, ListsInv, IdleHome, [Next]_vars
    PROVE  CountsInv'
<1>1. program \in Program /\ InScript /\ UNCHANGED program /\ TimersOK(tm, Timer) /\ irqs \in Nat
  <2>1. UNCHANGED program
    BY ScriptStep, FitsNext DEF ListsInv
  <2> QED
    BY <2>1 DEF ListsInv, CountsInv
<1>2. ASSUME CountsStay, irqs' \in {irqs, irqs + 1} PROVE CountsInv'
  BY <1>1, <1>2 DEF CountsInv, CountsStay, Remains, Counted, queueUNLOCKED
<1>3. ASSUME UNCHANGED q, irqs' \in {irqs, irqs + 1} PROVE CountsInv'
  <2>1. CountsStay
    BY <1>1, <1>3, FieldsRemain, OneRemains
  <2> QED
    BY <1>2, <1>3, <2>1
<1>4. CASE QueueCall
  BY <1>1, <1>2, <1>4, QueueCounts, NotIdle DEF QueueCall
<1>5. CASE TimerCall
  BY <1>1, <1>2, <1>5, TimerCounts, NotIdle DEF TimerCall
<1>6. CASE Interrupt
  <2>1. irqs' = irqs + 1 /\ DOMAIN q' = DOMAIN q /\ \A x \in DOMAIN q : Remains(q[x], q'[x], irqs')
    BY <1>1, <1>6, InterruptCounts DEF Interrupt
  <2> QED
    BY <1>1, <2>1 DEF CountsInv, Remains
<1>7. CASE UNCHANGED vars \/ xPortSysTickHandler \/ xPortPendSVHandler \/ ControlCall \/ GroupCall \/ StreamCall
           \/ IdleLoop
  BY <1>3, <1>7
     DEF vars, xPortSysTickHandler, xPortPendSVHandler, ControlCall, GroupCall, StreamCall, IdleLoop
<1> QED
  BY <1>4, <1>5, <1>6, <1>7 DEF Next

LEMMA CountsInit == Init => CountsInv
<1> SUFFICES ASSUME Init PROVE CountsInv
  OBVIOUS
<1>1. q = App[program].queues /\ program \in Program /\ irqs = 0
  BY DEF Init, QueueInit, CallInit
<1>2. ASSUME NEW x \in DOMAIN q PROVE Counted(q[x], irqs)
  <2>1. Unused(q[x])
    <3>1. \A y \in DOMAIN App[program].queues : Unused(App[program].queues[y])
      BY <1>1, AppAssumption, Zenon
    <3> QED
      BY <1>1, <3>1
  <2>2. q[x].type = "mutex" => LegalMutex(q[x])
    <3>1. \A y \in Mutexes(program) : LegalMutex(App[program].queues[y])
      BY <1>1, AppAssumption, Zenon
    <3> QED
      BY <1>1, <3>1 DEF Mutexes
  <2>3. LegalMutex(q[x]) => q[x].length = 1
    BY DEF LegalMutex, prvInitialiseMutex, prvInitialiseNewQueue
  <2>4. NULL # Idle
    BY NullAssumption, PriorityAssumption
  <2> QED
    BY <1>1, <2>1, <2>2, <2>3, <2>4 DEF Unused, Counted, queueUNLOCKED
<1> QED
  BY <1>1, <1>2 DEF CountsInv, Remains

\* CountsOK (RtosProperties): no queue, semaphore or mutex ever holds more than
\* it has room for, however sends, takes, overwrites and resets of tasks, of
\* interrupts and of the daemon meet; a mutex that is held cannot be taken; and
\* the counts of what happened while a queue was locked never exceed the number
\* of interrupts there were.
THEOREM QueueCountsOK == Spec /\ []NewTasks => []CountsOK
<1>1. CountsInv => CountsOK
  BY DEF CountsInv, CountsOK, Remains, Counted
<1> QED
  BY <1>1, CountsInit, CountsNext, IdleHomeInit, IdleHomeNext, ListsInvInit, ListsInvNext, PTL DEF Spec

----------------------------------------------------------------------------
(* The idle task stays ready                                                *)

\* The idle task is in its ready list, at its priority.
Seated(z) == DOMAIN z = Fields /\ DOMAIN z.ready = Prio /\ Idle \in DOMAIN z.prio /\ Circular(z.ready[0])
Rooted(z) == Seated(z) /\ z.prio[Idle] = 0 /\ Contains(z.ready[0].items, Idle)

LEMMA RootedSame ==
    ASSUME NEW z, NEW y, DOMAIN y = Fields, y.ready = z.ready, y.prio = z.prio
    PROVE  (Rooted(z) => Rooted(y)) /\ (Seated(z) => Seated(y))
  BY DEF Rooted, Seated

\* Steps that do nothing to the ready lists and to priorities.
LEMMA RootedPlain ==
    ASSUME NEW z, Rooted(z), NEW c, NEW t
    PROVE  /\ Rooted(configASSERT(z, c)) /\ Rooted(YieldIf(z, c)) /\ Rooted(portYIELD_WITHIN_API(z))
           /\ Rooted(vTaskMissedYield(z)) /\ Rooted(vTaskSuspendAll(z)) /\ Rooted(prvResetNextTaskUnblockTime(z))
           /\ Rooted(taskRESET_READY_PRIORITY(z, c)) /\ Rooted(RemoveEvent(z, t)) /\ Rooted(SleepUntil(z, t, c))
           /\ Rooted(Advance(z))
<1>1. DOMAIN z = Fields
  BY DEF Rooted, Seated
<1>2. ASSUME NEW y, DOMAIN y = Fields, y.ready = z.ready, y.prio = z.prio PROVE Rooted(y)
  BY <1>2, RootedSame
<1>3. /\ Rooted(configASSERT(z, c)) /\ Rooted(YieldIf(z, c)) /\ Rooted(portYIELD_WITHIN_API(z))
      /\ Rooted(vTaskMissedYield(z)) /\ Rooted(vTaskSuspendAll(z))
  BY <1>1, <1>2 DEF configASSERT, YieldIf, portYIELD_WITHIN_API, vTaskMissedYield, vTaskSuspendAll, Fields
<1>4. Rooted(prvResetNextTaskUnblockTime(z)) /\ Rooted(taskRESET_READY_PRIORITY(z, c))
  BY <1>1, <1>2 DEF prvResetNextTaskUnblockTime, taskRESET_READY_PRIORITY, Fields
<1>5. Rooted(RemoveEvent(z, t)) /\ Rooted(SleepUntil(z, t, c))
  BY <1>1, <1>2 DEF RemoveEvent, SleepUntil, Fields
<1>6. Rooted(Advance(z))
  BY <1>1, <1>2 DEF Advance, taskSWITCH_DELAYED_LISTS, prvResetNextTaskUnblockTime, configASSERT, Fields
<1> QED
  BY <1>3, <1>4, <1>5, <1>6

\* So with one field of the kernel.
LEMMA RootedField ==
    ASSUME NEW z, Rooted(z), NEW v, NEW t
    PROVE  /\ Rooted([z EXCEPT !.yield = v]) /\ Rooted([z EXCEPT !.halted = v]) /\ Rooted([z EXCEPT !.pendsv = v])
           /\ Rooted([z EXCEPT !.susp = v]) /\ Rooted([z EXCEPT !.pended = v]) /\ Rooted([z EXCEPT !.events = v])
           /\ Rooted([z EXCEPT !.suspended = v]) /\ Rooted([z EXCEPT !.dying = v]) /\ Rooted([z EXCEPT !.cur = v])
           /\ Rooted([z EXCEPT !.note[t] = v]) /\ Rooted([z EXCEPT !.held[t] = v]) /\ Rooted([z EXCEPT !.tick = v])
           /\ Rooted([z EXCEPT !.bits = v]) /\ Rooted([z EXCEPT !.key[t] = v])
<1>1. DOMAIN z = Fields
  BY DEF Rooted, Seated
<1>2. ASSUME NEW y, DOMAIN y = Fields, y.ready = z.ready, y.prio = z.prio PROVE Rooted(y)
  BY <1>2, RootedSame
<1> QED
  BY <1>1, <1>2 DEF Fields

LEMMA RootedRemove ==
    ASSUME NEW z, Seated(z), NEW t
    PROVE  Seated(RemoveState(z, t)) /\ (t # Idle /\ Rooted(z) => Rooted(RemoveState(z, t)))
           /\ RemoveState(z, t).prio = z.prio
<1> DEFINE y == RemoveState(z, t)
<1>1. DOMAIN z = Fields /\ 0 \in Prio
  BY PriorityAssumption DEF Seated, Prio
<1>2. DOMAIN y = Fields /\ y.ready = [p \in Prio |-> uxListRemove(z.ready[p], t)] /\ y.prio = z.prio
  BY <1>1 DEF RemoveState, Fields
<1> HIDE DEF y
<1>3. DOMAIN y.ready = Prio /\ y.ready[0] = uxListRemove(z.ready[0], t)
  BY <1>1, <1>2
<1>4. Circular(y.ready[0]) /\ (t # Idle /\ Contains(z.ready[0].items, Idle) => Contains(y.ready[0].items, Idle))
  BY <1>3, CircularRemove DEF Seated
<1> QED
  BY <1>2, <1>3, <1>4 DEF Seated, Rooted, y

LEMMA RootedAdd ==
    ASSUME NEW z, Seated(z), NEW t
    PROVE  /\ Seated(prvAddTaskToReadyList(z, t)) /\ prvAddTaskToReadyList(z, t).prio = z.prio
           /\ Rooted(z) => Rooted(prvAddTaskToReadyList(z, t))
           /\ t = Idle /\ z.prio[Idle] = 0 => Rooted(prvAddTaskToReadyList(z, t))
<1> DEFINE y == prvAddTaskToReadyList(z, t)
           p == z.prio[t]
<1>1. DOMAIN z = Fields /\ 0 \in Prio /\ DOMAIN z.ready = Prio
  BY PriorityAssumption DEF Seated, Prio
<1>2. DOMAIN y = Fields /\ y.ready = [z.ready EXCEPT ![p] = vListInsertEnd(@, t)] /\ y.prio = z.prio
  BY <1>1 DEF prvAddTaskToReadyList, Fields
<1> HIDE DEF y
<1>3. DOMAIN y.ready = Prio /\ y.ready[0] = IF p = 0 THEN vListInsertEnd(z.ready[0], t) ELSE z.ready[0]
  BY <1>1, <1>2
<1>4. Circular(z.ready[0])
  BY DEF Seated
<1>5. /\ Circular(y.ready[0]) /\ (Contains(z.ready[0].items, Idle) => Contains(y.ready[0].items, Idle))
      /\ p = 0 => Contains(y.ready[0].items, t)
  BY <1>3, <1>4, CircularInsert
<1> QED
  BY <1>2, <1>3, <1>5 DEF Seated, Rooted, y

\* A task that becomes ready, be it the idle task, does not drive it out.
LEMMA RootedReady ==
    ASSUME NEW z, Rooted(z), NEW t
    PROVE  Rooted(MakeReady(z, t))
<1> DEFINE w == RemoveEvent(z, t)
           x == RemoveState(w, t)
<1>1. Rooted(w)
  BY RootedPlain
<1> HIDE DEF w
<1>2. Seated(x) /\ x.prio[Idle] = 0 /\ (t # Idle => Rooted(x))
  BY <1>1, RootedRemove DEF Rooted
<1> HIDE DEF x
<1>3. Rooted(prvAddTaskToReadyList(x, t))
  BY <1>2, RootedAdd
<1> QED
  BY <1>3 DEF MakeReady, x, w

LEMMA RootedLeave ==
    ASSUME NEW z, Rooted(z), NEW t, t # Idle
    PROVE  Rooted(Leave(z, t))
<1>1. Rooted(RemoveState(z, t))
  BY RootedRemove DEF Rooted
<1> QED
  BY <1>1, RootedPlain DEF Leave

LEMMA RootedBlock ==
    ASSUME NEW z, Rooted(z), z.cur # Idle, NEW ticks, NEW forever
    PROVE  Rooted(prvAddCurrentTaskToDelayedList(z, ticks, forever))
<1> DEFINE w == Leave(z, z.cur)
<1>1. Rooted(w)
  BY RootedLeave
<1> HIDE DEF w
<1>2. \A v, a : Rooted([w EXCEPT !.suspended = v]) /\ Rooted(SleepUntil(w, z.cur, a))
  BY <1>1, RootedField, RootedPlain
<1>3. prvAddCurrentTaskToDelayedList(z, ticks, forever)
      = IF ticks = portMAX_DELAY /\ forever THEN [w EXCEPT !.suspended = Append(w.suspended, z.cur)]
        ELSE SleepUntil(w, z.cur, (z.tick + ticks) % Ticks)
  BY Zenon DEF prvAddCurrentTaskToDelayedList, w
<1> QED
  BY <1>2, <1>3

----------------------------------------------------------------------------
(* The loops and the functions of tasks.c                                   *)

LEMMA RootedLoop ==
    ASSUME NEW loop, NEW z, NEW l, NEW n \in Nat, NEW y, Outcome(loop, z, l, n, y),
           Rooted(z), \A w, x : Rooted(w) => Rooted(Body(loop, w, x))
    PROVE  Rooted(y)
<1>1. PICK after : InTurn(loop, z, l, n, after) /\ after[n] = y
  BY DEF Outcome
<1>2. after[0] = z /\ \A i \in 1 .. n : after[i] = Body(loop, after[i - 1], l[i])
  BY <1>1, Zenon DEF InTurn
<1> DEFINE S == {i \in 0 .. n : Rooted(after[i])}
<1>3. 0 \in S /\ \A i \in 1 .. n : i - 1 \in S => i \in S
  BY <1>2
<1> HIDE DEF S
<1>4. n \in S
  BY <1>3, Climb
<1> QED
  BY <1>1, <1>4 DEF S

\* Where the kernel is a field of what the loop works on.
LEMMA RootedInLoop ==
    ASSUME NEW loop, NEW z, NEW l, NEW n \in Nat, NEW y, Outcome(loop, z, l, n, y),
           NEW S, DOMAIN z = S /\ Rooted(z.k),
           \A w, x : DOMAIN w = S /\ Rooted(w.k) => DOMAIN Body(loop, w, x) = S /\ Rooted(Body(loop, w, x).k)
    PROVE  Rooted(y.k)
<1>1. PICK after : InTurn(loop, z, l, n, after) /\ after[n] = y
  BY DEF Outcome
<1>2. after[0] = z /\ \A i \in 1 .. n : after[i] = Body(loop, after[i - 1], l[i])
  BY <1>1, Zenon DEF InTurn
<1> DEFINE R == {i \in 0 .. n : DOMAIN after[i] = S /\ Rooted(after[i].k)}
<1>3. 0 \in R /\ \A i \in 1 .. n : i - 1 \in R => i \in R
  BY <1>2
<1> HIDE DEF R
<1>4. n \in R
  BY <1>3, Climb
<1> QED
  BY <1>1, <1>4 DEF R

LEMMA RootedAdmit ==
    ASSUME NEW z, Rooted(z), NEW from, KernelOK(z, from)
    PROVE  Rooted(AdmitPending(z))
<1> DEFINE l == z.events[Pending]
           n == Len(l)
<1>1. l \in Seq(Task)
  BY DEF KernelOK, KernelAt, Settled, Shape, EventList
<1>2. n \in Nat /\ DOMAIN l = 1 .. n
  BY <1>1
<1> HIDE DEF l, n
<1>3. Outcome("admit", z, l, n, FoldLeft(Admit, z, l))
  BY <1>2, AdmitLoop
<1>4. ASSUME NEW w, NEW x, Rooted(w) PROVE Rooted(Body("admit", w, x))
  <2> DEFINE m == MakeReady(w, x)
  <2>1. Rooted(m)
    BY <1>4, RootedReady
  <2>2. Body("admit", w, x) = [m EXCEPT !.yield = m.yield \/ w.prio[x] >= w.prio[w.cur]]
    BY Bodies, Zenon DEF Admit
  <2> HIDE DEF m
  <2>3. \A v : Rooted([m EXCEPT !.yield = v])
    BY <2>1, RootedField
  <2> QED
    BY <2>2, <2>3
<1>5. Rooted(FoldLeft(Admit, z, l))
  BY <1>2, <1>3, <1>4, RootedLoop
<1>6. Rooted(prvResetNextTaskUnblockTime(FoldLeft(Admit, z, l)))
  BY <1>5, RootedPlain, Zenon
<1> QED
  BY <1>6, Zenon DEF AdmitPending, l

LEMMA RootedDue ==
    ASSUME NEW z, Rooted(z), KernelAt(z, z, 0)
    PROVE  Rooted(WakeDue(z))
<1> DEFINE l == Due(z)
           n == Len(l)
<1>1. l \in Seq(Task)
  BY DueIs
<1>2. n \in Nat /\ DOMAIN l = 1 .. n
  BY <1>1
<1> HIDE DEF l, n
<1>3. Outcome("ready", z, l, n, FoldLeft(MakeReady, z, l))
  BY <1>2, MakeReadyLoop
<1>4. \A w, x : Rooted(w) => Rooted(Body("ready", w, x))
  BY Bodies, RootedReady
<1>5. Rooted(FoldLeft(MakeReady, z, l))
  BY <1>2, <1>3, <1>4, RootedLoop
<1>6. Rooted(prvResetNextTaskUnblockTime(FoldLeft(MakeReady, z, l)))
  BY <1>5, RootedPlain, Zenon
<1> QED
  BY <1>6, Zenon DEF WakeDue, l

LEMMA RootedTick ==
    ASSUME NEW z, Rooted(z), NEW from, KernelOK(z, from)
    PROVE  Rooted(xTaskIncrementTick(z).k)
<1> DEFINE a == Advance(z)
<1>1. Rooted(a)
  BY RootedPlain
<1>2. KernelAt(a, a, 0)
  BY AdvanceOK
<1> HIDE DEF a
<1>3. Rooted(WakeDue(a))
  BY <1>1, <1>2, RootedDue
<1>4. \A v : Rooted([z EXCEPT !.pended = v])
  BY RootedField
<1>5. xTaskIncrementTick(z).k = IF z.susp > 0 THEN [z EXCEPT !.pended = z.pended + 1] ELSE WakeDue(a)
  BY DEF xTaskIncrementTick, Ticked, a
<1> QED
  BY <1>3, <1>4, <1>5

LEMMA RootedCount ==
    ASSUME NEW z, Rooted(z), NEW from, Timely(z, from)
    PROVE  Rooted(CountPended(z))
<1> DEFINE n == z.pended
           l == [i \in 1 .. n |-> i]
           w == FoldLeft(CountOne, z, l)
<1>1. n \in Nat /\ DOMAIN l = 1 .. n
  BY DEF Timely, KernelOK, KernelAt, Settled, Shape
<1> HIDE DEF l, n
<1>2. Outcome("count", z, l, n, FoldLeft(CountOne, z, l))
  BY <1>1, CountOneLoop
<1>3. PICK after : InTurn("count", z, l, n, after) /\ after[n] = FoldLeft(CountOne, z, l)
  BY <1>2 DEF Outcome
<1>4. after[0] = z /\ \A i \in 1 .. n : after[i] = CountOne(after[i - 1], l[i])
  BY <1>3, Bodies DEF InTurn
<1>5. ASSUME NEW y, NEW i, Rooted(y), Timely(y, from) PROVE Rooted(CountOne(y, i))
  <2> DEFINE u == xTaskIncrementTick(y).k
  <2>1. Rooted(u)
    BY <1>5, RootedTick DEF Timely
  <2>2. CountOne(y, i) = [u EXCEPT !.yield = u.yield \/ xTaskIncrementTick(y).switch]
    BY Zenon DEF CountOne, Latch
  <2> HIDE DEF u
  <2>3. \A v : Rooted([u EXCEPT !.yield = v])
    BY <2>1, RootedField
  <2> QED
    BY <2>2, <2>3
<1> DEFINE S == {i \in 0 .. n : Timely(after[i], from) /\ Rooted(after[i])}
<1>6. 0 \in S
  BY <1>1, <1>4
<1>7. \A i \in 1 .. n : i - 1 \in S => i \in S
  BY <1>4, <1>5, CountOneOK
<1>8. Rooted(w)
  <2> HIDE DEF S
  <2>1. n \in S
    BY <1>1, <1>6, <1>7, Climb
  <2> QED
    BY <1>3, <2>1 DEF S
<1>9. CountPended(z) = [w EXCEPT !.pended = 0]
  BY Zenon DEF CountPended, l, n
<1> HIDE DEF w
<1>10. \A v : Rooted([w EXCEPT !.pended = v])
  BY <1>8, RootedField
<1> QED
  BY <1>9, <1>10

LEMMA RootedResume ==
    ASSUME NEW z, Rooted(z), NEW from, KernelOK(z, from)
    PROVE  Rooted(xTaskResumeAll(z).k) /\ Rooted(ResumeAndYield(z))
<1> DEFINE w == configASSERT(z, z.susp > 0)
           y == [w EXCEPT !.susp = w.susp - 1]
           u == AdmitPending(y)
           x == CountPended(u)
<1>1. KernelOK(w, z) /\ Rooted(w)
  BY Own, MovelessOK, RootedPlain
<1> HIDE DEF w
<1>11. Alike(w, y)
  BY <1>1 DEF KernelOK, KernelAt, Settled, Shape, Alike, Fields, Kept
<1>2. KernelOK(y, y) /\ Rooted(y)
  BY <1>1, <1>11, RootedField, AlikeOK
<1> HIDE DEF y
<1>3. KernelOK(u, u) /\ Rooted(u)
  BY <1>2, AdmitPendingOK, RootedAdmit, Own
<1> HIDE DEF u
<1>4. Rooted(x)
  BY <1>3, RootedCount DEF Timely, Rests
<1> HIDE DEF x
<1>5. \A c : Rooted(YieldIf(x, c)) /\ Rooted(YieldIf(YieldIf(x, x.yield), c)) /\ Rooted(YieldIf(y, c))
  BY <1>2, <1>4, RootedPlain
<1>6. xTaskResumeAll(z).k = y \/ xTaskResumeAll(z).k = YieldIf(x, x.yield)
  BY DEF xTaskResumeAll, ResumeIfLast, Resumed, w, y, u, x
<1>7. ResumeAndYield(z) = YieldIf(xTaskResumeAll(z).k, ~xTaskResumeAll(z).yielded)
  BY DEF ResumeAndYield, YieldUnless
<1> HIDE DEF xTaskResumeAll
<1> QED
  BY <1>2, <1>4, <1>5, <1>6, <1>7

LEMMA GreatestIs ==
    ASSUME NEW S, S \subseteq Prio, S # {}
    PROVE  Max(S) \in S
<1> DEFINE m == configMAX_PRIORITIES
           T == {m - x : x \in S}
<1>1. m \in Nat /\ \A x \in S : x \in Nat /\ m - x \in Nat
  BY PriorityAssumption DEF Prio
<1>2. T \in SUBSET Nat /\ T # {}
  BY <1>1
<1> HIDE DEF T
<1>3. Min(T) \in T /\ \A j \in T : Min(T) <= j
  BY <1>2, LeastIs
<1>4. PICK x \in S : Min(T) = m - x
  BY <1>3 DEF T
<1>5. ASSUME NEW y \in S PROVE x >= y
  <2>1. m - x <= m - y
    BY <1>3, <1>4 DEF T
  <2> QED
    BY <1>1, <2>1
<1> QED
  BY <1>4, <1>5, Zenon DEF Max

\* The switch finds a task to run.
LEMMA RootedSwitch ==
    ASSUME NEW z, Rooted(z), NEW from, KernelOK(z, from), z.cur \in Task
    PROVE  Rooted(vTaskSwitchContext(z)) /\ vTaskSwitchContext(z).cur \in Task
<1> DEFINE p == Max(z.top)
           l == z.ready[p]
           n == NextEntry(l)
           y == [z EXCEPT !.yield = FALSE, !.ready[p].pxIndex = n, !.cur = l.items[n]]
           x == vTaskSwitchContext(z)
<1>1. DOMAIN z = Fields /\ Shape(z) /\ Known(z)
  BY DEF KernelOK, KernelAt, Settled, Shape
<1>2. p \in Prio
  <2>1. 0 \in z.top /\ z.top \subseteq Prio
    BY <1>1, PriorityAssumption DEF Rooted, Known, InReady, Prio
  <2> QED
    BY <2>1, GreatestIs
<1>3. /\ DOMAIN l = {"items", "pxIndex"} /\ l.items \in Seq(Task) /\ l.pxIndex \in 0 .. Len(l.items)
      /\ DOMAIN z.ready = Prio
  BY <1>1, <1>2 DEF Shape, ReadyList
<1>4. \/ x = [z EXCEPT !.yield = TRUE]
      \/ x = [z EXCEPT !.halted = TRUE]
      \/ l.items # <<>> /\ x = y
  BY DEF vTaskSwitchContext
<1>5. /\ Rooted([z EXCEPT !.yield = TRUE]) /\ Rooted([z EXCEPT !.halted = TRUE])
      /\ [z EXCEPT !.yield = TRUE].cur = z.cur /\ [z EXCEPT !.halted = TRUE].cur = z.cur
  BY <1>1, RootedField DEF Fields
<1>6. ASSUME l.items # <<>> PROVE Rooted(y) /\ y.cur \in Task
  <2>1. n \in 1 .. Len(l.items)
    <3>1. Len(l.items) \in Nat \ {0} /\ l.pxIndex \in Nat
      BY <1>3, <1>6
    <3>2. \A a \in Nat : \A b \in Nat \ {0} : (a % b) + 1 \in 1 .. b
      OBVIOUS
    <3> QED
      BY <3>1, <3>2 DEF NextEntry
  <2>2. l.items[n] \in Task
    BY <1>3, <2>1
  <2> HIDE DEF n
  <2>3. DOMAIN y = Fields /\ y.prio = z.prio /\ y.ready = [z.ready EXCEPT ![p].pxIndex = n] /\ y.cur = l.items[n]
    BY <1>1 DEF Fields
  <2> HIDE DEF y
  <2> DEFINE r == y.ready
  <2>4. DOMAIN r = Prio /\ r[0] = IF p = 0 THEN [l EXCEPT !.pxIndex = n] ELSE z.ready[0]
    <3>1. 0 \in Prio
      BY PriorityAssumption DEF Prio
    <3> QED
      BY <1>2, <1>3, <2>3, <3>1
  <2> HIDE DEF r
  <2>5. Circular(z.ready[0]) /\ Contains(z.ready[0].items, Idle) /\ z.prio[Idle] = 0 /\ Idle \in DOMAIN z.prio
    BY DEF Rooted, Seated
  <2>6. CASE p = 0
    <3>1. /\ DOMAIN r[0] = {"items", "pxIndex"} /\ r[0].items = z.ready[0].items /\ r[0].pxIndex = n
      BY <1>3, <2>4, <2>6
    <3>2. Circular(r[0])
      BY <2>1, <2>5, <2>6, <3>1 DEF Circular
    <3> QED
      BY <2>2, <2>3, <2>4, <2>5, <3>1, <3>2 DEF Rooted, Seated, r
  <2>7. CASE p # 0
    BY <2>2, <2>3, <2>4, <2>5, <2>7 DEF Rooted, Seated, r
  <2> QED
    BY <2>6, <2>7
<1> HIDE DEF x, y
<1> QED
  BY <1>4, <1>5, <1>6 DEF x

\* A task blocks, wakes, is suspended, resumed, deleted and created.
LEMMA RootedPlace ==
    ASSUME NEW z, Rooted(z), z.cur # Idle, NEW l, NEW b, NEW ticks, NEW forever
    PROVE  /\ Rooted(vTaskPlaceOnEventList(z, l, ticks))
           /\ Rooted(vTaskPlaceOnUnorderedEventList(z, l, b, ticks))
           /\ Rooted(vTaskPlaceOnEventListRestricted(z, l, ticks, forever))
<1>1. DOMAIN z = Fields
  BY DEF Rooted, Seated
<1>2. ASSUME NEW y, DOMAIN y = Fields, y.ready = z.ready, y.prio = z.prio, y.cur = z.cur
      PROVE  \A n, f : Rooted(prvAddCurrentTaskToDelayedList(y, n, f))
  <2>1. Rooted(y) /\ y.cur # Idle
    BY <1>2, RootedSame
  <2> QED
    BY <2>1, RootedBlock
<1>3. Rooted(vTaskPlaceOnEventList(z, l, ticks))
  <2> DEFINE y == [z EXCEPT !.events[l] = vListInsert(@, z.cur, z.key)]
  <2>1. DOMAIN y = Fields /\ y.ready = z.ready /\ y.prio = z.prio /\ y.cur = z.cur
    BY <1>1 DEF Fields
  <2>2. vTaskPlaceOnEventList(z, l, ticks) = prvAddCurrentTaskToDelayedList(y, ticks, TRUE)
    BY Zenon DEF vTaskPlaceOnEventList
  <2> HIDE DEF y
  <2> QED
    BY <1>2, <2>1, <2>2
<1>4. Rooted(vTaskPlaceOnUnorderedEventList(z, l, b, ticks))
  <2> DEFINE w == configASSERT(z, z.susp > 0)
             y == [w EXCEPT !.bits[z.cur] = b, !.events[l] = Append(@, z.cur)]
  <2>1. DOMAIN w = Fields /\ w.ready = z.ready /\ w.prio = z.prio /\ w.cur = z.cur
    BY <1>1 DEF Fields, configASSERT
  <2>2. vTaskPlaceOnUnorderedEventList(z, l, b, ticks) = prvAddCurrentTaskToDelayedList(y, ticks, TRUE)
    BY Zenon DEF vTaskPlaceOnUnorderedEventList
  <2> HIDE DEF w
  <2>3. DOMAIN y = Fields /\ y.ready = z.ready /\ y.prio = z.prio /\ y.cur = z.cur
    BY <2>1 DEF Fields
  <2> HIDE DEF y
  <2> QED
    BY <1>2, <2>2, <2>3
<1>5. Rooted(vTaskPlaceOnEventListRestricted(z, l, ticks, forever))
  <2> DEFINE y == [z EXCEPT !.events[l] = Append(@, z.cur)]
             n == IF forever THEN portMAX_DELAY ELSE ticks
  <2>1. DOMAIN y = Fields /\ y.ready = z.ready /\ y.prio = z.prio /\ y.cur = z.cur
    BY <1>1 DEF Fields
  <2>2. vTaskPlaceOnEventListRestricted(z, l, ticks, forever) = prvAddCurrentTaskToDelayedList(y, n, forever)
    BY Zenon DEF vTaskPlaceOnEventListRestricted
  <2> HIDE DEF y, n
  <2> QED
    BY <1>2, <2>1, <2>2
<1> QED
  BY <1>3, <1>4, <1>5

LEMMA RootedWaken ==
    ASSUME NEW z, Rooted(z), NEW t, NEW l, NEW b
    PROVE  /\ Rooted(Waken(z, t)) /\ Rooted(xTaskRemoveFromEventList(z, l))
           /\ Rooted(vTaskRemoveFromUnorderedEventList(z, t, b))
<1>1. ASSUME NEW u PROVE Rooted(Waken(z, u))
  <2> DEFINE w == RemoveEvent(z, u)
  <2>1. Rooted(w) /\ Rooted(MakeReady(z, u))
    BY RootedPlain, RootedReady
  <2> HIDE DEF w
  <2>2. DOMAIN w = Fields
    BY <2>1 DEF Rooted, Seated
  <2> DEFINE y == [w EXCEPT !.events[Pending] = Append(@, u)]
  <2>3. DOMAIN y = Fields /\ y.ready = w.ready /\ y.prio = w.prio
    BY <2>2 DEF Fields
  <2> HIDE DEF y
  <2>4. Rooted(y)
    BY <2>1, <2>3, RootedSame
  <2> QED
    BY <2>1, <2>4 DEF Waken, w, y
<1>2. Rooted(xTaskRemoveFromEventList(z, l))
  <2> DEFINE u == Head(z.events[l])
             w == Waken(z, u)
  <2>1. Rooted(w)
    BY <1>1
  <2>2. xTaskRemoveFromEventList(z, l) = [w EXCEPT !.yield = w.yield \/ Outranks(z, u)]
    BY Zenon DEF xTaskRemoveFromEventList
  <2> HIDE DEF w, u
  <2>3. \A v : Rooted([w EXCEPT !.yield = v])
    BY <2>1, RootedField
  <2> QED
    BY <2>2, <2>3
<1>3. Rooted(vTaskRemoveFromUnorderedEventList(z, t, b))
  <2> DEFINE w == MakeReady(configASSERT(z, z.susp > 0), t)
             v == [NoBits EXCEPT !.wanted = b, !.set = TRUE]
             y == [w EXCEPT !.bits[t] = v, !.yield = w.yield \/ Outranks(z, t)]
  <2>1. Rooted(w)
    BY RootedPlain, RootedReady
  <2>2. vTaskRemoveFromUnorderedEventList(z, t, b) = y
    BY Zenon DEF vTaskRemoveFromUnorderedEventList
  <2> HIDE DEF w, v
  <2>3. DOMAIN w = Fields
    BY <2>1 DEF Rooted, Seated
  <2>4. DOMAIN y = Fields /\ y.ready = w.ready /\ y.prio = w.prio
    BY <2>3 DEF Fields
  <2> HIDE DEF y
  <2> QED
    BY <2>1, <2>2, <2>4, RootedSame
<1> QED
  BY <1>1, <1>2, <1>3

LEMMA RootedPrio ==
    ASSUME NEW z, Rooted(z), NEW y, NEW t, t # Idle, NEW p,
           DOMAIN y = Fields, y.ready = z.ready, y.prio = [z.prio EXCEPT ![t] = p]
    PROVE  Rooted(y)
  BY DEF Rooted, Seated

LEMMA RootedControl ==
    ASSUME NEW z, Rooted(z), NEW t, t # Idle, NEW p
    PROVE  /\ Rooted(vTaskDelete(z, t)) /\ Rooted(vTaskSuspend(z, t)) /\ Rooted(vTaskResume(z, t))
           /\ Rooted(xTaskResumeFromISR(z, t).k) /\ Rooted(prvAddNewTaskToReadyList(z, t, p))
<1>1. DOMAIN z = Fields
  BY DEF Rooted, Seated
<1> DEFINE w == Leave(RemoveEvent(z, t), t)
<1>2. Rooted(w)
  BY RootedPlain, RootedLeave
<1> HIDE DEF w
<1>3. Rooted(vTaskDelete(z, t))
  <2>1. \A v : Rooted([w EXCEPT !.dying = v]) /\ Rooted(prvResetNextTaskUnblockTime(w))
    BY <1>2, RootedField, RootedPlain
  <2>2. vTaskDelete(z, t) = [w EXCEPT !.dying = Append(w.dying, t)] \/ vTaskDelete(z, t) = prvResetNextTaskUnblockTime(w)
    BY Zenon DEF vTaskDelete, w
  <2> QED
    BY <2>1, <2>2
<1>4. Rooted(vTaskSuspend(z, t))
  <2> DEFINE y == vTaskSuspend(z, t)
  <2>1. DOMAIN w = Fields
    BY <1>2 DEF Rooted, Seated
  <2>2. y = [w EXCEPT !.suspended = Append(w.suspended, t), !.note[t] = IF @ = "WAITING" THEN "NOT_WAITING" ELSE @]
    BY Zenon DEF vTaskSuspend, w
  <2> HIDE DEF y
  <2>3. DOMAIN y = Fields /\ y.ready = w.ready /\ y.prio = w.prio
    BY <2>1, <2>2 DEF Fields
  <2> QED
    BY <1>2, <2>3, RootedSame DEF y
<1>5. Rooted(vTaskResume(z, t)) /\ Rooted(xTaskResumeFromISR(z, t).k)
  <2>1. Rooted(MakeReady(z, t)) /\ Rooted(Waken(z, t))
    BY RootedReady, RootedWaken
  <2> DEFINE c == z.prio[t] >= z.prio[z.cur]
             m == MakeReady(z, t)
  <2>2. Rooted(YieldIf(m, c))
    BY <2>1, RootedPlain
  <2>3. vTaskResume(z, t) = z \/ vTaskResume(z, t) = YieldIf(m, c)
    BY Zenon DEF vTaskResume
  <2>4. xTaskResumeFromISR(z, t).k = z \/ xTaskResumeFromISR(z, t).k = Waken(z, t)
    BY DEF xTaskResumeFromISR
  <2> QED
    BY <2>1, <2>2, <2>3, <2>4
<1>6. Rooted(prvAddNewTaskToReadyList(z, t, p))
  <2> DEFINE y == prvInitialiseNewTask(z, t, p)
  <2>1. DOMAIN y = Fields /\ y.ready = z.ready /\ y.prio = [z.prio EXCEPT ![t] = p]
    BY <1>1 DEF Fields, prvInitialiseNewTask
  <2> HIDE DEF y
  <2>2. Rooted(y)
    BY <2>1, RootedPrio
  <2> QED
    BY <2>2, RootedAdd DEF prvAddNewTaskToReadyList, Rooted, y
<1> QED
  BY <1>3, <1>4, <1>5, <1>6

\* A change of priority, of any task but the idle one.
LEMMA RootedRequeue ==
    ASSUME NEW z, Rooted(z), NEW t, t # Idle, NEW used, NEW reset
    PROVE  Rooted(Requeue(z, t, used, reset))
<1> DEFINE w == taskRESET_READY_PRIORITY(RemoveState(z, t), reset)
<1>1. Rooted(RemoveState(z, t))
  BY RootedRemove DEF Rooted
<1>2. Rooted(w)
  BY <1>1, RootedPlain
<1> HIDE DEF w
<1>3. Rooted(prvAddTaskToReadyList(w, t))
  BY <1>2, RootedAdd DEF Rooted
<1> QED
  BY <1>3, Zenon DEF Requeue, w

LEMMA RootedKey ==
    ASSUME NEW z, Rooted(z), NEW t, t # Idle, NEW p, NEW b
    PROVE  /\ Rooted([SetKey(z, t, p) EXCEPT !.prio[t] = b]) /\ SetKey(z, t, p).prio = z.prio
           /\ \A c : Rooted([SetKey(z, t, p) EXCEPT !.prio[t] = b, !.base[t] = c])
<1>1. DOMAIN z = Fields
  BY DEF Rooted, Seated
<1> DEFINE w == SetKey(z, t, p)
           y == [w EXCEPT !.prio[t] = b]
<1>2. DOMAIN w = Fields /\ w.ready = z.ready /\ w.prio = z.prio
  BY <1>1 DEF SetKey, Fields
<1> HIDE DEF w
<1>3. Rooted(w)
  BY <1>2, RootedSame
<1>4. DOMAIN y = Fields /\ y.ready = w.ready /\ y.prio = [w.prio EXCEPT ![t] = b]
  BY <1>2 DEF Fields
<1>5. ASSUME NEW c PROVE Rooted([w EXCEPT !.prio[t] = b, !.base[t] = c])
  <2> DEFINE x == [w EXCEPT !.prio[t] = b, !.base[t] = c]
  <2>1. DOMAIN x = Fields /\ x.ready = w.ready /\ x.prio = [w.prio EXCEPT ![t] = b]
    BY <1>2 DEF Fields
  <2> HIDE DEF x
  <2>2. Rooted(x)
    BY <1>3, <2>1, RootedPrio
  <2> QED
    BY <2>2 DEF x
<1> HIDE DEF y
<1>6. Rooted(y)
  BY <1>3, <1>4, RootedPrio
<1> QED
  BY <1>2, <1>5, <1>6 DEF w, y

LEMMA RootedPriority ==
    ASSUME NEW z, Rooted(z), NEW t, t # Idle, NEW p
    PROVE  /\ Rooted(vTaskPrioritySet(z, t, p)) /\ Rooted(xTaskPriorityInherit(z, t))
           /\ Rooted(xTaskPriorityDisinherit(z, t)) /\ Rooted(vTaskPriorityDisinheritAfterTimeout(z, t, p))
<1>1. DOMAIN z = Fields
  BY DEF Rooted, Seated
<1>2. Rooted(vTaskPrioritySet(z, t, p))
  <2> DEFINE b == IF z.base[t] = SetKey(z, t, p).prio[t] THEN p ELSE SetKey(z, t, p).prio[t]
             w == [SetKey(z, t, p) EXCEPT !.prio[t] = b, !.base[t] = p]
             r == Requeue(w, t, z.prio[t], z.prio[t])
             c == IF p > z.base[t] THEN t # z.cur /\ p >= z.prio[z.cur] ELSE t = z.cur
  <2>1. Rooted(w)
    BY RootedKey
  <2>2. vTaskPrioritySet(z, t, p) = z \/ vTaskPrioritySet(z, t, p) = YieldIf(r, c)
    BY Zenon DEF vTaskPrioritySet
  <2> HIDE DEF w, c
  <2>3. Rooted(r)
    BY <2>1, RootedRequeue
  <2> HIDE DEF r
  <2> QED
    BY <2>2, <2>3, RootedPlain
<1>3. Rooted(xTaskPriorityInherit(z, t))
  <2> DEFINE b == z.prio[z.cur]
             w == [SetKey(z, t, b) EXCEPT !.prio[t] = b]
  <2>1. Rooted(w)
    BY RootedKey
  <2>2. xTaskPriorityInherit(z, t) = z \/ xTaskPriorityInherit(z, t) = Requeue(w, t, z.prio[t], z.prio[t])
    BY Zenon DEF xTaskPriorityInherit
  <2> HIDE DEF w
  <2> QED
    BY <2>1, <2>2, RootedRequeue
<1>4. Rooted(xTaskPriorityDisinherit(z, t))
  <2> DEFINE a == configASSERT(z, t = NULL \/ (t = z.cur /\ z.held[t] > 0))
             out == [a EXCEPT !.held[t] = @ - 1]
             l == taskRESET_READY_PRIORITY(RemoveState(out, t), z.prio[t])
             w == [l EXCEPT !.prio[t] = z.base[t], !.key[t] = configMAX_PRIORITIES - z.base[t]]
  <2>1. Rooted(a)
    BY RootedPlain
  <2> HIDE DEF a
  <2>2. Rooted(out)
    <3>1. \A v : Rooted([a EXCEPT !.held[t] = v])
      BY <2>1, RootedField
    <3>2. DOMAIN a = Fields
      BY <2>1 DEF Rooted, Seated
    <3>3. DOMAIN out = Fields /\ out.ready = a.ready /\ out.prio = a.prio
      BY <3>2 DEF Fields
    <3> HIDE DEF out
    <3> QED
      BY <2>1, <3>3, RootedSame
  <2>3. xTaskPriorityDisinherit(z, t) = z \/ xTaskPriorityDisinherit(z, t) = out
        \/ xTaskPriorityDisinherit(z, t) = prvAddTaskToReadyList(w, t)
    BY Zenon DEF xTaskPriorityDisinherit, a
  <2> HIDE DEF out
  <2>4. Rooted(RemoveState(out, t))
    BY <2>2, RootedRemove DEF Rooted
  <2>5. Rooted(l)
    BY <2>4, RootedPlain
  <2> HIDE DEF l
  <2>6. DOMAIN l = Fields
    BY <2>5 DEF Rooted, Seated
  <2>7. DOMAIN w = Fields /\ w.ready = l.ready /\ w.prio = [l.prio EXCEPT ![t] = z.base[t]]
    BY <2>6 DEF Fields
  <2> HIDE DEF w
  <2>8. Rooted(w)
    BY <2>5, <2>7, RootedPrio
  <2>9. Rooted(prvAddTaskToReadyList(w, t))
    BY <2>8, RootedAdd DEF Rooted
  <2> QED
    BY <2>2, <2>3, <2>9
<1>5. Rooted(vTaskPriorityDisinheritAfterTimeout(z, t, p))
  <2> DEFINE use == IF z.base[t] < p THEN p ELSE z.base[t]
             safe == configASSERT(z, z.held[t] > 0)
             a == configASSERT(safe, t # z.cur)
             w == [SetKey(a, t, use) EXCEPT !.prio[t] = use]
  <2>1. Rooted(safe)
    BY RootedPlain
  <2>2. vTaskPriorityDisinheritAfterTimeout(z, t, p) = z \/ vTaskPriorityDisinheritAfterTimeout(z, t, p) = safe
        \/ vTaskPriorityDisinheritAfterTimeout(z, t, p) = Requeue(w, t, z.prio[t], use)
    BY Zenon DEF vTaskPriorityDisinheritAfterTimeout
  <2> HIDE DEF safe, use
  <2>3. Rooted(a)
    BY <2>1, RootedPlain
  <2> HIDE DEF a
  <2>4. Rooted(w)
    BY <2>3, RootedKey
  <2> HIDE DEF w
  <2>5. Rooted(Requeue(w, t, z.prio[t], use))
    BY <2>4, RootedRequeue
  <2> QED
    BY <2>1, <2>2, <2>5
<1> QED
  BY <1>2, <1>3, <1>4, <1>5

LEMMA RootedNotify ==
    ASSUME NEW z, Rooted(z), NEW t, NEW v, NEW action
    PROVE  /\ Rooted(Notified(z, t, v, action)) /\ Rooted(xTaskGenericNotify(z, t, v, action))
           /\ Rooted(xTaskGenericNotifyFromISR(z, t, v, action)) /\ Rooted(NotifyTaken(z, v))
           /\ Rooted(NotifyWaited(z)) /\ Rooted(xTaskNotifyStateClear(z))
<1>1. DOMAIN z = Fields
  BY DEF Rooted, Seated
<1> DEFINE n == Notified(z, t, v, action)
           a == configASSERT(n, InNoEvent(z, t))
<1>2. DOMAIN n = Fields /\ n.ready = z.ready /\ n.prio = z.prio
  BY <1>1 DEF Notified, Fields
<1>3. xTaskGenericNotify(z, t, v, action) = n
      \/ xTaskGenericNotify(z, t, v, action) = YieldIf(MakeReady(a, t), Outranks(z, t))
  BY Zenon DEF xTaskGenericNotify
<1>4. xTaskGenericNotifyFromISR(z, t, v, action) = n
      \/ xTaskGenericNotifyFromISR(z, t, v, action)
         = YieldIf([Waken(a, t) EXCEPT !.yield = Waken(a, t).yield \/ Outranks(z, t)], Outranks(z, t))
  BY Zenon DEF xTaskGenericNotifyFromISR
<1> HIDE DEF n
<1>5. Rooted(n)
  BY <1>2, RootedSame
<1>6. Rooted(a)
  BY <1>5, RootedPlain
<1> HIDE DEF a
<1> DEFINE m == MakeReady(a, t)
           w == Waken(a, t)
<1>7. Rooted(m) /\ Rooted(w)
  BY <1>6, RootedReady, RootedWaken
<1>8. xTaskGenericNotify(z, t, v, action) = n \/ \E c : xTaskGenericNotify(z, t, v, action) = YieldIf(m, c)
  BY <1>3
<1>9. xTaskGenericNotifyFromISR(z, t, v, action) = n
      \/ \E b, c : xTaskGenericNotifyFromISR(z, t, v, action) = YieldIf([w EXCEPT !.yield = b], c)
  BY <1>4
<1> HIDE DEF m, w
<1>10. \A c : Rooted(YieldIf(m, c))
  BY <1>7, RootedPlain
<1>11. \A b : Rooted([w EXCEPT !.yield = b])
  BY <1>7, RootedField
<1>12. \A b, c : Rooted(YieldIf([w EXCEPT !.yield = b], c))
  BY <1>11, RootedPlain
<1>13. Rooted(NotifyTaken(z, v)) /\ Rooted(NotifyWaited(z)) /\ Rooted(xTaskNotifyStateClear(z))
  <2>1. \A y : DOMAIN y = Fields /\ y.ready = z.ready /\ y.prio = z.prio => Rooted(y)
    BY RootedSame
  <2> QED
    BY <1>1, <2>1 DEF NotifyTaken, NotifyWaited, xTaskNotifyStateClear, Fields
<1> QED
  BY <1>5, <1>8, <1>9, <1>10, <1>12, <1>13 DEF n

LEMMA RootedAwait ==
    ASSUME NEW z, Rooted(z), z.cur # Idle, NEW ticks
    PROVE  Rooted(ulTaskNotifyTake(z, ticks)) /\ Rooted(xTaskNotifyWait(z, ticks))
<1> DEFINE w == [z EXCEPT !.note[z.cur] = "WAITING"]
           b == prvAddCurrentTaskToDelayedList(w, ticks, TRUE)
<1>1. DOMAIN z = Fields
  BY DEF Rooted, Seated
<1>2. DOMAIN w = Fields /\ w.ready = z.ready /\ w.prio = z.prio /\ w.cur = z.cur
  BY <1>1 DEF Fields
<1>3. Await(z, ticks) = w \/ Await(z, ticks) = portYIELD_WITHIN_API(b)
  BY Zenon DEF Await
<1> HIDE DEF w
<1>4. Rooted(w)
  BY <1>2, RootedSame
<1>5. Rooted(b)
  BY <1>2, <1>4, RootedBlock
<1> HIDE DEF b
<1>6. Rooted(Await(z, ticks))
  BY <1>3, <1>4, <1>5, RootedPlain
<1> QED
  BY <1>6, Zenon DEF ulTaskNotifyTake, xTaskNotifyWait

----------------------------------------------------------------------------
(* The functions of queue.c and event_groups.c                              *)

LEMMA RootedWake ==
    ASSUME NEW z, Rooted(z), NEW l, NEW count, NEW restored
    PROVE  /\ Rooted(WakeOne(z, l)) /\ Rooted(WakeAndYield(z, l)) /\ Rooted(WakeOrYield(z, l, restored))
           /\ Rooted(Deferred(z, l, count).k) /\ Rooted(WakeMissed(z, l))
<1> DEFINE w == WakeOne(z, l)
<1>1. Rooted(w)
  BY RootedWaken DEF WakeOne
<1>2. \E c : WakeAndYield(z, l) = YieldIf(w, c)
  BY Zenon DEF WakeAndYield
<1>3. WakeMissed(z, l) \in {vTaskMissedYield(w), w}
  BY Zenon DEF WakeMissed
<1> HIDE DEF w
<1>4. Rooted(WakeAndYield(z, l)) /\ Rooted(WakeMissed(z, l)) /\ Rooted(YieldIf(z, restored))
  BY <1>1, <1>2, <1>3, RootedPlain
<1>5. WakeOrYield(z, l, restored) \in {WakeAndYield(z, l), YieldIf(z, restored)}
  BY DEF WakeOrYield
<1>6. Deferred(z, l, count).k \in {WakeAndYield(z, l), z}
  BY DEF Deferred
<1> QED
  BY <1>1, <1>4, <1>5, <1>6 DEF w

LEMMA RootedUnlocked ==
    ASSUME NEW z, Rooted(z), NEW l, NEW count \in Int
    PROVE  Rooted(Unlocked(z, l, count))
<1> DEFINE n == IF count > 0 THEN count ELSE 0
           lists == [i \in 1 .. count |-> l]
<1>1. n \in Nat /\ DOMAIN lists = 1 .. n
  OBVIOUS
<1>2. Unlocked(z, l, count) = FoldLeft(WakeMissed, z, lists)
  BY Zenon DEF Unlocked
<1> HIDE DEF n, lists
<1>3. Outcome("unlock", z, lists, n, FoldLeft(WakeMissed, z, lists))
  BY <1>1, WakeMissedLoop
<1>4. \A w, x : Rooted(w) => Rooted(Body("unlock", w, x))
  BY Bodies, RootedWake
<1>5. Rooted(FoldLeft(WakeMissed, z, lists))
  BY <1>1, <1>3, <1>4, RootedLoop
<1> QED
  BY <1>2, <1>5

LEMMA RootedQueue ==
    ASSUME NEW z, Rooted(z), NEW b, b.holder # Idle, NEW x, NEW v, NEW position
    PROVE  /\ Rooted(Sent(z, b, x, v, position).k) /\ Rooted(SentFromISR(z, b, x, v, position).k)
           /\ Rooted(Received(z, b, x).k) /\ Rooted(ReceivedFromISR(z, b, x).k)
           /\ Rooted(Peeked(z, b, x).k) /\ Rooted(xQueueGenericReset(z, b, x).k)
<1> DEFINE mine == IF b.type = "mutex" THEN b.holder ELSE NULL
           w == xTaskPriorityDisinherit(z, mine)
           m == [z EXCEPT !.held[z.cur] = IF b.type = "mutex" THEN @ + 1 ELSE @]
<1>1. mine # Idle
  BY NullAssumption, PriorityAssumption
<1>2. Sent(z, b, x, v, position).k = WakeOrYield(w, Receiving(x), Restores(z, mine))
  BY DEF Sent
<1>3. Received(z, b, x).k = WakeAndYield(m, Sending(x))
  BY DEF Received
<1>4. \A c : Rooted([z EXCEPT !.held[z.cur] = c])
  BY RootedField
<1>5. Rooted(m)
  BY <1>4
<1> HIDE DEF mine, m
<1>6. Rooted(w)
  BY <1>1, RootedPriority
<1> HIDE DEF w
<1>7. Rooted(Sent(z, b, x, v, position).k) /\ Rooted(Received(z, b, x).k)
  BY <1>2, <1>3, <1>5, <1>6, RootedWake
<1>8. Rooted(SentFromISR(z, b, x, v, position).k) /\ Rooted(ReceivedFromISR(z, b, x).k)
  BY RootedWake DEF SentFromISR, ReceivedFromISR, CountTx, CountRx
<1>9. Rooted(Peeked(z, b, x).k) /\ Rooted(xQueueGenericReset(z, b, x).k)
  BY RootedWake DEF Peeked, xQueueGenericReset
<1> QED
  BY <1>7, <1>8, <1>9

LEMMA RootedGroup ==
    ASSUME NEW z, Rooted(z), NEW l, l \in Seq(Task), NEW b, NEW x, NEW set
    PROVE  /\ Rooted(FoldLeft(TellNothing, z, l))
           /\ l = z.events[WaitingBits(x)] => Rooted(SetBits(z, b, x, set).k)
<1> DEFINE n == Len(l)
           u == Untold(z, b \cup set)
<1>1. n \in Nat /\ DOMAIN l = 1 .. n
  OBVIOUS
<1>2. Rooted(u.k)
  BY DEF Untold
<1>3. SetBits(z, b, x, set).k = FoldLeft(TellIfMet, u, z.events[WaitingBits(x)]).k
  BY DEF SetBits, BitsAfter
<1> HIDE DEF n, u
<1>4. Rooted(FoldLeft(TellNothing, z, l))
  <2>1. Outcome("dismiss", z, l, n, FoldLeft(TellNothing, z, l))
    BY <1>1, TellNothingLoop
  <2>2. \A w, t : Rooted(w) => Rooted(Body("dismiss", w, t))
    BY Bodies, RootedWaken DEF TellNothing
  <2> QED
    BY <1>1, <2>1, <2>2, RootedLoop
<1>5. Rooted(FoldLeft(TellIfMet, u, l).k)
  <2>1. Outcome("tell", u, l, n, FoldLeft(TellIfMet, u, l))
    BY <1>1, TellIfMetLoop
  <2> DEFINE S == {"k", "bits", "clear"}
  <2>2. ASSUME NEW w, NEW t, DOMAIN w = S /\ Rooted(w.k)
        PROVE  DOMAIN Body("tell", w, t) = S /\ Rooted(Body("tell", w, t).k)
    <3> DEFINE m == vTaskRemoveFromUnorderedEventList(w.k, t, w.bits)
               y == TellIfMet(w, t)
    <3>1. Rooted(m)
      BY <2>2, RootedWaken
    <3>2. DOMAIN y = S /\ y.k \in {w.k, m}
      BY <2>2 DEF TellIfMet
    <3> HIDE DEF y, m, S
    <3>3. Body("tell", w, t) = y
      BY Bodies DEF y
    <3> QED
      BY <2>2, <3>1, <3>2, <3>3
  <2>3. DOMAIN u = S
    BY DEF u, Untold
  <2> HIDE DEF S
  <2> QED
    BY <1>1, <1>2, <2>1, <2>2, <2>3, RootedInLoop
<1> QED
  BY <1>3, <1>4, <1>5

----------------------------------------------------------------------------
(* What the daemon does                                                     *)

LEMMA RootedSendToSelf ==
    ASSUME NEW i \in Nat, NEW b, NEW z, Serves(b, z, i), Rooted(z.k), NEW id, NEW x, NEW v
    PROVE  Rooted(SendToSelf(z, id, x, v).k)
<1> DEFINE done == Sent(z.k, z.b, TimerQueue, [id |-> id, timer |-> x, value |-> v], "queueSEND_TO_BACK")
           w == [z.k EXCEPT !.halted = TRUE]
<1>1. DOMAIN z = {"k", "b", "tm"} /\ z.b.holder # Idle
  BY DEF Serves, Remains, Counted
<1>2. Rooted(done.k) /\ Rooted(w)
  BY <1>1, RootedQueue, RootedField
<1>3. SendToSelf(z, id, x, v) = IF prvIsQueueFull(z.b) THEN [z EXCEPT !.k.halted = TRUE] ELSE WithQueue(z, done)
  BY DEF SendToSelf
<1>4. SendToSelf(z, id, x, v).k \in {done.k, w}
  <2> HIDE DEF done
  <2> QED
    BY <1>1, <1>3 DEF WithQueue
<1> QED
  BY <1>2, <1>4

LEMMA RootedExpire ==
    ASSUME NEW i \in Nat, NEW b, NEW z, Serves(b, z, i), Rooted(z.k), NEW j
    PROVE  Rooted(Expire(z, j).k)
<1> DEFINE x == Head(z.tm.current)
           at == z.tm.expiry[x]
           w == [z EXCEPT !.tm = pxCallbackFunction(RemoveTimer(@, x), x)]
<1>1. Expire(z, j) \in {z, Reload(w, x, at)}
  BY Zenon DEF Expire, ExpireHead
<1>2. Serves(b, w, i) /\ w.k = z.k
  BY DEF Serves
<1> HIDE DEF w, x, at
<1> DEFINE listed(expiry, l) == [w EXCEPT !.tm.expiry = expiry, !.tm.current = l]
<1>3. \/ Reload(w, x, at) = w
      \/ \E expiry, l : Reload(w, x, at) = listed(expiry, l)
      \/ Reload(w, x, at) = SendToSelf(w, "tmrCOMMAND_START_DONT_TRACE", x, at)
  BY Zenon DEF Reload
<1>4. \A expiry, l : listed(expiry, l).k = w.k
  BY <1>2 DEF Serves
<1> HIDE DEF listed
<1>5. Rooted(SendToSelf(w, "tmrCOMMAND_START_DONT_TRACE", x, at).k)
  BY <1>2, RootedSendToSelf
<1>6. Rooted(Reload(w, x, at).k)
  BY <1>2, <1>3, <1>4, <1>5, Zenon
<1> QED
  BY <1>1, <1>6

LEMMA RootedSample ==
    ASSUME NEW i \in Nat, NEW b, NEW z, Serves(b, z, i), Rooted(z.k), IsFiniteSet(DOMAIN z.tm.period)
    PROVE  Rooted(prvSampleTimeNow(z).k)
<1> DEFINE n == Ticks * Cardinality(DOMAIN z.tm.period)
           l == [j \in 1 .. n |-> j]
           w == FoldLeft(Expire, z, l)
<1>1. n \in Nat /\ DOMAIN l = 1 .. n
  <2>1. Cardinality(DOMAIN z.tm.period) \in Nat
    BY FS_CardinalityType
  <2>2. \A c, d \in Nat : c * d \in Nat
    OBVIOUS
  <2> QED
    BY <2>1, <2>2, TicksAssumption
<1> HIDE DEF l, n
<1>2. Outcome("expire", z, l, n, FoldLeft(Expire, z, l))
  BY <1>1, ExpireLoop
<1>3. PICK after : InTurn("expire", z, l, n, after) /\ after[n] = FoldLeft(Expire, z, l)
  BY <1>2 DEF Outcome
<1>4. after[0] = z /\ \A j \in 1 .. n : after[j] = Expire(after[j - 1], l[j])
  BY <1>3, Bodies DEF InTurn
<1> DEFINE S == {j \in 0 .. n : Serves(b, after[j], i) /\ Rooted(after[j].k)}
<1>5. 0 \in S /\ \A j \in 1 .. n : j - 1 \in S => j \in S
  BY <1>1, <1>4, ExpireServes, RootedExpire
<1>6. Serves(b, w, i) /\ Rooted(w.k)
  <2> HIDE DEF S
  <2>1. n \in S
    BY <1>1, <1>5, Climb
  <2> QED
    BY <1>3, <2>1 DEF S
<1>7. prvSwitchTimerLists(z) = SwapLists(w)
  BY Zenon DEF prvSwitchTimerLists, l, n
<1> HIDE DEF w
<1>8. DOMAIN SwapLists(w) = {"k", "b", "tm"} /\ SwapLists(w).k = w.k
  BY <1>6 DEF Serves, SwapLists
<1>9. \A y : DOMAIN y = {"k", "b", "tm"} => [y EXCEPT !.tm.last = z.k.tick].k = y.k
  OBVIOUS
<1>10. prvSampleTimeNow(z) \in {[z EXCEPT !.tm.last = z.k.tick], [prvSwitchTimerLists(z) EXCEPT !.tm.last = z.k.tick]}
  BY Zenon DEF prvSampleTimeNow
<1>11. DOMAIN z = {"k", "b", "tm"}
  BY DEF Serves
<1> QED
  BY <1>6, <1>7, <1>8, <1>9, <1>10, <1>11

LEMMA RootedStart ==
    ASSUME NEW i \in Nat, NEW b, NEW z, Serves(b, z, i), Rooted(z.k), NEW x, NEW v, NEW set
    PROVE  Rooted(Started(z, x, v, set).k) /\ Rooted(PeriodChanged(z, x, v).k)
<1> DEFINE m == [set.m EXCEPT !.age[x] = Since(z.k.tick, v)]
           w == [z EXCEPT !.tm = pxCallbackFunction(m, x)]
           due == (v + w.tm.period[x]) % Ticks
<1>0. DOMAIN z = {"k", "b", "tm"}
  BY DEF Serves
<1>1. Serves(b, w, i) /\ w.k = z.k /\ [z EXCEPT !.tm = m].k = z.k
  BY DEF Serves
<1>2. Started(z, x, v, set) \in {Late(w, x, v), [z EXCEPT !.tm = m]}
  BY Zenon DEF Started
<1> HIDE DEF w, m
<1>3. Late(w, x, v) \in {w, SendToSelf(w, "tmrCOMMAND_START_DONT_TRACE", x, due)}
  BY Zenon DEF Late
<1>4. Rooted(Started(z, x, v, set).k)
  <2>1. Rooted(SendToSelf(w, "tmrCOMMAND_START_DONT_TRACE", x, due).k)
    BY <1>1, RootedSendToSelf
  <2> HIDE DEF due
  <2> QED
    BY <1>1, <1>2, <1>3, <2>1
<1>5. PeriodChanged(z, x, v).k = configASSERT(z.k, v > 0)
  BY <1>0 DEF PeriodChanged
<1> QED
  BY <1>4, <1>5, RootedPlain

LEMMA RootedExecute ==
    ASSUME NEW i \in Nat, NEW b, NEW z, Serves(b, z, i), Rooted(z.k), NEW c, Execute(z, c)
    PROVE  Rooted(k')
<1>1. PICK y : Adopt(y) /\ \/ \E set : y = Started(z, c.timer, c.value, set)
                           \/ y = PeriodChanged(z, c.timer, c.value)
                           \/ y = [z EXCEPT !.tm.active[c.timer] = FALSE]
  BY Zenon DEF Execute
<1>2. [z EXCEPT !.tm.active[c.timer] = FALSE].k = z.k
  BY DEF Serves
<1>3. Rooted(y.k)
  BY <1>1, <1>2, RootedStart
<1> QED
  BY <1>1, <1>3 DEF Adopt

----------------------------------------------------------------------------
(* The steps of the system                                                  *)

LEMMA HolderIs ==
    ASSUME CountsInv, NEW x \in DOMAIN q
    PROVE  q[x].holder # Idle /\ q[x].tx \in Int /\ q[x].rx \in Int /\ Remains(q[x], q[x], irqs) /\ irqs \in Nat
<1>1. Remains(App[program].queues[x], q[x], irqs) /\ irqs \in Nat
  BY DEF CountsInv
<1>2. Counted(q[x], irqs)
  BY <1>1 DEF Remains
<1>3. q[x].holder # Idle /\ q[x].tx \in queueUNLOCKED .. irqs /\ q[x].rx \in queueUNLOCKED .. irqs
  BY <1>2 DEF Counted
<1>4. queueUNLOCKED \in Int
  BY DEF queueUNLOCKED
<1> QED
  BY <1>1, <1>2, <1>3, <1>4 DEF Remains

LEMMA QueueRooted ==
    ASSUME ListsInv, CountsInv, Rooted(k), NEW t \in Task \ {Idle}, QueueStep(t)
    PROVE  Rooted(k')
<1> DEFINE x == X(t)
           b == q[x]
<1>0. /\ k.cur = t /\ k.cur # Idle /\ k.cur \in Task /\ KernelOK(k, k) /\ Now(t).x = x
      /\ FitsAt(Now(t), call[t].at)
  BY Running, CallIsLegal DEF X
<1>1. ASSUME Now(t).op \in QueueOp \cup OtherQueueOp \cup {"prvTimerTask"}
      PROVE  b.holder # Idle /\ b.tx \in Int /\ b.rx \in Int /\ b.holder \in Task \cup {NULL} /\ x \in Object
  BY <1>1, QueueOfCall, HolderIs DEF QueueOK
<1>2. CASE UNCHANGED k
  BY <1>2
<1>3. CASE TryQueue(t)
  <2>1. Now(t).op \in QueueOp
    BY <1>3 DEF TryQueue
  <2>2. Rooted(Success(t).k)
    <3>1. \E v, position : Success(t) = Sent(k, b, x, v, position) \/ Success(t) \in {Peeked(k, b, x), Received(k, b, x)}
      BY DEF Success, X
    <3> HIDE DEF b, x
    <3> QED
      BY <1>1, <2>1, <3>1, RootedQueue
  <2>3. Count(t, Success(t)).k = Success(t).k
    BY DEF Count
  <2>4. k' = Success(t).k \/ k' = configASSERT(k, ~call[t].inherited) \/ UNCHANGED k
    BY <1>3, <2>3 DEF TryQueue, Becomes
  <2> QED
    BY <2>2, <2>4, RootedPlain
<1>4. CASE SuspendForQueue(t)
  BY <1>4, RootedPlain DEF SuspendForQueue
<1>5. CASE BlockOnQueue(t)
  <2> DEFINE mutex == Now(t).op \in TakeOp /\ q[X(t)].type = "mutex"
             holder == IF mutex THEN q[X(t)].holder ELSE NULL
             check == xTaskCheckForTimeOut(k, call[t].since, call[t].left)
             w == xTaskPriorityInherit(k, holder)
  <2>1. Now(t).op \in QueueOp \cup {"prvTimerTask"}
    BY <1>0, <1>5 DEF BlockOnQueue, Runs, FitsAt, QueuePoint
  <2>2. holder # Idle /\ holder \in Task \cup {NULL}
    BY <1>1, <2>1, NullAssumption, PriorityAssumption
  <2>3. k' = vTaskPlaceOnEventList(w, Waits(t), check.left) \/ UNCHANGED k
    BY <1>5 DEF BlockOnQueue
  <2> HIDE DEF holder, check
  <2>4. Rooted(w)
    BY <2>2, RootedPriority
  <2>5. w.cur # Idle
    <3>1. KernelOK(w, k)
      BY <1>0, <2>2, InheritOK
    <3> QED
      BY <1>0, <3>1, Own DEF Steady
  <2> HIDE DEF w
  <2> QED
    BY <2>3, <2>4, <2>5, RootedPlace
<1>6. CASE UnlockTx(t) \/ UnlockRx(t)
  <2>1. Now(t).op \in QueueOp \cup {"prvTimerTask"}
    BY <1>0, <1>6 DEF UnlockTx, UnlockRx, Runs, FitsAt, QueuePoint
  <2>2. b.tx \in Int /\ b.rx \in Int
    BY <1>1, <2>1
  <2>3. k' = Unlocked(k, Receiving(x), b.tx) \/ k' = Unlocked(k, Sending(x), b.rx)
    BY <1>6 DEF UnlockTx, UnlockRx
  <2> HIDE DEF b, x
  <2> QED
    BY <2>2, <2>3, RootedUnlocked
<1>7. CASE ResumeFromQueue(t)
  <2>1. k' \in {ResumeAndYield(k), xTaskResumeAll(k).k}
    BY <1>7 DEF ResumeFromQueue
  <2> QED
    BY <1>0, <2>1, RootedResume
<1>8. CASE DisinheritLate(t)
  <2>1. Now(t).op \in QueueOp \cup {"prvTimerTask"}
    BY <1>0, <1>8 DEF DisinheritLate, Runs, FitsAt, QueuePoint
  <2>2. \E p : k' = vTaskPriorityDisinheritAfterTimeout(k, b.holder, p)
    BY <1>8 DEF DisinheritLate
  <2> HIDE DEF b
  <2> QED
    BY <1>1, <2>1, <2>2, RootedPriority
<1>9. CASE xQueueGiveMutexRecursive(t)
  <2> DEFINE c == [b EXCEPT !.rec = @ - 1]
             sent == Sent(k, c, x, NULL, "queueSEND_TO_BACK")
  <2>1. UNCHANGED k \/ (b.holder = t /\ k' = sent.k)
    <3>1. UNCHANGED k \/ (b.holder = t /\ k' = IF c.rec = 0 THEN sent.k ELSE k)
      BY <1>9 DEF xQueueGiveMutexRecursive, Becomes
    <3> QED
      BY <3>1
  <2>2. b.holder = t => c.holder # Idle
    <3>1. x \in DOMAIN q
      BY <1>9, QueueOfCall DEF xQueueGiveMutexRecursive, Calls, OtherQueueOp
    <3>2. DOMAIN b = QueueFields
      BY <3>1, HolderIs DEF Remains, Counted
    <3> QED
      BY <3>2 DEF QueueFields
  <2> HIDE DEF c
  <2>3. c.holder # Idle => Rooted(sent.k)
    BY RootedQueue
  <2> QED
    BY <2>1, <2>2, <2>3
<1>10. CASE ResetQueue(t)
  <2>1. Now(t).op \in OtherQueueOp /\ k' = xQueueGenericReset(k, b, x).k
    BY <1>10 DEF ResetQueue, Becomes, Calls, OtherQueueOp
  <2> HIDE DEF b, x
  <2> QED
    BY <1>1, <2>1, RootedQueue
<1> QED
  BY <1>2, <1>3, <1>4, <1>5, <1>6, <1>7, <1>8, <1>9, <1>10
     DEF QueueStep, TakeAgain, ReadCommandTime, LockQueue, LateForQueue

LEMMA ControlRooted ==
    ASSUME ListsInv, Rooted(k), NEW t \in Task \ {Idle}, ControlStep(t)
    PROVE  Rooted(k')
<1> DEFINE c == Now(t)
<1>0. /\ k.cur = t /\ k.cur # Idle /\ KernelOK(k, k) /\ LegalCall(program, c)
      /\ FitsAt(c, call[t].at) /\ StampOK(c, call[t])
  BY Running, CallIsLegal
<1>1. CASE SuspendForDelay(t)
  <2> DEFINE w == configASSERT(k, k.susp = 0)
  <2>1. k' = portYIELD_WITHIN_API(k) \/ k' = vTaskSuspendAll(w)
    BY <1>1 DEF SuspendForDelay
  <2>2. Rooted(w)
    BY RootedPlain
  <2> HIDE DEF w
  <2> QED
    BY <2>1, <2>2, RootedPlain
<1>2. CASE vTaskDelay(t) \/ vTaskDelayUntil(t)
  <2>1. UNCHANGED k \/ \E n : k' = prvAddCurrentTaskToDelayedList(k, n, FALSE)
    BY <1>2, Zenon DEF vTaskDelay, vTaskDelayUntil
  <2> QED
    BY <1>0, <2>1, RootedBlock
<1>3. CASE ResumeFromDelay(t) \/ ResumeFromCreate(t) \/ ResumeFromHeap(t)
  <2>1. k' \in {ResumeAndYield(k), xTaskResumeAll(k).k}
    BY <1>3 DEF ResumeFromDelay, ResumeFromCreate, ResumeFromHeap
  <2> QED
    BY <1>0, <2>1, RootedResume
<1>4. CASE AllocateStack(t) \/ AllocateTcb(t) \/ FreeStack(t) \/ Malloc(t) \/ Free(t)
  <2>1. k' = vTaskSuspendAll(k)
    BY <1>4 DEF AllocateStack, AllocateTcb, FreeStack, Malloc, Free
  <2> QED
    BY <2>1, RootedPlain
<1>5. CASE EndDelay(t)
  BY <1>5 DEF EndDelay
<1>6. CASE Suspend(t) \/ Resume(t) \/ SetPriority(t)
  <2>1. c.x # Idle
    BY <1>0, <1>6 DEF Suspend, Resume, SetPriority, Calls, LegalCall, TaskOp
  <2>2. \/ k' = vTaskSuspend(k, c.x) \/ k' = vTaskResume(k, c.x)
        \/ \E p : k' = vTaskPrioritySet(k, c.x, p)
    BY <1>6 DEF Suspend, Resume, SetPriority
  <2> HIDE DEF c
  <2> QED
    BY <2>1, <2>2, RootedControl, RootedPriority
<1>7. CASE ResetUnblockTime(t)
  <2>1. \E b, d : k' = YieldIf(prvResetNextTaskUnblockTime(configASSERT(k, b)), d)
    BY <1>7, Zenon DEF ResetUnblockTime
  <2>2. \A b : Rooted(configASSERT(k, b))
    BY RootedPlain
  <2>3. \A b : Rooted(prvResetNextTaskUnblockTime(configASSERT(k, b)))
    BY <2>2, RootedPlain
  <2> QED
    BY <2>1, <2>3, RootedPlain
<1>8. CASE Delete(t)
  <2>1. c.x # Idle
    BY <1>0, <1>8 DEF Delete, Calls, LegalCall, TaskOp
  <2>2. (\E b : k' = portYIELD_WITHIN_API(configASSERT(vTaskDelete(k, t), b))) \/ k' = vTaskDelete(k, c.x)
    BY <1>8, Zenon DEF Delete
  <2> HIDE DEF c
  <2>3. Rooted(vTaskDelete(k, t)) /\ Rooted(vTaskDelete(k, c.x))
    BY <2>1, RootedControl
  <2>4. \A b : Rooted(configASSERT(vTaskDelete(k, t), b))
    BY <2>3, RootedPlain
  <2>5. \A b : Rooted(portYIELD_WITHIN_API(configASSERT(vTaskDelete(k, t), b)))
    BY <2>4, RootedPlain
  <2> QED
    BY <2>2, <2>3, <2>5
<1>9. CASE AddTask(t)
  <2> DEFINE z == prvAddNewTaskToReadyList(k, c.x, c.v)
  <2>1. c.op = "xTaskCreate"
    BY <1>0, <1>9 DEF AddTask, Runs, FitsAt, CreatePoint, QueuePoint, DaemonPoint
  <2>2. c.x # Idle
    BY <1>0, <2>1 DEF LegalCall, TaskOp
  <2>3. Rooted(z)
    BY <2>2, RootedControl
  <2>4. k' = YieldIf(z, k.prio[k.cur] < c.v)
    BY <1>9 DEF AddTask
  <2> HIDE DEF z
  <2> QED
    BY <2>3, <2>4, RootedPlain
<1>10. CASE Notify(t)
  BY <1>10, RootedNotify DEF Notify
<1>11. CASE AwaitNotification(t)
  <2>1. k' \in {ulTaskNotifyTake(k, c.ticks), xTaskNotifyWait(k, c.ticks)}
    BY <1>11 DEF AwaitNotification
  <2> QED
    BY <1>0, <2>1, RootedAwait
<1>12. CASE TakeNotification(t)
  <2>1. k' \in {NotifyTaken(k, c.v), NotifyWaited(k)}
    BY <1>12 DEF TakeNotification
  <2> QED
    BY <2>1, RootedNotify
<1> QED
  BY <1>1, <1>2, <1>3, <1>4, <1>5, <1>6, <1>7, <1>8, <1>9, <1>10, <1>11, <1>12 DEF ControlStep

LEMMA GroupRooted ==
    ASSUME ListsInv, Rooted(k), NEW t \in Task \ {Idle}, GroupStep(t)
    PROVE  Rooted(k')
<1> DEFINE c == Now(t)
           z == vTaskSuspendAll(k)
<1>0. k.cur = t /\ k.cur # Idle /\ KernelOK(k, k) /\ LegalCall(program, c)
  BY Running, CallIsLegal
<1>1. Rooted(z) /\ KernelOK(z, z) /\ z.cur = k.cur
  <2>1. z.cur = k.cur
    BY <1>0 DEF vTaskSuspendAll, KernelOK, KernelAt, Settled, Shape, Fields
  <2> QED
    BY <1>0, <2>1, MovelessOK, RootedPlain
<1>2. ASSUME c.x \in Object, NEW b, NEW set
      PROVE  Rooted(SetBits(z, b, c.x, set).k) /\ SetBits(z, b, c.x, set).k.cur = k.cur
  <2> DEFINE l == z.events[WaitingBits(c.x)]
  <2>1. l \in Seq(Task)
    BY <1>1, <1>2, EventListsOf DEF KernelOK, KernelAt, Settled, Shape
  <2>2. KernelOK(SetBits(z, b, c.x, set).k, z)
    BY <1>1, <1>2, SetBitsOK
  <2> HIDE DEF z
  <2>3. Rooted(SetBits(z, b, c.x, set).k)
    BY <1>1, <2>1, RootedGroup
  <2> QED
    BY <1>1, <2>2, <2>3, Own DEF Steady
<1>3. CASE EnterGroup(t)
  <2> DEFINE done == (IF c.op = "xEventGroupSync" THEN SetBits(z, g[c.x], c.x, c.set)
                      ELSE [k |-> z, bits |-> g[c.x]]).k
  <2>1. c.x \in Object
    BY <1>0, <1>3 DEF LegalCall, EnterGroup, Calls
  <2>2. Rooted(done) /\ done.cur # Idle
    <3> HIDE DEF z
    <3>1. CASE c.op = "xEventGroupSync"
      BY <1>0, <1>2, <2>1, <3>1
    <3>2. CASE c.op # "xEventGroupSync"
      BY <1>0, <1>1, <3>2
    <3> QED
      BY <3>1, <3>2
  <2>3. k' \in {done, vTaskPlaceOnUnorderedEventList(done, WaitingBits(c.x), Wanted(c), c.ticks)}
    BY <1>3, Zenon DEF EnterGroup, Entered
  <2> HIDE DEF done
  <2> QED
    BY <2>2, <2>3, RootedPlace
<1>4. CASE LeaveGroup(t) \/ ResumeFromSet(t)
  <2>1. k' \in {ResumeAndYield(k), xTaskResumeAll(k).k}
    BY <1>4 DEF LeaveGroup, ResumeFromSet
  <2> QED
    BY <1>0, <2>1, RootedResume
<1>5. CASE LateForBits(t) \/ xEventGroupClearBits(t)
  BY <1>5 DEF LateForBits, xEventGroupClearBits
<1>6. CASE ReadEventItem(t)
  <2>1. DOMAIN k = Fields
    BY DEF Rooted, Seated
  <2>2. k' = [k EXCEPT !.bits[t] = NoBits, !.key[t] = configMAX_PRIORITIES - k.prio[t]]
    BY <1>6, Zenon DEF ReadEventItem
  <2>3. DOMAIN k' = Fields /\ k'.ready = k.ready /\ k'.prio = k.prio
    BY <2>1, <2>2 DEF Fields
  <2> QED
    BY <2>3, RootedSame
<1>7. CASE xEventGroupSetBits(t)
  <2>1. c.x \in Object
    BY <1>0, <1>7 DEF LegalCall, xEventGroupSetBits, Calls
  <2>2. \E b, set : k' = SetBits(z, b, c.x, set).k
    BY <1>7, Zenon DEF xEventGroupSetBits, BitsSet
  <2> QED
    BY <1>2, <2>1, <2>2
<1>8. CASE vEventGroupDelete(t)
  <2> DEFINE l == k.events[WaitingBits(c.x)]
  <2>1. c.x \in Object
    BY <1>0, <1>8 DEF LegalCall, vEventGroupDelete, Calls
  <2>2. l \in Seq(Task)
    BY <1>0, <2>1, EventListsOf DEF KernelOK, KernelAt, Settled, Shape
  <2>3. k' = FoldLeft(TellNothing, z, l)
    BY <1>8, Zenon DEF vEventGroupDelete
  <2> HIDE DEF z, l
  <2> QED
    BY <1>1, <2>2, <2>3, RootedGroup
<1> QED
  BY <1>3, <1>4, <1>5, <1>6, <1>7, <1>8 DEF GroupStep

LEMMA StreamRooted ==
    ASSUME ListsInv, Rooted(k), NEW t \in Task \ {Idle}, StreamStep(t)
    PROVE  Rooted(k')
<1>0. k.cur # Idle /\ KernelOK(k, k)
  BY Running, CallIsLegal
<1>1. Rooted(vTaskSuspendAll(k)) /\ Rooted(xTaskNotifyStateClear(k))
  BY RootedPlain, RootedNotify
<1>2. CASE TryToSend(t) \/ TryToReceive(t)
  <2>1. UNCHANGED k \/ \E b : k' = configASSERT(xTaskNotifyStateClear(k), b)
    BY <1>2 DEF TryToSend, TryToReceive
  <2> QED
    BY <1>1, <2>1, RootedPlain
<1>3. CASE WaitForStream(t)
  <2>1. \E n : k' = xTaskNotifyWait(k, n)
    BY <1>3, Zenon DEF WaitForStream
  <2> QED
    BY <1>0, <2>1, RootedAwait
<1>4. CASE EndWaitForStream(t)
  BY <1>4, RootedNotify DEF EndWaitForStream
<1>5. CASE NotifyReceiver(t) \/ NotifySender(t)
  <2>1. UNCHANGED k \/ k' = vTaskSuspendAll(k) \/ \E w : k' = xTaskGenericNotify(vTaskSuspendAll(k), w, 0, "eNoAction")
    BY <1>5 DEF NotifyReceiver, NotifySender
  <2> QED
    BY <1>1, <2>1, RootedNotify
<1>6. CASE ResumeFromStream(t)
  BY <1>0, <1>6, RootedResume DEF ResumeFromStream
<1>7. CASE UNCHANGED k
  BY <1>7
<1> QED
  BY <1>2, <1>3, <1>4, <1>5, <1>6, <1>7
     DEF StreamStep, CheckSendTime, LookAfterWait, WriteToStream, WriteMessageData, ReadFromStream,
         ReadMessageData, PutLengthBack, xStreamBufferReset

LEMMA TimerRooted ==
    ASSUME ListsInv, CountsInv, Rooted(k), NEW t \in Task \ {Idle}, TimerStep(t)
    PROVE  Rooted(k')
<1> DEFINE b == q[TimerQueue]
<1>0. k.cur # Idle /\ KernelOK(k, k) /\ TimersOK(tm, Timer)
  BY Running, CallIsLegal DEF ListsInv
<1>1. b.holder # Idle /\ irqs \in Nat /\ Remains(b, b, irqs)
  <2>1. Now(t).op = "prvTimerTask"
    BY CallIsLegal, DaemonSteps
  <2>2. X(t) \in DOMAIN q /\ X(t) = TimerQueue
    BY <2>1, CallIsLegal, QueueOfCall DEF LegalCall, X
  <2> QED
    BY <2>2, HolderIs
<1>2. Serves(b, Daemons, irqs) /\ Daemons.k = k /\ Daemons.tm = tm
  BY <1>1 DEF Serves, Daemons
<1> HIDE DEF b
<1>3. CASE ExpireOrBlock(t)
  <2> DEFINE y == [Daemons EXCEPT !.k = vTaskSuspendAll(@)]
             z == prvSampleTimeNow(y)
  <2>1. \/ \E n, forever : k' = vTaskPlaceOnEventListRestricted(y.k, Receiving(TimerQueue), n, forever)
        \/ k' \in {y.k, z.k}
    BY <1>3, Zenon DEF ExpireOrBlock, Adopt
  <2>2. Serves(b, y, irqs) /\ y.k = vTaskSuspendAll(k) /\ y.tm = tm
    BY <1>2 DEF Serves
  <2>3. Rooted(y.k) /\ y.k.cur # Idle
    <3>1. vTaskSuspendAll(k).cur = k.cur
      BY <1>0 DEF vTaskSuspendAll, KernelOK, KernelAt, Settled, Shape, Fields
    <3> QED
      BY <1>0, <2>2, <3>1, RootedPlain
  <2> HIDE DEF y
  <2>4. IsFiniteSet(DOMAIN y.tm.period)
    BY <1>0, <2>2 DEF TimersOK
  <2>5. Rooted(z.k)
    BY <1>1, <2>2, <2>3, <2>4, RootedSample
  <2> HIDE DEF z
  <2> QED
    BY <2>1, <2>3, <2>5, RootedPlace
<1>4. CASE ResumeDaemon(t)
  BY <1>0, <1>4, RootedResume DEF ResumeDaemon
<1>5. CASE prvProcessExpiredTimer(t)
  <2> DEFINE x == Head(tm.current)
             at == tm.expiry[x]
             out == RemoveTimer(tm, x)
             set == prvInsertTimerInActiveList(out, x, (at + tm.period[x]) % Ticks, call[t].size, at)
             z == [Daemons EXCEPT !.tm = set.m]
             sent == SendToSelf(z, "tmrCOMMAND_START_DONT_TRACE", x, at)
             still == [z EXCEPT !.tm = [out EXCEPT !.active[x] = FALSE]]
             queued == IF set.late THEN sent ELSE z
             y == IF tm.auto[x] THEN queued ELSE still
             w == [y EXCEPT !.tm = pxCallbackFunction(@, x)]
  <2>1. Adopt(w)
    BY <1>5, Zenon DEF prvProcessExpiredTimer
  <2> HIDE DEF x, at, out, set
  <2>2. Serves(b, z, irqs) /\ Serves(b, still, irqs) /\ z.k = k /\ still.k = k
    BY <1>2 DEF Serves
  <2> HIDE DEF z, still
  <2>3. Serves(b, sent, irqs) /\ Rooted(sent.k)
    BY <1>1, <2>2, SendToSelfServes, RootedSendToSelf
  <2> HIDE DEF sent
  <2>4. Serves(b, y, irqs) /\ Rooted(y.k)
    BY <2>2, <2>3
  <2> HIDE DEF y
  <2>5. w.k = y.k
    BY <2>4 DEF Serves
  <2> HIDE DEF w
  <2> QED
    BY <2>1, <2>4, <2>5 DEF Adopt
<1>6. CASE ReceiveCommand(t)
  <2>1. UNCHANGED k \/ k' = Received(k, b, TimerQueue).k
    BY <1>6 DEF ReceiveCommand, Fetch, b
  <2> QED
    BY <1>1, <2>1, RootedQueue
<1>7. CASE ProcessCommand(t)
  <2> DEFINE y == [Daemons EXCEPT !.tm = RemoveTimer(@, tm.message.timer)]
  <2>1. Execute(prvSampleTimeNow(y), tm.message)
    BY <1>7, Zenon DEF ProcessCommand
  <2>2. Serves(b, y, irqs) /\ y.k = k /\ y.tm = RemoveTimer(tm, tm.message.timer)
    BY <1>2 DEF Serves
  <2>3. IsFiniteSet(DOMAIN y.tm.period)
    <3>1. RemoveTimer(tm, tm.message.timer).period = tm.period /\ IsFiniteSet(DOMAIN tm.period)
      BY <1>0 DEF RemoveTimer, TimersOK, TimerFields
    <3> QED
      BY <2>2, <3>1
  <2> HIDE DEF y
  <2>4. Serves(b, prvSampleTimeNow(y), irqs) /\ Rooted(prvSampleTimeNow(y).k)
    BY <1>1, <2>2, <2>3, SampleServes, RootedSample
  <2> QED
    BY <1>1, <2>1, <2>4, RootedExecute
<1> QED
  BY <1>3, <1>4, <1>5, <1>6, <1>7 DEF TimerStep

LEMMA IdleRooted ==
    ASSUME ListsInv, Rooted(k), IdleStep
    PROVE  Rooted(k')
<1>0. KernelOK(k, k)
  BY DEF ListsInv
<1>1. CASE CleanUp
  <2>1. \A v : Rooted([k EXCEPT !.dying = v])
    BY RootedField
  <2>2. k' = [k EXCEPT !.dying = Tail(@)]
    BY <1>1 DEF CleanUp, prvCheckTasksWaitingTermination
  <2> QED
    BY <2>1, <2>2
<1>2. CASE FreeDead
  BY <1>2, RootedPlain DEF FreeDead
<1>3. CASE ResumeFromFree
  BY <1>0, <1>3, RootedResume DEF ResumeFromFree
<1>4. CASE IdleYield
  <2>1. \E c : k' = YieldIf(k, c)
    BY <1>4 DEF IdleYield
  <2> QED
    BY <2>1, RootedPlain
<1> QED
  BY <1>1, <1>2, <1>3, <1>4 DEF IdleStep

LEMMA InterruptRooted ==
    ASSUME ListsInv, CountsInv, Rooted(k), NEW c \in App[program].handlers, Handler(c)
    PROVE  Rooted(k')
<1>0. program \in Program /\ DOMAIN q = DOMAIN App[program].queues
  BY DEF ListsInv, CountsInv
<1>1. IF c.op # "xTimerGenericCommand" THEN LegalCall(program, c) ELSE HasQueue(program, TimerQueue)
  <2>1. LegalHandler(program, c)
    BY <1>0, AppAssumption, Zenon
  <2> QED
    BY <2>1 DEF LegalHandler
<1>2. ASSUME NEW x, HasQueue(program, x), NEW v, NEW position,
             SendFromISR(x, v, position) \/ ReceiveFromISR(x)
      PROVE  Rooted(k')
  <2> DEFINE b == q[x]
  <2>1. b.holder # Idle
    BY <1>0, <1>2, HolderIs DEF HasQueue
  <2>2. k' = SentFromISR(k, b, x, v, position).k \/ k' = ReceivedFromISR(k, b, x).k
    BY <1>2 DEF SendFromISR, ReceiveFromISR, Becomes
  <2> HIDE DEF b
  <2> QED
    BY <2>1, <2>2, RootedQueue
<1>3. CASE c.op = "xQueueGenericSendFromISR" /\ SendFromISR(c.x, c.v, c.position)
  BY <1>1, <1>2, <1>3 DEF LegalCall, OtherQueueOp
<1>4. CASE c.op = "xQueueReceiveFromISR" /\ ReceiveFromISR(c.x)
  BY <1>1, <1>2, <1>4 DEF LegalCall, OtherQueueOp
<1>5. CASE /\ c.op = "xTimerGenericCommand"
           /\ SendFromISR(TimerQueue, [id |-> c.v, timer |-> c.x, value |-> k.tick], "queueSEND_TO_BACK")
  <2>1. \E v : SendFromISR(TimerQueue, v, "queueSEND_TO_BACK")
    BY <1>5
  <2> QED
    BY <1>1, <1>2, <1>5, <2>1
<1>6. CASE c.op = "xTaskResumeFromISR" /\ ResumeFromISR(c.x)
  <2> DEFINE done == xTaskResumeFromISR(k, c.x)
  <2>1. c.x # Idle
    BY <1>1, <1>6 DEF LegalCall, TaskOp
  <2>2. k' = YieldIf(done.k, done.yield)
    BY <1>6 DEF ResumeFromISR
  <2>3. Rooted(done.k)
    BY <2>1, RootedControl
  <2> HIDE DEF done
  <2> QED
    BY <2>2, <2>3, RootedPlain
<1>7. CASE c.op = "xTaskGenericNotifyFromISR" /\ NotifyFromISR(c.x, c.v, c.action)
  BY <1>7, RootedNotify DEF NotifyFromISR
<1>8. \A w : Rooted(NotifyWaiting(w))
  BY RootedNotify DEF NotifyWaiting
<1>9. CASE StreamSendFromISR(c.v) \/ StreamReceiveFromISR(c.v)
  <2>1. UNCHANGED k \/ \E w : k' = NotifyWaiting(w)
    BY <1>9 DEF StreamSendFromISR, StreamReceiveFromISR
  <2> QED
    BY <1>8, <2>1
<1> QED
  BY <1>3, <1>4, <1>5, <1>6, <1>7, <1>9 DEF Handler

\* The idle task is ready, and some task runs.
RootInv == Rooted(k) /\ k.cur \in Task

LEMMA PassesCur ==
    ASSUME NEW t, Passes(t)
    PROVE  k'.cur = k.cur
<1>1. ASSUME KernelOK(k', k) PROVE k'.cur = k.cur
  BY <1>1, Own DEF Steady
<1> QED
  BY <1>1 DEF Passes, Works, Suspends, Resumes, Paused, Released

LEMMA TickRooted ==
    ASSUME ListsInv, Rooted(k), xPortSysTickHandler
    PROVE  Rooted(k') /\ k'.cur = k.cur
<1> DEFINE r == xTaskIncrementTick(k)
<1>1. Rooted(r.k)
  BY RootedTick DEF ListsInv
<1>2. k' = YieldIf(r.k, r.switch)
  BY DEF xPortSysTickHandler
<1> HIDE DEF r
<1>3. \A b : Rooted(YieldIf(r.k, b))
  BY <1>1, RootedPlain
<1>4. Rooted(k')
  BY <1>2, <1>3, Zenon
<1> QED
  BY <1>4, SysTickOK DEF Rests

LEMMA PendSVRooted ==
    ASSUME ListsInv, RootInv, xPortPendSVHandler
    PROVE  RootInv'
<1> DEFINE z == [k EXCEPT !.pendsv = FALSE]
<1>1. KernelOK(z, k) /\ Rooted(z)
  BY FreeFieldsOK, RootedField DEF ListsInv, RootInv
<1>2. k' = vTaskSwitchContext(z)
  BY DEF xPortPendSVHandler
<1> HIDE DEF z
<1>3. z.cur \in Task
  BY <1>1, Own DEF Steady, RootInv
<1> QED
  BY <1>1, <1>2, <1>3, RootedSwitch DEF RootInv

LEMMA RootNext ==
    ASSUME ListsInv, CountsInv, IdleHome, NewTasks, RootInv, [Next]_vars
    PROVE  RootInv'
<1>1. Rooted(k) /\ k.cur \in Task
  BY DEF RootInv
<1>2. ASSUME NEW t \in Task, Passes(t), Rooted(k') PROVE RootInv'
  BY <1>1, <1>2, PassesCur DEF RootInv
<1>3. CASE QueueCall
  BY <1>1, <1>2, <1>3, NotIdle, QueueRooted, QueueStepOK DEF QueueCall
<1>4. CASE ControlCall
  BY <1>1, <1>2, <1>4, NotIdle, ControlRooted, ControlStepOK DEF ControlCall
<1>5. CASE GroupCall
  BY <1>1, <1>2, <1>5, NotIdle, GroupRooted, GroupStepOK DEF GroupCall
<1>6. CASE StreamCall
  BY <1>1, <1>2, <1>6, NotIdle, StreamRooted, StreamStepOK DEF StreamCall
<1>7. CASE TimerCall
  BY <1>1, <1>2, <1>7, NotIdle, TimerRooted, TimerStepOK DEF TimerCall
<1>8. CASE IdleLoop
  BY <1>1, <1>2, <1>8, IdleRooted, IdleStepOK, PriorityAssumption DEF IdleLoop
<1>9. CASE xPortSysTickHandler
  BY <1>1, <1>9, TickRooted DEF RootInv
<1>10. CASE Interrupt
  <2>1. PICK c \in App[program].handlers : Handler(c)
    BY <1>10 DEF Interrupt
  <2>2. Rooted(k') /\ KernelOK(k', k)
    BY <1>1, <2>1, InterruptRooted, HandlerOK
  <2> QED
    BY <1>1, <2>2, Own DEF RootInv, Steady
<1>11. CASE UNCHANGED k
  BY <1>11 DEF RootInv
<1> QED
  BY <1>3, <1>4, <1>5, <1>6, <1>7, <1>8, <1>9, <1>10, <1>11, PendSVRooted DEF Next, vars

\* The tasks are created one by one, the idle task last.
Begun(i, n, z) ==
    /\ Seated(z) /\ z.prio[Idle] = 0 /\ z.cur \in Task \cup {NULL}
    /\ i > 0 => z.cur \in Task
    /\ i = n => Rooted(z)

LEMMA FirstBegun ==
    ASSUME NEW i \in Nat, NEW n \in Nat, i < n, NEW z, Begun(i, n, z), NEW new, new.task \in Task,
           new.task = Idle => new.prio = 0, i + 1 = n => new.task = Idle
    PROVE  Begun(i + 1, n, CreateFirst(z, new))
<1> DEFINE t == new.task
           v == prvInitialiseNewTask(z, t, new.prio)
           w == prvAddNewTaskToReadyList(z, t, new.prio)
           y == [w EXCEPT !.cur = t]
<1>1. DOMAIN z = Fields /\ Seated(z) /\ z.prio[Idle] = 0 /\ Idle \in DOMAIN z.prio
  BY DEF Begun, Seated
<1>2. DOMAIN v = Fields /\ v.ready = z.ready /\ v.prio = [z.prio EXCEPT ![t] = new.prio] /\ v.cur = z.cur
  BY <1>1 DEF prvInitialiseNewTask, Fields
<1>3. w = prvAddTaskToReadyList(v, t)
  BY DEF prvAddNewTaskToReadyList
<1> HIDE DEF v
<1>4. DOMAIN v.prio = DOMAIN z.prio /\ v.prio[Idle] = 0
  BY <1>1, <1>2
<1>5. Seated(v)
  BY <1>1, <1>2, <1>4 DEF Seated
<1>6. Seated(w) /\ w.prio[Idle] = 0 /\ (i + 1 = n => Rooted(w))
  BY <1>3, <1>4, <1>5, RootedAdd
<1>7. w.cur = z.cur
  BY <1>2, <1>3 DEF prvAddTaskToReadyList, Fields
<1> HIDE DEF w
<1>8. DOMAIN y = Fields /\ y.ready = w.ready /\ y.prio = w.prio /\ y.cur = t
  BY <1>6 DEF Seated, Fields
<1> HIDE DEF y
<1>9. Seated(y) /\ y.prio[Idle] = 0 /\ (i + 1 = n => Rooted(y))
  BY <1>6, <1>8, RootedSame
<1>10. CreateFirst(z, new) = y \/ (CreateFirst(z, new) = w /\ z.cur # NULL)
  BY Zenon DEF CreateFirst, y, w, t
<1> QED
  BY <1>6, <1>7, <1>8, <1>9, <1>10 DEF Begun, t

LEMMA RootInit == Init => RootInv
<1> SUFFICES ASSUME Init PROVE RootInv
  OBVIOUS
<1> DEFINE created == App[program].tasks
           new == [task |-> Idle, prio |-> 0]
           l == Append(created, new)
           n == Len(l)
<1>1. LegalTasks(created)
  <2>1. program \in Program
    BY DEF Init, CallInit
  <2> QED
    BY <2>1, AppAssumption, Zenon
<1>2. k = FoldLeft(CreateFirst, NoKernel, l)
  BY Zenon DEF Init, CallInit, vTaskStartScheduler
<1> HIDE DEF created
<1>3. created \in Seq([task : Task \ {Idle}, prio : Prio])
  BY <1>1 DEF LegalTasks
<1>4. n \in Nat \ {0} /\ DOMAIN l = 1 .. n /\ n = Len(created) + 1 /\ l[n] = new
      /\ \A i \in 1 .. Len(created) : l[i] = created[i]
  BY <1>3
<1>5. ASSUME NEW i \in 1 .. n
      PROVE  l[i].task \in Task /\ (l[i].task = Idle => l[i].prio = 0) /\ (i = n => l[i].task = Idle)
  <2>1. CASE i = n
    BY <1>4, <2>1, PriorityAssumption
  <2>2. CASE i # n
    <3>1. i \in DOMAIN created /\ l[i] = created[i]
      BY <1>3, <1>4, <2>2
    <3>2. created[i] \in [task : Task \ {Idle}, prio : Prio]
      BY <1>3, <3>1, EntryOf, Zenon
    <3> QED
      BY <2>2, <3>1, <3>2
  <2> QED
    BY <2>1, <2>2
<1> HIDE DEF l, n, new
<1>6. Begun(0, n, NoKernel)
  <2> DEFINE z == NoKernel
  <2>1. /\ DOMAIN z = Fields /\ z.ready = [p \in Prio |-> vListInitialise] /\ z.prio = [t \in Task |-> 0]
        /\ z.cur = NULL
    BY DEF NoKernel, Fields
  <2> HIDE DEF z
  <2>2. 0 \in Prio /\ Idle \in Task
    BY PriorityAssumption DEF Prio
  <2>3. Circular(vListInitialise)
    <3>1. <<>> \in Seq({}) /\ 0 \in 0 .. Len(<<>>)
      OBVIOUS
    <3> QED
      BY <3>1 DEF Circular, vListInitialise
  <2> HIDE DEF vListInitialise
  <2>4. Seated(z) /\ z.prio[Idle] = 0 /\ z.cur \in Task \cup {NULL}
    BY <2>1, <2>2, <2>3 DEF Seated
  <2> QED
    BY <1>4, <2>4 DEF Begun, z
<1>7. Outcome("create", NoKernel, l, n, FoldLeft(CreateFirst, NoKernel, l))
  BY <1>4, CreateFirstLoop
<1>8. PICK after : InTurn("create", NoKernel, l, n, after) /\ after[n] = FoldLeft(CreateFirst, NoKernel, l)
  BY <1>7 DEF Outcome
<1>9. after[0] = NoKernel /\ \A i \in 1 .. n : after[i] = CreateFirst(after[i - 1], l[i])
  BY <1>8, Bodies DEF InTurn
<1> DEFINE S == {i \in 0 .. n : Begun(i, n, after[i])}
<1>10. 0 \in S
  BY <1>4, <1>6, <1>9
<1>11. ASSUME NEW i \in 1 .. n, i - 1 \in S PROVE i \in S
  <2>1. i - 1 \in Nat /\ i - 1 < n /\ (i - 1) + 1 = i /\ Begun(i - 1, n, after[i - 1])
    BY <1>4, <1>11
  <2>2. Begun((i - 1) + 1, n, CreateFirst(after[i - 1], l[i]))
    BY <1>4, <1>5, <2>1, FirstBegun
  <2> QED
    BY <1>9, <2>1, <2>2
<1> HIDE DEF S
<1>12. n \in S
  BY <1>4, <1>10, <1>11, Climb
<1>13. Begun(n, n, k)
  BY <1>2, <1>8, <1>12, Zenon DEF S, l, new
<1> QED
  BY <1>4, <1>13 DEF Begun, RootInv

\* Interrupts come as often as the application lets them.
LEMMA IrqsNext ==
    ASSUME irqs \in 0 .. App[program].interrupts, ListsInv, [Next]_vars
    PROVE  irqs' \in 0 .. App[program'].interrupts
<1> DEFINE n == App[program].interrupts
<1>1. UNCHANGED program
  BY ScriptStep, FitsNext DEF ListsInv
<1>2. n \in Nat
  BY AppAssumption, Zenon DEF ListsInv
<1>3. irqs' = irqs \/ (irqs < n /\ irqs' = irqs + 1)
  BY DEF Next, vars, xPortSysTickHandler, xPortPendSVHandler, Interrupt, May, QueueCall, ControlCall, GroupCall,
         StreamCall, TimerCall, IdleLoop
<1> HIDE DEF n
<1>4. irqs \in 0 .. n
  BY DEF n
<1>5. irqs' \in 0 .. n
  BY <1>2, <1>3, <1>4
<1> QED
  BY <1>1, <1>5 DEF n

LEMMA IrqsInit == Init => irqs \in 0 .. App[program].interrupts
<1> SUFFICES ASSUME Init PROVE irqs \in 0 .. App[program].interrupts
  OBVIOUS
<1>1. irqs = 0 /\ program \in Program
  BY DEF Init, CallInit
<1>2. App[program].interrupts \in Nat
  BY <1>1, AppAssumption, Zenon
<1> QED
  BY <1>1, <1>2

LEMMA ShapesOK ==
    ASSUME ListsInv, CountsInv, RootInv, InRing, NewTasks, irqs \in 0 .. App[program].interrupts
    PROVE  TypeOK
<1>1. Shape(k) /\ SuspendedByCaller
  BY DEF ListsInv, KernelOK, KernelAt, Settled
<1>2. k.cur \in Task /\ InReady(k, Idle, 0)
  BY DEF RootInv, Rooted, InReady
<1>3. /\ k.prio \in [Task -> Prio] /\ k.base \in [Task -> Prio]
      /\ k.tick \in 0 .. Ticks - 1 /\ k.next \in 0 .. Ticks - 1 /\ k.pended \in Nat
      /\ \A p \in Prio : k.ready[p].pxIndex \in 0 .. Len(k.ready[p].items)
  BY <1>1 DEF Shape, Time, ReadyList
<1>4. CountsOK
  BY DEF CountsInv, CountsOK, Remains, Counted
<1>5. irqs <= App[program].interrupts
  <2>1. App[program].interrupts \in Nat
    BY AppAssumption, Zenon DEF ListsInv
  <2> QED
    BY <2>1
<1>6. s.head \in DOMAIN s.buf /\ s.tail \in DOMAIN s.buf
  BY DEF InRing, IndexesOK, StreamOK
<1>7. \A x \in DOMAIN tm.age : tm.age[x] \in Int
  BY DEF ListsInv, TimersOK
<1> QED
  BY <1>1, <1>2, <1>3, <1>4, <1>5, <1>6, <1>7 DEF TypeOK

\* TypeOK (RtosProperties): the variables keep their shapes and there is
\* always a task to run.  The idle task never leaves the ready list of
\* priority 0, whatever is deleted, suspended, delayed, given another priority,
\* woken or switched to meanwhile (tasks.c looks for the next task without
\* asking whether there is one); the tick count, the counts of the queues and
\* the positions in a stream buffer stay within their bounds.
THEOREM TypesOK == Spec /\ []NewTasks => []TypeOK
<1> DEFINE Counts == irqs \in 0 .. App[program].interrupts
<1>1. Init => ListsInv /\ CountsInv /\ IdleHome /\ RootInv /\ Sized /\ InRing /\ Counts
  BY ListsInvInit, CountsInit, IdleHomeInit, RootInit, RingInit, IrqsInit
<1>2. /\ ListsInv /\ CountsInv /\ IdleHome /\ RootInv /\ Sized /\ InRing /\ Counts /\ NewTasks
      /\ [Next]_vars
      => (ListsInv /\ CountsInv /\ IdleHome /\ RootInv /\ Sized /\ InRing /\ Counts)'
  BY ListsInvNext, CountsNext, IdleHomeNext, RootNext, RingNext, IrqsNext
<1>3. ListsInv /\ CountsInv /\ RootInv /\ Sized /\ InRing /\ Counts /\ NewTasks => TypeOK
  BY ShapesOK
<1> HIDE DEF Counts
<1> QED
  BY <1>1, <1>2, <1>3, PTL DEF Spec

=============================================================================
