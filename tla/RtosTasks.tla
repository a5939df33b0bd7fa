----------------------------- MODULE RtosTasks -----------------------------
(***************************************************************************)
(* The FreeRTOS kernel of the demo (tasks.c, configured by FreeRTOSConfig.h *)
(* for preemption, time slicing, mutexes and notifications), as functions   *)
(* of the kernel's data.  A kernel k is a record of                         *)
(*   ready, top          pxReadyTasksLists, uxTopReadyPriority (a set)      *)
(*   delayed, overflow   pxDelayedTaskList, pxOverflowDelayedTaskList       *)
(*   suspended, dying    xSuspendedTaskList, xTasksWaitingTermination       *)
(*   events              the event lists, Pending being xPendingReadyList   *)
(*   tick, overflows     xTickCount, xNumOfOverflows                        *)
(*   next, pended        xNextTaskUnblockTime, uxPendedTicks                *)
(*   susp, yield         uxSchedulerSuspended, xYieldPending                *)
(*   cur, pendsv         pxCurrentTCB, the pending PendSV exception         *)
(*   halted              a configASSERT has failed: the core loops forever  *)
(* and of each TCB: prio, base, held (uxPriority, uxBasePriority,           *)
(* uxMutexesHeld), wake (value of xStateListItem), key (of xEventListItem   *)
(* while it orders by priority), bits (while an event group uses it, NoBits *)
(* otherwise), note and value (ucNotifyState, ulNotifiedValue).             *)
(***************************************************************************)
EXTENDS RtosLists

CONSTANTS
    Task,                   \* the tasks, created or not
    Idle,                   \* the idle task
    configMAX_PRIORITIES,
    Ticks,                  \* 2^32 in the code: TickType_t wraps at it
    Overflows,              \* bound: xNumOfOverflows is counted modulo it
    Object,                 \* names of queues and event groups
    NULL

ASSUME TicksAssumption == Ticks \in Nat /\ Ticks > 2 /\ Overflows \in Nat /\ Overflows > 1
ASSUME NullAssumption == NULL \notin Task
ASSUME PriorityAssumption == configMAX_PRIORITIES \in Nat \ {0} /\ Idle \in Task

Prio == 0 .. configMAX_PRIORITIES - 1
portMAX_DELAY == Ticks - 1
NoBits == [wanted |-> {}, all |-> FALSE, clear |-> FALSE, set |-> FALSE]

\* The event lists, by their owner and their name.
Pending        == <<"kernel", "xPendingReadyList">>
Sending(x)     == <<x, "xTasksWaitingToSend">>
Receiving(x)   == <<x, "xTasksWaitingToReceive">>
WaitingBits(x) == <<x, "xTasksWaitingForBits">>
EventList ==
    {Pending} \cup UNION {{Sending(x), Receiving(x), WaitingBits(x)} : x \in Object}

configASSERT(k, condition) == IF condition THEN k ELSE [k EXCEPT !.halted = TRUE]
portYIELD_WITHIN_API(k) == [k EXCEPT !.pendsv = TRUE]
YieldIf(k, condition) == IF condition THEN portYIELD_WITHIN_API(k) ELSE k
vTaskMissedYield(k) == [k EXCEPT !.yield = TRUE]
Outranks(k, t) == k.prio[t] > k.prio[k.cur]
InReady(k, t, p) == Contains(k.ready[p].items, t)
InNoEvent(k, t) == \A l \in EventList : ~Contains(k.events[l], t)

----------------------------------------------------------------------------
(* Lists of tasks                                                           *)

\* uxListRemove of an item from whichever list contains it, if any does.
RemoveState(k, t) ==
    [k EXCEPT !.ready = [p \in Prio |-> uxListRemove(@[p], t)],
              !.delayed = RemoveFirst(@, t), !.overflow = RemoveFirst(@, t),
              !.suspended = RemoveFirst(@, t), !.dying = RemoveFirst(@, t)]
RemoveEvent(k, t) == [k EXCEPT !.events = [l \in EventList |-> RemoveFirst(@[l], t)]]

prvAddTaskToReadyList(k, t) ==
    LET p == k.prio[t]
    IN  [k EXCEPT !.ready[p] = vListInsertEnd(@, t), !.top = @ \cup {p}]

taskRESET_READY_PRIORITY(k, p) ==
    IF k.ready[p].items = <<>> THEN [k EXCEPT !.top = @ \ {p}] ELSE k

MakeReady(k, t) == prvAddTaskToReadyList(RemoveState(RemoveEvent(k, t), t), t)

\* A task leaves its list, perhaps a ready list.
Leave_KeepBit(k, t) == RemoveState(k, t)
Leave(k, t) == taskRESET_READY_PRIORITY(RemoveState(k, t), k.prio[t])

prvResetNextTaskUnblockTime(k) ==
    [k EXCEPT !.next = IF k.delayed = <<>> THEN portMAX_DELAY ELSE k.wake[Head(k.delayed)]]

taskSWITCH_DELAYED_LISTS(k) ==
    prvResetNextTaskUnblockTime(
        [configASSERT(k, k.delayed = <<>>) EXCEPT
            !.delayed = k.overflow, !.overflow = k.delayed,
            !.overflows = (@ + 1) % Overflows])

\* A wake time beyond the wrap of the tick count goes to the overflow list.
SleepUntil(k, t, wake) ==
    IF wake < k.tick
    THEN [k EXCEPT !.wake[t] = wake,
                   !.overflow = vListInsert(@, t, [k.wake EXCEPT ![t] = wake])]
    ELSE [k EXCEPT !.wake[t] = wake, !.next = IF wake < @ THEN wake ELSE @,
                   !.delayed = vListInsert(@, t, [k.wake EXCEPT ![t] = wake])]

\* indefinitely: xCanBlockIndefinitely.
prvAddCurrentTaskToDelayedList(k, ticks, indefinitely) ==
    IF ticks = portMAX_DELAY /\ indefinitely
    THEN [Leave(k, k.cur) EXCEPT !.suspended = Append(@, k.cur)]
    ELSE SleepUntil(Leave(k, k.cur), k.cur, (k.tick + ticks) % Ticks)

----------------------------------------------------------------------------
(* The tick, the context switch and the suspension of the scheduler         *)

\* taskSELECT_HIGHEST_PRIORITY_TASK: the next task of the highest ready list
\* that uxTopReadyPriority knows; configASSERT halts on an empty one.
vTaskSwitchContext(k) ==
    LET p == Max(k.top)
        l == k.ready[p]
    IN  IF k.susp > 0 THEN [k EXCEPT !.yield = TRUE]
        ELSE IF l.items = <<>> THEN [k EXCEPT !.halted = TRUE]
        ELSE [k EXCEPT !.yield = FALSE, !.ready[p].pxIndex = NextEntry(l),
                       !.cur = l.items[NextEntry(l)]]

\* The delayed list is in the order of the wake times: the loop takes all the
\* tasks that are due.  "switch" is what xTaskIncrementTick returns.
Advance(k) ==
    IF k.tick = Ticks - 1 THEN taskSWITCH_DELAYED_LISTS([k EXCEPT !.tick = 0])
                          ELSE [k EXCEPT !.tick = @ + 1]
Due(k) == IF k.tick < k.next THEN <<>>
          ELSE LET p == SelectInSeq(k.delayed, LAMBDA t : k.wake[t] > k.tick)
               IN  IF p = 0 THEN k.delayed ELSE SubSeq(k.delayed, 1, p - 1)
WakeDue(k) ==
    IF k.tick < k.next THEN k
    ELSE prvResetNextTaskUnblockTime(FoldLeft(MakeReady, k, Due(k)))
Ticked(k, due) ==
    [k |-> k, switch |-> \/ \E t \in ToSet(due) : k.prio[t] >= k.prio[k.cur]
                         \/ Len(k.ready[k.prio[k.cur]].items) > 1
                         \/ k.yield]
xTaskIncrementTick(k) ==
    IF k.susp > 0 THEN [k |-> [k EXCEPT !.pended = @ + 1], switch |-> k.yield]
    ELSE Ticked(WakeDue(Advance(k)), Due(Advance(k)))

vTaskSuspendAll(k) == [k EXCEPT !.susp = @ + 1]

\* xTaskResumeAll: the tasks of xPendingReadyList, then the ticks counted
\* meanwhile.
Admit(k, t) == [MakeReady(k, t) EXCEPT !.yield = @ \/ k.prio[t] >= k.prio[k.cur]]
AdmitPending(k) ==
    IF k.events[Pending] = <<>> THEN k
    ELSE prvResetNextTaskUnblockTime(FoldLeft(Admit, k, k.events[Pending]))

Latch(ticked) == [ticked.k EXCEPT !.yield = @ \/ ticked.switch]
CountOne(k, i) == Latch(xTaskIncrementTick(k))
CountPended_Lost(k) == [k EXCEPT !.pended = 0]
CountPended(k) ==
    [FoldLeft(CountOne, k, [i \in 1 .. k.pended |-> i]) EXCEPT !.pended = 0]

\* "yielded" is what xTaskResumeAll returns: it has pended the switch itself.
Resumed(k) == [k |-> YieldIf(k, k.yield), yielded |-> k.yield]
ResumeIfLast(k) ==
    IF k.susp > 0 THEN [k |-> k, yielded |-> FALSE]
    ELSE Resumed(CountPended(AdmitPending(k)))
xTaskResumeAll(k) == ResumeIfLast([configASSERT(k, k.susp > 0) EXCEPT !.susp = @ - 1])

\* xTaskResumeAll at the end of a call that has put the caller to sleep.
YieldUnless(resumed) == YieldIf(resumed.k, ~resumed.yielded)
ResumeAndYield(k) == YieldUnless(xTaskResumeAll(k))

----------------------------------------------------------------------------
(* Event lists and timeouts                                                 *)

vTaskPlaceOnEventList(k, l, ticks) ==
    prvAddCurrentTaskToDelayedList(
        [k EXCEPT !.events[l] = vListInsert(@, k.cur, k.key)], ticks, TRUE)

vTaskPlaceOnUnorderedEventList(k, l, bits, ticks) ==
    prvAddCurrentTaskToDelayedList(
        [configASSERT(k, k.susp > 0) EXCEPT
            !.bits[k.cur] = bits, !.events[l] = Append(@, k.cur)], ticks, TRUE)

vTaskPlaceOnEventListRestricted(k, l, ticks, indefinitely) ==
    prvAddCurrentTaskToDelayedList(
        [k EXCEPT !.events[l] = Append(@, k.cur)],
        IF indefinitely THEN portMAX_DELAY ELSE ticks, indefinitely)

\* While the scheduler is suspended only the event item may move: the task
\* waits in xPendingReadyList.
Waken(k, t) ==
    IF k.susp = 0 THEN MakeReady(k, t)
    ELSE [RemoveEvent(k, t) EXCEPT !.events[Pending] = Append(@, t)]

xTaskRemoveFromEventList(k, l) ==
    LET t == Head(k.events[l])
    IN  [Waken(k, t) EXCEPT !.yield = @ \/ Outranks(k, t)]

vTaskRemoveFromUnorderedEventList(k, t, bits) ==
    [MakeReady(configASSERT(k, k.susp > 0), t) EXCEPT
        !.bits[t] = [NoBits EXCEPT !.wanted = bits, !.set = TRUE],
        !.yield = @ \/ Outranks(k, t)]

vTaskInternalSetTimeOutState(k) == [overflows |-> k.overflows, tick |-> k.tick]

\* since: the TimeOut_t; left: the ticks still to wait.
xTaskCheckForTimeOut_AnyOverflow(k, since, left) ==
    LET elapsed == (k.tick - since.tick) % Ticks
    IN  IF left # portMAX_DELAY /\ (k.overflows # since.overflows \/ elapsed >= left)
        THEN [out |-> TRUE, left |-> 0, since |-> since]
        ELSE [out |-> FALSE, left |-> IF left = portMAX_DELAY THEN left ELSE left - elapsed,
              since |-> vTaskInternalSetTimeOutState(k)]
xTaskCheckForTimeOut(k, since, left) ==
    LET elapsed == (k.tick - since.tick) % Ticks
        wrapped == k.overflows # since.overflows /\ k.tick >= since.tick
    IN  IF left = portMAX_DELAY THEN [out |-> FALSE, left |-> left, since |-> since]
        ELSE IF wrapped THEN [out |-> TRUE, left |-> left, since |-> since]
        ELSE IF elapsed < left
        THEN [out |-> FALSE, left |-> left - elapsed, since |-> vTaskInternalSetTimeOutState(k)]
        ELSE [out |-> TRUE, left |-> 0, since |-> since]

----------------------------------------------------------------------------
(* Control of tasks                                                         *)

\* xTaskCreate once the memory is there: a new TCB, which becomes ready.
prvInitialiseNewTask(k, t, p) ==
    [k EXCEPT !.prio[t] = p, !.base[t] = p, !.held[t] = 0, !.note[t] = "NOT_WAITING",
              !.value[t] = 0, !.bits[t] = NoBits, !.key[t] = configMAX_PRIORITIES - p]
prvAddNewTaskToReadyList(k, t, p) == prvAddTaskToReadyList(prvInitialiseNewTask(k, t, p), t)

\* The critical section of vTaskDelete; the idle task frees a task that
\* deletes itself.
vTaskDelete(k, t) ==
    IF t = k.cur THEN [Leave(RemoveEvent(k, t), t) EXCEPT !.dying = Append(@, t)]
    ELSE prvResetNextTaskUnblockTime(Leave(RemoveEvent(k, t), t))

prvCheckTasksWaitingTermination(k) == [k EXCEPT !.dying = Tail(@)]

\* The first critical section of vTaskSuspend.
vTaskSuspend(k, t) ==
    [Leave(RemoveEvent(k, t), t) EXCEPT
        !.suspended = Append(@, t),
        !.note[t] = IF @ = "WAITING" THEN "NOT_WAITING" ELSE @]

prvTaskIsTaskSuspended(k, t) == Contains(k.suspended, t) /\ InNoEvent(k, t)

vTaskResume(k, t) ==
    IF t = k.cur \/ ~prvTaskIsTaskSuspended(k, t) THEN k
    ELSE YieldIf(MakeReady(k, t), k.prio[t] >= k.prio[k.cur])

xTaskResumeFromISR(k, t) ==
    IF ~prvTaskIsTaskSuspended(k, t) THEN [k |-> k, yield |-> FALSE]
    ELSE [k |-> Waken(k, t), yield |-> k.susp = 0 /\ k.prio[t] >= k.prio[k.cur]]

\* A task moves to the end of the ready list of its (new) priority.
Requeue_NoRemove(k, t, used, reset) ==
    IF ~InReady(k, t, used) THEN k
    ELSE prvAddTaskToReadyList(taskRESET_READY_PRIORITY(k, reset), t)
Requeue(k, t, used, reset) ==
    IF ~InReady(k, t, used) THEN k
    ELSE prvAddTaskToReadyList(taskRESET_READY_PRIORITY(RemoveState(k, t), reset), t)

\* The key of the event item follows the priority unless an event group uses it.
SetKey(k, t, p) ==
    IF k.bits[t] # NoBits THEN k ELSE [k EXCEPT !.key[t] = configMAX_PRIORITIES - p]

\* An inherited priority stays.
vTaskPrioritySet_NoYield(k, t, new) ==
    Requeue([SetKey(k, t, new) EXCEPT !.prio[t] = new, !.base[t] = new],
            t, k.prio[t], k.prio[t])
vTaskPrioritySet(k, t, new) ==
    IF k.base[t] = new THEN k
    ELSE YieldIf(
            Requeue([SetKey(k, t, new) EXCEPT !.prio[t] = IF k.base[t] = @ THEN new ELSE @,
                                              !.base[t] = new], t, k.prio[t], k.prio[t]),
            IF new > k.base[t] THEN t # k.cur /\ new >= k.prio[k.cur] ELSE t = k.cur)

----------------------------------------------------------------------------
(* Priority inheritance (called from queue.c)                               *)

xTaskPriorityInherit(k, h) ==
    LET p == k.prio[k.cur]
    IN  IF h = NULL \/ k.prio[h] >= p THEN k
        ELSE Requeue([SetKey(k, h, p) EXCEPT !.prio[h] = p], h, k.prio[h], k.prio[h])

\* What xTaskPriorityInherit returns.
Inherits(k, h) ==
    h # NULL /\ (k.prio[h] < k.prio[k.cur] \/ k.base[h] < k.prio[k.cur])

Restores(k, h) == h # NULL /\ k.prio[h] # k.base[h] /\ k.held[h] = 1

\* The holder is the running task; it is back at its own priority once it
\* holds no other mutex (Restores is what the function returns).
xTaskPriorityDisinherit(k, h) ==
    LET out == [configASSERT(k, h = NULL \/ (h = k.cur /\ k.held[h] > 0)) EXCEPT !.held[h] = @ - 1]
    IN  IF h = NULL THEN k
        ELSE IF ~Restores(k, h) THEN out
        ELSE prvAddTaskToReadyList(
                [taskRESET_READY_PRIORITY(RemoveState(out, h), k.prio[h]) EXCEPT
                    !.prio[h] = k.base[h], !.key[h] = configMAX_PRIORITIES - k.base[h]], h)

\* uxPriority is the new one already when taskRESET_READY_PRIORITY reads it
\* (3881, 3907).
vTaskPriorityDisinheritAfterTimeout(k, h, waiting) ==
    LET use == IF k.base[h] < waiting THEN waiting ELSE k.base[h]
        safe == configASSERT(k, k.held[h] > 0)
    IN  IF h = NULL THEN k
        ELSE IF k.prio[h] = use \/ k.held[h] # 1 THEN safe
        ELSE Requeue([SetKey(configASSERT(safe, h # k.cur), h, use) EXCEPT !.prio[h] = use],
                     h, k.prio[h], use)

----------------------------------------------------------------------------
(* Task notifications                                                       *)

\* The two critical sections of ulTaskNotifyTake; of xTaskNotifyWait (called
\* without bits to clear) the guard of the first and the result differ.
Await(k, ticks) ==
    LET waiting == [k EXCEPT !.note[k.cur] = "WAITING"]
    IN  IF ticks = 0 THEN waiting
        ELSE portYIELD_WITHIN_API(prvAddCurrentTaskToDelayedList(waiting, ticks, TRUE))
ulTaskNotifyTake(k, ticks) == IF k.value[k.cur] # 0 THEN k ELSE Await(k, ticks)
NotifyTaken(k, all) ==
    [k EXCEPT !.note[k.cur] = "NOT_WAITING",
              !.value[k.cur] = IF @ = 0 \/ all THEN 0 ELSE @ - 1]
xTaskNotifyWait(k, ticks) == IF k.note[k.cur] = "RECEIVED" THEN k ELSE Await(k, ticks)
NotifyWaited(k) == [k EXCEPT !.note[k.cur] = "NOT_WAITING"]
xTaskNotifyStateClear(k) ==
    [k EXCEPT !.note[k.cur] = IF @ = "RECEIVED" THEN "NOT_WAITING" ELSE @]

\* eAction: a bit to set is a power of two.
NotifiedValue(k, t, v, action) ==
    LET old == k.value[t]
    IN  CASE action = "eSetBits" -> IF (old \div v) % 2 = 1 THEN old ELSE old + v
          [] action = "eIncrement" -> old + 1
          [] action = "eSetValueWithOverwrite" -> v
          [] action = "eSetValueWithoutOverwrite" -> IF k.note[t] = "RECEIVED" THEN old ELSE v
          [] action = "eNoAction" -> old
Notified(k, t, v, action) ==
    [k EXCEPT !.value[t] = NotifiedValue(k, t, v, action), !.note[t] = "RECEIVED"]

\* The state item moves even when the task was only about to wait.
xTaskGenericNotify(k, t, v, action) ==
    IF k.note[t] # "WAITING" THEN Notified(k, t, v, action)
    ELSE YieldIf(MakeReady(configASSERT(Notified(k, t, v, action), InNoEvent(k, t)), t), Outranks(k, t))

\* Also vTaskNotifyGiveFromISR (eIncrement).
xTaskGenericNotifyFromISR_Drop(k, t, v, action) ==
    IF k.susp > 0 THEN [k EXCEPT !.value[t] = NotifiedValue(k, t, v, action)]
    ELSE xTaskGenericNotify(k, t, v, action)
xTaskGenericNotifyFromISR(k, t, v, action) ==
    IF k.note[t] # "WAITING" THEN Notified(k, t, v, action)
    ELSE YieldIf([Waken(configASSERT(Notified(k, t, v, action), InNoEvent(k, t)), t) EXCEPT
                      !.yield = @ \/ Outranks(k, t)],
                 Outranks(k, t))

=============================================================================
