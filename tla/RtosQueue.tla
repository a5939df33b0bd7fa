----------------------------- MODULE RtosQueue -----------------------------
(***************************************************************************)
(* FreeRTOS queues, semaphores and mutexes (queue.c), as functions of the   *)
(* kernel k and of the data b of the queue x:                               *)
(*   type         "queue"; "semaphore" and "mutex" have items of no size    *)
(*   length, n    uxLength, uxMessagesWaiting                               *)
(*   rx, tx       cRxLock, cTxLock                                          *)
(*   buf, w, r    the storage, the slots of pcWriteTo and pcReadFrom        *)
(*   holder, rec  xMutexHolder, uxRecursiveCallCount                        *)
(***************************************************************************)
EXTENDS RtosTasks

queueUNLOCKED == -1
queueLOCKED_UNMODIFIED == 0

prvInitialiseNewQueue(type, length, item) ==
    [type |-> type, length |-> length, n |-> 0, rx |-> queueUNLOCKED, tx |-> queueUNLOCKED,
     buf |-> [i \in 0 .. length - 1 |-> item], w |-> 0, r |-> length - 1,
     holder |-> NULL, rec |-> 0]
prvInitialiseMutex(item) ==
    [prvInitialiseNewQueue("mutex", 1, item) EXCEPT !.n = 1]

prvIsQueueEmpty(b) == b.n = 0
prvIsQueueFull(b) == b.n = b.length
After(b, i) == (i + 1) % b.length
Before(b, i) == (i + b.length - 1) % b.length

\* The items, oldest first.
Contents(b) == [i \in 1 .. b.n |-> b.buf[(b.r + i) % b.length]]

----------------------------------------------------------------------------
(* The ring                                                                 *)

\* An item sent to the front goes to the slot last read.
ToBack(b, v) == [b EXCEPT !.buf[b.w] = v, !.w = After(b, @), !.n = @ + 1]
ToFront_Skip(b, v) == [b EXCEPT !.buf[Before(b, b.r)] = v, !.r = Before(b, @), !.n = @ + 1]
ToFront(b, v) == [b EXCEPT !.buf[b.r] = v, !.r = Before(b, @), !.n = @ + 1]
Overwrite(b, v) == [ToFront(b, v) EXCEPT !.n = IF b.n > 0 THEN b.n ELSE 1]

prvCopyDataToQueue_KeepHolder(b, v, position) ==
    IF b.type # "queue" THEN [b EXCEPT !.n = @ + 1] ELSE ToBack(b, v)
prvCopyDataToQueue(b, v, position) ==
    CASE b.type # "queue" -> [b EXCEPT !.n = @ + 1, !.holder = NULL]
      [] b.type = "queue" /\ position = "queueSEND_TO_BACK" -> ToBack(b, v)
      [] b.type = "queue" /\ position = "queueSEND_TO_FRONT" -> ToFront(b, v)
      [] b.type = "queue" /\ position = "queueOVERWRITE" -> Overwrite(b, v)

prvCopyDataFromQueue(b) ==
    IF b.type = "queue" THEN [b EXCEPT !.r = After(b, @)] ELSE b

\* What a copy from the queue finds.
First(b) == b.buf[After(b, b.r)]

----------------------------------------------------------------------------
(* Waking the tasks of an event list                                        *)

WakeOne(k, l) == IF k.events[l] = <<>> THEN k ELSE xTaskRemoveFromEventList(k, l)

\* The task is woken in the same critical section and preempts at its end.
WakeAndYield(k, l) ==
    YieldIf(WakeOne(k, l), k.events[l] # <<>> /\ Outranks(k, Head(k.events[l])))

\* An interrupt counts instead, while the queue is locked.
Deferred_Forgets(k, l, count) ==
    IF count = queueUNLOCKED THEN [k |-> WakeAndYield(k, l), count |-> count]
    ELSE [k |-> k, count |-> count]
Deferred(k, l, count) ==
    IF count = queueUNLOCKED THEN [k |-> WakeAndYield(k, l), count |-> count]
    ELSE [k |-> k, count |-> count + 1]

prvLockQueue(b) ==
    [b EXCEPT !.rx = IF @ = queueUNLOCKED THEN queueLOCKED_UNMODIFIED ELSE @,
              !.tx = IF @ = queueUNLOCKED THEN queueLOCKED_UNMODIFIED ELSE @]

\* One half of prvUnlockQueue wakes a task for every count, vTaskMissedYield
\* keeping the switch for xTaskResumeAll.
WakeMissed(k, l) ==
    IF k.events[l] # <<>> /\ Outranks(k, Head(k.events[l]))
    THEN vTaskMissedYield(WakeOne(k, l)) ELSE WakeOne(k, l)
Unlocked(k, l, count) == FoldLeft(WakeMissed, k, [i \in 1 .. count |-> l])

----------------------------------------------------------------------------
(* The critical sections of the calls, when they succeed                    *)

\* xQueueGenericSend: of a mutex, to its holder's base priority.
WakeOrYield(k, l, restored) ==
    IF k.events[l] # <<>> THEN WakeAndYield(k, l) ELSE YieldIf(k, restored)
Sent(k, b, x, v, position) ==
    LET mine == IF b.type = "mutex" THEN b.holder ELSE NULL
    IN  [k |-> WakeOrYield(xTaskPriorityDisinherit(k, mine), Receiving(x), Restores(k, mine)),
         b |-> prvCopyDataToQueue(b, v, position)]

\* Also xQueueGiveFromISR, of a semaphore.
CountTx(wake, b) == [k |-> wake.k, b |-> [b EXCEPT !.tx = wake.count]]
SentFromISR(k, b, x, v, position) ==
    CountTx(Deferred(k, Receiving(x), b.tx), prvCopyDataToQueue(b, v, position))

\* xQueueReceive and xQueueSemaphoreTake.
Received(k, b, x) ==
    LET out == [prvCopyDataFromQueue(b) EXCEPT !.n = @ - 1]
        mutex == b.type = "mutex"
    IN  [k |-> WakeAndYield([k EXCEPT !.held[k.cur] = IF mutex THEN @ + 1 ELSE @], Sending(x)),
         b |-> [out EXCEPT !.holder = IF mutex THEN k.cur ELSE @]]

CountRx(wake, b) == [k |-> wake.k, b |-> [b EXCEPT !.rx = wake.count]]
ReceivedFromISR(k, b, x) ==
    CountRx(Deferred(k, Sending(x), b.rx), [prvCopyDataFromQueue(b) EXCEPT !.n = @ - 1])

\* xQueuePeek leaves the item for the next receiver, whom it wakes.
Peeked(k, b, x) == [k |-> WakeAndYield(k, Receiving(x)), b |-> b]

xQueueGenericReset(k, b, x) ==
    [k |-> WakeAndYield(k, Sending(x)),
     b |-> [b EXCEPT !.n = 0, !.w = 0, !.r = b.length - 1,
                     !.rx = queueUNLOCKED, !.tx = queueUNLOCKED]]

\* The head of the list has the highest priority; the event item holds its
\* complement.
prvGetDisinheritPriorityAfterTimeout_Idle(k, x) == 0
prvGetDisinheritPriorityAfterTimeout(k, x) ==
    LET l == k.events[Receiving(x)]
    IN  IF l = <<>> THEN 0 ELSE configMAX_PRIORITIES - k.key[Head(l)]

=============================================================================
