--------------------------- MODULE RtosQueueCalls ---------------------------
(* The blocking calls of queue.c.  The four functions have one shape: try,   *)
(* note the time, suspend the scheduler, lock the queue, look again, block.  *)
EXTENDS RtosCalls

VARIABLE q          \* the data of each queue of the application

QueueInit == q = App[program].queues

SendOp == {"xQueueGenericSend", "xTimerGenericCommand"}
TakeOp == {"xQueueSemaphoreTake", "xQueueTakeMutexRecursive"}
ReceiveOp == {"xQueueReceive", "xQueuePeek"} \cup TakeOp
QueueOp == SendOp \cup ReceiveOp

X(t) == Now(t).x
Waits(t) == IF Now(t).op \in SendOp THEN Sending(X(t)) ELSE Receiving(X(t))

\* The condition the task waits for.
Able(t) ==
    IF Now(t).op \in SendOp
    THEN ~prvIsQueueFull(q[X(t)]) \/ Now(t).position = "queueOVERWRITE"
    ELSE ~prvIsQueueEmpty(q[X(t)])

\* A command to the timer task tells when it was given; a new period, the period.
ItemOf(t) ==
    LET c == Now(t)
    IN  IF c.op = "xQueueGenericSend" THEN c.v
        ELSE [id |-> c.v, timer |-> c.timer,
              value |-> IF "period" \in DOMAIN c THEN c.period ELSE call[t].size]

Success(t) ==
    LET c == Now(t)
    IN  CASE c.op \in SendOp -> Sent(k, q[c.x], c.x, ItemOf(t), c.position)
          [] c.op = "xQueuePeek"        -> Peeked(k, q[c.x], c.x)
          [] OTHER                      -> Received(k, q[c.x], c.x)

\* uxRecursiveCallCount, which only the holder changes.
Count(t, done) ==
    IF Now(t).op = "xQueueTakeMutexRecursive" THEN [done EXCEPT !.b.rec = @ + 1] ELSE done

Becomes(x, done) == k' = done.k /\ q' = [q EXCEPT ![x] = done.b]

\* The holder of a mutex takes it again.
TakeAgain(t) ==
    /\ Calls(t, "xQueueTakeMutexRecursive")
    /\ q[X(t)].holder = t
    /\ q' = [q EXCEPT ![X(t)].rec = @ + 1]
    /\ call' = Return(t, TRUE, "pdPASS")
    /\ UNCHANGED k

\* xTimerGenericCommand, for which its caller reads the tick count.
ReadCommandTime(t) ==
    /\ Calls(t, "xTimerGenericCommand")
    /\ call' = [call EXCEPT ![t].at = "command", ![t].size = k.tick]
    /\ UNCHANGED <<k, q>>

\* The critical section each round begins with.
TryQueue(t) ==
    /\ \/ Runs(t, "call") /\ Now(t).op # "xTimerGenericCommand"
       \/ Runs(t, "command") \/ Runs(t, "again")
    /\ Now(t).op \in QueueOp
    /\ Now(t).op = "xQueueTakeMutexRecursive" => q[X(t)].holder # t
    /\ LET first == call[t].at # "again"
           left == IF first THEN Now(t).ticks ELSE call[t].left
       IN  \/ /\ Able(t)
              /\ Becomes(X(t), Count(t, Success(t)))
              /\ call' = Return(t, TRUE, "pdPASS")
           \/ /\ ~Able(t) /\ left = 0
              /\ k' = configASSERT(k, ~call[t].inherited)
              /\ call' = Return(t, FALSE, "timeout")
              /\ UNCHANGED q
           \/ /\ ~Able(t) /\ left # 0
              /\ call' = [call EXCEPT ![t].at = "suspend", ![t].left = left,
                              ![t].since = IF first THEN vTaskInternalSetTimeOutState(k) ELSE @]
              /\ UNCHANGED <<k, q>>

SuspendForQueue(t) ==
    /\ Runs(t, "suspend")
    /\ k' = vTaskSuspendAll(k)
    /\ call' = Goto(t, "lock")
    /\ UNCHANGED q

LockQueue(t) ==
    /\ Runs(t, "lock")
    /\ q' = [q EXCEPT ![X(t)] = prvLockQueue(@)]
    /\ call' = Goto(t, "look")
    /\ UNCHANGED k

\* xInheritanceOccurred keeps what it was when the task does not block.
BlockOnQueue(t) ==
    LET check == xTaskCheckForTimeOut(k, call[t].since, call[t].left)
        mutex == Now(t).op \in TakeOp /\ q[X(t)].type = "mutex"
        holder == IF mutex THEN q[X(t)].holder ELSE NULL
        Take(path) ==
            call' = [call EXCEPT ![t].at = "unlockTx", ![t].left = check.left,
                                 ![t].since = check.since, ![t].path = path,
                                 ![t].inherited = IF path = "blocked" /\ mutex
                                                  THEN Inherits(k, holder) ELSE @]
    IN  /\ Runs(t, "look")
        /\ \/ /\ ~check.out /\ ~Able(t)
              /\ k' = vTaskPlaceOnEventList(xTaskPriorityInherit(k, holder), Waits(t), check.left)
              /\ Take("blocked")
           \/ /\ ~check.out /\ Able(t)
              /\ Take("retry")
              /\ UNCHANGED k
           \/ /\ check.out
              /\ Take("late")
              /\ UNCHANGED k
        /\ UNCHANGED q

UnlockTx(t) ==
    /\ Runs(t, "unlockTx")
    /\ k' = Unlocked(k, Receiving(X(t)), q[X(t)].tx)
    /\ q' = [q EXCEPT ![X(t)].tx = queueUNLOCKED]
    /\ call' = Goto(t, "unlockRx")

UnlockRx(t) ==
    /\ Runs(t, "unlockRx")
    /\ k' = Unlocked(k, Sending(X(t)), q[X(t)].rx)
    /\ q' = [q EXCEPT ![X(t)].rx = queueUNLOCKED]
    /\ call' = Goto(t, "resume")

ResumeFromQueue(t) ==
    /\ Runs(t, "resume")
    /\ k' = IF call[t].path = "blocked" THEN ResumeAndYield(k) ELSE xTaskResumeAll(k).k
    /\ call' = IF call[t].path # "late" THEN Goto(t, "again")
               ELSE IF Now(t).op \in SendOp THEN Return(t, FALSE, "timeout")
               ELSE Goto(t, "late")
    /\ UNCHANGED q

\* Out of time; but an item may have come in the meantime.
LateForQueue(t) ==
    /\ Runs(t, "late")
    /\ call' = IF ~prvIsQueueEmpty(q[X(t)]) THEN Goto(t, "again")
               ELSE IF call[t].inherited THEN Goto(t, "disinherit")
               ELSE Return(t, FALSE, "timeout")
    /\ UNCHANGED <<k, q>>

DisinheritLate(t) ==
    /\ Runs(t, "disinherit")
    /\ k' = vTaskPriorityDisinheritAfterTimeout(k, q[X(t)].holder,
                prvGetDisinheritPriorityAfterTimeout(k, X(t)))
    /\ call' = Return(t, FALSE, "timeout")
    /\ UNCHANGED q

\* The last give of a recursive mutex sends to its queue.
xQueueGiveMutexRecursive(t) ==
    LET b == [q[X(t)] EXCEPT !.rec = @ - 1]
    IN  /\ Calls(t, "xQueueGiveMutexRecursive")
        /\ \/ /\ q[X(t)].holder # t
              /\ call' = Return(t, FALSE, "pdFAIL")
              /\ UNCHANGED <<k, q>>
           \/ /\ q[X(t)].holder = t
              /\ Becomes(X(t), IF b.rec = 0 THEN Sent(k, b, X(t), NULL, "queueSEND_TO_BACK")
                                            ELSE [k |-> k, b |-> b])
              /\ call' = Return(t, TRUE, "pdPASS")

ResetQueue(t) ==
    /\ Calls(t, "xQueueReset")
    /\ Becomes(X(t), xQueueGenericReset(k, q[X(t)], X(t)))
    /\ call' = Return(t, TRUE, "pdPASS")

QueueStep(t) ==
    \/ TakeAgain(t) \/ ReadCommandTime(t) \/ TryQueue(t) \/ SuspendForQueue(t) \/ LockQueue(t) \/ BlockOnQueue(t)
    \/ UnlockTx(t) \/ UnlockRx(t) \/ ResumeFromQueue(t) \/ LateForQueue(t) \/ DisinheritLate(t)
    \/ xQueueGiveMutexRecursive(t) \/ ResetQueue(t)

----------------------------------------------------------------------------
(* Calls of interrupt handlers                                              *)

SendFromISR(x, v, position) ==
    /\ ~prvIsQueueFull(q[x]) \/ position = "queueOVERWRITE"
    /\ Becomes(x, SentFromISR(k, q[x], x, v, position))

ReceiveFromISR(x) ==
    /\ ~prvIsQueueEmpty(q[x])
    /\ Becomes(x, ReceivedFromISR(k, q[x], x))

=============================================================================
