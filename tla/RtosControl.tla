---------------------------- MODULE RtosControl ----------------------------
(* The calls that delay, suspend, resume, delete and create tasks, change    *)
(* their priorities and notify them (tasks.c), and the memory of tasks.      *)
EXTENDS RtosCalls, RtosHeap

CONSTANTS
    StackUnits,     \* the size of a stack and of a TCB
    TcbUnits

VARIABLE h          \* the heap

ControlInit == h = App[program].heap

Stack(t) == <<t, "pxStack">>
Tcb(t) == <<t, "TCB">>
Memory(x) == <<x, "memory">>      \* of an event group, a timer, an argument

----------------------------------------------------------------------------
(* Delays: the task is put to sleep inside vTaskSuspendAll                  *)

SuspendForDelay(t) ==
    /\ Calls(t, "vTaskDelay") \/ Calls(t, "vTaskDelayUntil")
    /\ IF Now(t).op = "vTaskDelay" /\ Now(t).ticks = 0
       THEN /\ k' = portYIELD_WITHIN_API(k)
            /\ call' = Return(t, TRUE, "none")
       ELSE /\ k' = vTaskSuspendAll(configASSERT(k, k.susp = 0))
            /\ call' = Goto(t, "sleep")
    /\ UNCHANGED h

vTaskDelay(t) ==
    /\ Runs(t, "sleep") /\ Now(t).op = "vTaskDelay"
    /\ k' = prvAddCurrentTaskToDelayedList(k, Now(t).ticks, FALSE)
    /\ call' = Goto(t, "awake")
    /\ UNCHANGED h

\* The wake time has not passed: both it and the tick count may have wrapped.
ShouldDelay(last, wake, tick) ==
    IF tick < last THEN wake < last /\ wake > tick
                   ELSE wake < last \/ wake > tick

vTaskDelayUntil(t) ==
    LET last == call[t].last
        wake == (last + Now(t).ticks) % Ticks
    IN  /\ Runs(t, "sleep") /\ Now(t).op = "vTaskDelayUntil"
        /\ k' = IF ShouldDelay(last, wake, k.tick)
                THEN prvAddCurrentTaskToDelayedList(k, (wake - k.tick) % Ticks, FALSE) ELSE k
        /\ call' = [call EXCEPT ![t].last = wake, ![t].at = "awake"]
        /\ UNCHANGED h

ResumeFromDelay(t) ==
    /\ Runs(t, "awake")
    /\ k' = ResumeAndYield(k)
    /\ call' = Goto(t, "slept")
    /\ UNCHANGED h

EndDelay(t) ==
    /\ Runs(t, "slept")
    /\ call' = Return(t, TRUE, "none")
    /\ UNCHANGED <<k, h>>

----------------------------------------------------------------------------
(* Control                                                                  *)

Suspend(t) ==
    /\ Calls(t, "vTaskSuspend")
    /\ k' = vTaskSuspend(k, Now(t).x)
    /\ call' = Goto(t, "resetUnblock")
    /\ UNCHANGED h

\* The second critical section; a task that suspends itself then yields.
ResetUnblockTime(t) ==
    /\ Runs(t, "resetUnblock")
    /\ k' = YieldIf(prvResetNextTaskUnblockTime(configASSERT(k, Now(t).x = t => k.susp = 0)), Now(t).x = t)
    /\ call' = Return(t, TRUE, "none")
    /\ UNCHANGED h

Resume(t) ==
    /\ Calls(t, "vTaskResume")
    /\ k' = vTaskResume(k, Now(t).x)
    /\ call' = Return(t, TRUE, "none")
    /\ UNCHANGED h

SetPriority(t) ==
    /\ Calls(t, "vTaskPrioritySet")
    /\ k' = vTaskPrioritySet(k, Now(t).x, Now(t).v)
    /\ call' = Return(t, TRUE, "none")
    /\ UNCHANGED h

\* prvDeleteTCB frees the memory of another task at once; a task that deletes
\* itself yields for good.  Where a deleted task was in its call says nothing
\* any more.
Delete(t) ==
    /\ Calls(t, "vTaskDelete")
    /\ LET x == Now(t).x
       IN  /\ k' = IF x = t THEN portYIELD_WITHIN_API(configASSERT(vTaskDelete(k, t), k.susp = 0))
                   ELSE vTaskDelete(k, x)
           /\ h' = IF x = t THEN h ELSE vPortFree(vPortFree(h, Stack(x)), Tcb(x))
           /\ call' = Return(t, TRUE, "none")

\* xTaskCreate: the memory, each time inside vTaskSuspendAll, then the task.
AllocateStack(t) ==
    /\ Calls(t, "xTaskCreate")
    /\ k' = vTaskSuspendAll(k)
    /\ h' = pvPortMalloc(h, StackUnits, Stack(Now(t).x))
    /\ call' = Goto(t, "stack")
AllocateTcb(t) ==
    /\ Runs(t, "stack2")
    /\ k' = vTaskSuspendAll(k)
    /\ h' = pvPortMalloc(h, TcbUnits, Tcb(Now(t).x))
    /\ call' = Goto(t, "tcb")
FreeStack(t) ==
    /\ Runs(t, "noTcb")
    /\ k' = vTaskSuspendAll(k)
    /\ h' = vPortFree(h, Stack(Now(t).x))
    /\ call' = Goto(t, "noMemory")
ResumeFromCreate(t) ==
    LET x == Now(t).x
    IN  /\ \E at \in {"stack", "tcb", "noMemory"} : Runs(t, at)
        /\ k' = xTaskResumeAll(k).k
        /\ call' = CASE call[t].at = "stack" /\ Allocated(h, Stack(x)) -> Goto(t, "stack2")
                     [] call[t].at = "tcb" /\ Allocated(h, Tcb(x))     -> Goto(t, "add")
                     [] call[t].at = "tcb" /\ ~Allocated(h, Tcb(x))    -> Goto(t, "noTcb")
                     [] OTHER -> Return(t, FALSE, "noMemory")
        /\ UNCHANGED h
\* The new task starts at the first of its calls (pxPortInitialiseStack).
AddTask(t) ==
    LET c == Now(t)
    IN  /\ Runs(t, "add")
        /\ k' = YieldIf(prvAddNewTaskToReadyList(k, c.x, c.v), k.prio[k.cur] < c.v)
        /\ call' = [Return(t, TRUE, "pdPASS") EXCEPT ![c.x] = Fresh]
        /\ UNCHANGED h

----------------------------------------------------------------------------
(* Memory of the application                                                *)

Malloc(t) ==
    /\ Calls(t, "pvPortMalloc")
    /\ k' = vTaskSuspendAll(k)
    /\ h' = pvPortMalloc(h, Now(t).v, Memory(Now(t).x))
    /\ call' = Goto(t, "malloced")
Free(t) ==
    /\ Calls(t, "vPortFree")
    /\ k' = vTaskSuspendAll(k)
    /\ h' = vPortFree(h, Memory(Now(t).x))
    /\ call' = Goto(t, "malloced")
ResumeFromHeap(t) ==
    /\ Runs(t, "malloced")
    /\ k' = xTaskResumeAll(k).k
    /\ call' = Return(t, Allocated(h, Memory(Now(t).x)) \/ Now(t).op = "vPortFree", "none")
    /\ UNCHANGED h

----------------------------------------------------------------------------
(* Notifications: the critical section that waits, and the one after it     *)

Notify(t) ==
    /\ Calls(t, "xTaskGenericNotify")
    /\ k' = xTaskGenericNotify(k, Now(t).x, Now(t).v, Now(t).action)
    /\ call' = Return(t, TRUE, "none")
    /\ UNCHANGED h

AwaitNotification(t) ==
    /\ Calls(t, "ulTaskNotifyTake") \/ Calls(t, "xTaskNotifyWait")
    /\ k' = IF Now(t).op = "ulTaskNotifyTake" THEN ulTaskNotifyTake(k, Now(t).ticks)
            ELSE xTaskNotifyWait(k, Now(t).ticks)
    /\ call' = Goto(t, "notified")
    /\ UNCHANGED h

TakeNotification(t) ==
    LET taken == IF Now(t).op = "ulTaskNotifyTake" THEN k.value[t] # 0
                 ELSE k.note[t] = "RECEIVED"
    IN  /\ Runs(t, "notified")
        /\ k' = IF Now(t).op = "ulTaskNotifyTake" THEN NotifyTaken(k, Now(t).v)
                ELSE NotifyWaited(k)
        /\ call' = Return(t, taken, IF taken THEN "pdPASS" ELSE "timeout")
        /\ UNCHANGED h

----------------------------------------------------------------------------
(* The idle task                                                            *)

CleanUp ==
    /\ Runs(Idle, "call")
    /\ k.dying # <<>>
    /\ k' = prvCheckTasksWaitingTermination(k)
    /\ call' = [call EXCEPT ![Idle].at = "freeStack", ![Idle].got = Head(k.dying)]
    /\ UNCHANGED h

\* prvDeleteTCB: the stack, then the TCB.
FreeDead ==
    LET x == call[Idle].got
        stack == call[Idle].at = "freeStack"
    IN  /\ Runs(Idle, "freeStack") \/ Runs(Idle, "freeTcb")
        /\ k' = vTaskSuspendAll(k)
        /\ h' = vPortFree(h, IF stack THEN Stack(x) ELSE Tcb(x))
        /\ call' = Goto(Idle, IF stack THEN "freedStack" ELSE "freedTcb")
ResumeFromFree ==
    LET stack == call[Idle].at = "freedStack"
    IN  /\ Runs(Idle, "freedStack") \/ Runs(Idle, "freedTcb")
        /\ k' = xTaskResumeAll(k).k
        /\ call' = IF stack THEN Goto(Idle, "freeTcb")
                   ELSE [call EXCEPT ![Idle] = Fresh]
        /\ UNCHANGED h

IdleYield ==
    /\ Runs(Idle, "call")
    /\ k.dying = <<>>
    /\ k' = YieldIf(k, Len(k.ready[0].items) > 1)
    /\ UNCHANGED <<call, h>>

ControlStep(t) ==
    \/ SuspendForDelay(t) \/ vTaskDelay(t) \/ vTaskDelayUntil(t) \/ ResumeFromDelay(t) \/ EndDelay(t)
    \/ Suspend(t) \/ ResetUnblockTime(t) \/ Resume(t) \/ SetPriority(t) \/ Delete(t)
    \/ AllocateStack(t) \/ AllocateTcb(t) \/ FreeStack(t) \/ ResumeFromCreate(t) \/ AddTask(t)
    \/ Malloc(t) \/ Free(t) \/ ResumeFromHeap(t)
    \/ Notify(t) \/ AwaitNotification(t) \/ TakeNotification(t)
IdleStep == CleanUp \/ FreeDead \/ ResumeFromFree \/ IdleYield

----------------------------------------------------------------------------
(* Calls of interrupt handlers                                              *)

ResumeFromISR(x) ==
    LET done == xTaskResumeFromISR(k, x)
    IN  k' = YieldIf(done.k, done.yield) /\ UNCHANGED h
NotifyFromISR(x, v, action) ==
    k' = xTaskGenericNotifyFromISR(k, x, v, action) /\ UNCHANGED h

=============================================================================
