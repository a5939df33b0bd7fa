-------------------------------- MODULE Rtos --------------------------------
(* The kernel at work: tasks that call it, interrupts that call it, the      *)
(* tick and the context switch (port.c).                                    *)
EXTENDS RtosEventGroup, RtosTimers, RtosStream

VARIABLE irqs       \* interrupts so far, but for the ticks of a quiet system

vars == <<k, call, program, q, h, g, s, tm, irqs>>

Init ==
    /\ CallInit /\ QueueInit /\ ControlInit /\ GroupInit /\ StreamInit /\ TimerInit
    /\ irqs = 0

----------------------------------------------------------------------------
(* Interrupts: at most App[program].interrupts of them come while there is  *)
(* anything to do.                                                          *)

\* Nothing but the idle task has anything to do.
Quiet ==
    /\ Runs(Idle, "call")
    /\ k.top = {0} /\ Len(k.ready[0].items) = 1
    /\ k.dying = <<>>

May == ~k.halted /\ irqs < App[program].interrupts

\* xTaskResumeAll is next.  While the scheduler is suspended a tick is only
\* counted: it makes no difference at which of its points.
Resuming == {"resume", "awake", "stack", "tcb", "noMemory", "malloced", "freedStack", "freedTcb",
             "leave", "setBits", "streamDone", "sampled"}

\* The time of a call, or of a delay, has begun and not ended.
Timed(t) == call[t].at \notin {"call", "command", "receiveWait"} /\ 0 < Now(t).ticks /\ Now(t).ticks < portMAX_DELAY
Age(t) == IF ~Timed(t) THEN 0 ELSE IF call[t].age < Ticks THEN call[t].age + 1 ELSE Ticks

\* SysTick (its handler masks all interrupts that call the kernel).  PendSV
\* has the same priority and the lower number: it is served first.
xPortSysTickHandler ==
    LET r == xTaskIncrementTick(k)
    IN  /\ ~k.pendsv
        /\ k.susp > 0 => call[k.cur].at \in Resuming
        /\ Quiet \/ May
        /\ k' = YieldIf(r.k, r.switch)
        /\ call' = [t \in Task |-> [call[t] EXCEPT !.age = Age(t)]]
        /\ irqs' = IF Quiet THEN irqs ELSE irqs + 1
        /\ tm' = Aged
        /\ UNCHANGED <<program, q, h, g, s>>

xPortPendSVHandler ==
    /\ k.pendsv /\ ~k.halted
    /\ k' = vTaskSwitchContext([k EXCEPT !.pendsv = FALSE])
    /\ UNCHANGED <<call, program, q, h, g, s, tm, irqs>>

\* What the handlers of devices call, at any time.
Handler(c) ==
    \/ c.op = "xQueueGenericSendFromISR" /\ SendFromISR(c.x, c.v, c.position) /\ UNCHANGED <<h, s>>
    \/ c.op = "xQueueReceiveFromISR" /\ ReceiveFromISR(c.x) /\ UNCHANGED <<h, s>>
    \/ /\ c.op = "xTimerGenericCommand"
       /\ SendFromISR(TimerQueue, [id |-> c.v, timer |-> c.x, value |-> k.tick], "queueSEND_TO_BACK")
       /\ UNCHANGED <<h, s>>
    \/ c.op = "xTaskResumeFromISR" /\ ResumeFromISR(c.x) /\ UNCHANGED <<q, s>>
    \/ c.op = "xTaskGenericNotifyFromISR" /\ NotifyFromISR(c.x, c.v, c.action) /\ UNCHANGED <<q, s>>
    \/ c.op = "xStreamBufferSendFromISR" /\ StreamSendFromISR(c.v) /\ UNCHANGED <<q, h>>
    \/ c.op = "xStreamBufferReceiveFromISR" /\ StreamReceiveFromISR(c.v) /\ UNCHANGED <<q, h>>

Interrupt ==
    /\ May
    /\ \E c \in App[program].handlers : Handler(c)
    /\ irqs' = irqs + 1
    /\ UNCHANGED <<call, program, g, tm>>

----------------------------------------------------------------------------
QueueCall   == (\E t \in Task : QueueStep(t)) /\ UNCHANGED <<program, irqs, h, g, s, tm>>
ControlCall == (\E t \in Task : ControlStep(t)) /\ UNCHANGED <<program, irqs, q, g, s, tm>>
GroupCall   == (\E t \in Task : GroupStep(t)) /\ UNCHANGED <<program, irqs, q, s, tm>>
StreamCall  == (\E t \in Task : StreamStep(t)) /\ UNCHANGED <<program, irqs, q, h, g, tm>>
TimerCall   == (\E t \in Task : TimerStep(t)) /\ UNCHANGED <<program, irqs, g, s>>
IdleLoop    == IdleStep /\ UNCHANGED <<program, irqs, q, g, s, tm>>

Next ==
    \/ xPortSysTickHandler \/ xPortPendSVHandler \/ Interrupt
    \/ QueueCall \/ ControlCall \/ GroupCall \/ StreamCall \/ TimerCall \/ IdleLoop

\* The processor goes on: there is always an instruction or a tick to come.
\* (Some step of Next can be taken in every state, so this is WF_vars(Next),
\* written without ENABLED.)
Fairness == []<><<TRUE>>_vars

Spec == Init /\ [][Next]_vars /\ Fairness

=============================================================================
