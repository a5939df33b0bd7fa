------------------------------- MODULE MCRtos -------------------------------
(* Applications of the kernel, for TLC: one for each group of its services,  *)
(* one instance of the kernel running whichever Init chooses.                *)
EXTENDS RtosProperties

CONSTANTS A, B, C, Daemon

----------------------------------------------------------------------------
(* Calls                                                                    *)

Send(x, v, ticks) == [op |-> "xQueueGenericSend", x |-> x, v |-> v, ticks |-> ticks,
                      position |-> "queueSEND_TO_BACK"]
SendFront(x, v, ticks) == [Send(x, v, ticks) EXCEPT !.position = "queueSEND_TO_FRONT"]
Replace(x, v) == [Send(x, v, 0) EXCEPT !.position = "queueOVERWRITE"]
On(op, x, ticks) == [op |-> op, x |-> x, ticks |-> ticks]
With(op, x, v) == [op |-> op, x |-> x, v |-> v, ticks |-> 0]
Receive(x, ticks) == On("xQueueReceive", x, ticks)
Take(x, ticks) == On("xQueueSemaphoreTake", x, ticks)
Give(x) == Send(x, 0, 0)
Gone(t) == On("vTaskDelete", t, 0)
Delay(n) == On("vTaskDelay", "none", n)
Until(n) == On("vTaskDelayUntil", "none", n)
Wait(x, bits, all, clear, ticks) ==
    [op |-> "xEventGroupWaitBits", x |-> x, v |-> bits, all |-> all, clear |-> clear, ticks |-> ticks]
Sync(x, set, bits, ticks) ==
    [op |-> "xEventGroupSync", x |-> x, set |-> set, v |-> bits, ticks |-> ticks]
SetBit(x, bits) == With("xEventGroupSetBits", x, bits)
Tell(t, v, action) == [op |-> "xTaskGenericNotify", x |-> t, v |-> v, action |-> action, ticks |-> 0]
Command(id, x, value, ticks) ==
    [op |-> "xTimerGenericCommand", x |-> TimerQueue, v |-> id, timer |-> x,
     position |-> "queueSEND_TO_BACK", ticks |-> ticks] @@
    (IF value > 0 THEN [period |-> value] ELSE <<>>)

Created(t, p) == [task |-> t, prio |-> p]

----------------------------------------------------------------------------
(* Applications                                                             *)

None == [x \in {} |-> 0]
Base == [queues |-> None, groups |-> None, heap |-> prvHeapInit(4), units |-> 4,
         ends |-> {}, loops |-> {}, meet |-> {},
         stream |-> prvInitialiseNewStreamBuffer(2, 1, FALSE),
         timers |-> prvInitialiseNewTimers(None, {}), handlers |-> {}, interrupts |-> 2]

\* One slot between tasks and interrupts.
QueueApp == [Base EXCEPT !.interrupts = 3, !.ends = {A, B, C},
    !.queues = "q" :> prvInitialiseNewQueue("queue", 1, 0),
    !.handlers = {[op |-> "xQueueGenericSendFromISR", x |-> "q", v |-> 1, position |-> "queueSEND_TO_BACK"]}] @@
    [tasks |-> <<Created(A, 2), Created(B, 1), Created(C, 1)>>,
     script |-> (A :> <<Delay(5), On("xQueuePeek", "q", 2), Receive("q", 2), Gone(A)>>) @@
                (B :> <<Delay(5), Receive("q", 2), SendFront("q", 2, 2), Gone(B)>>) @@
                (C :> <<Delay(6), Send("q", 3, 1), Replace("q", 4), Gone(C)>>)]

\* A queue that fills, is emptied by receivers and by xQueueReset.
FullApp == [Base EXCEPT !.interrupts = 3, !.ends = {A, B, C},
    !.queues = "q" :> prvInitialiseNewQueue("queue", 2, 0),
    !.handlers = {[op |-> "xQueueReceiveFromISR", x |-> "q"]}] @@
    [tasks |-> <<Created(A, 2), Created(B, 1), Created(C, 1)>>,
     script |-> (A :> <<Send("q", 1, 2), Send("q", 2, 2), SendFront("q", 3, 2), Send("q", 4, 3), Gone(A)>>) @@
                (B :> <<Receive("q", 0), Receive("q", 2), Receive("q", 2), Gone(B)>>) @@
                (C :> <<Delay(1), On("xQueueReset", "q", 0), Gone(C)>>)]

\* A mutex that its holder keeps while it sleeps.
MutexApp == [Base EXCEPT !.interrupts = 3, !.ends = {A, B, C},
    !.queues = "m" :> prvInitialiseMutex(0)] @@
    [tasks |-> <<Created(A, 3), Created(B, 2), Created(C, 1)>>,
     script |-> (A :> <<Delay(1), Take("m", 2) @@ [fail |-> 4], Give("m"), Gone(A)>>) @@
                (B :> <<Delay(1), Take("m", portMAX_DELAY), Give("m"), Gone(B)>>) @@
                (C :> <<Take("m", portMAX_DELAY), Delay(3), Give("m"), Gone(C)>>)]

RecursiveApp == [Base EXCEPT !.interrupts = 4, !.ends = {A, B},
    !.queues = "m" :> prvInitialiseMutex(0)] @@
    [tasks |-> <<Created(A, 2), Created(B, 1)>>,
     script |-> (A :> <<Delay(1), On("xQueueTakeMutexRecursive", "m", 2), On("xQueueGiveMutexRecursive", "m", 0), Gone(A)>>) @@
                (B :> <<On("xQueueTakeMutexRecursive", "m", 2), On("xQueueTakeMutexRecursive", "m", 2), Delay(2),
                        On("xQueueGiveMutexRecursive", "m", 0), On("xQueueGiveMutexRecursive", "m", 0), Gone(B)>>)]

EventsApp == [Base EXCEPT !.interrupts = 4, !.ends = {A, B, C}, !.groups = "g" :> {}] @@
    [tasks |-> <<Created(A, 3), Created(B, 2), Created(C, 1)>>,
     script |-> (A :> <<Wait("g", {1, 2}, TRUE, TRUE, 3), Wait("g", {3}, TRUE, FALSE, portMAX_DELAY), Gone(A)>>) @@
                (B :> <<Wait("g", {1, 3}, FALSE, FALSE, 1), Sync("g", {2}, {2, 3}, 2), Gone(B)>>) @@
                (C :> <<SetBit("g", {1}), Delay(1), SetBit("g", {2}), With("xEventGroupClearBits", "g", {1, 2}),
                        On("vEventGroupDelete", "g", 0), Gone(C)>>)]

\* Three tasks meet twice.
Meeting(t, i) ==
    <<Sync("g", {i}, {1, 2, 3}, portMAX_DELAY), Sync("g", {i}, {1, 2, 3}, portMAX_DELAY), Delay(2) @@ [next |-> 3]>>
SyncApp == [Base EXCEPT !.interrupts = 2, !.meet = {A, B, C}, !.loops = {A, B, C}, !.groups = "g" :> {}] @@
    [tasks |-> <<Created(A, 2), Created(B, 1), Created(C, 1)>>,
     script |-> (A :> Meeting(A, 1)) @@ (B :> Meeting(B, 2)) @@ (C :> Meeting(C, 3))]

\* A waits for the mutex that C holds, in vain, while B is about to take it.
TimeoutApp == [Base EXCEPT !.interrupts = 4,
    !.queues = "m" :> prvInitialiseMutex(0)] @@
    [tasks |-> <<Created(A, 2), Created(B, 3), Created(C, 1)>>,
     script |-> (A :> <<Delay(1), Take("m", 1) @@ [fail |-> 4], Give("m"), Gone(A)>>) @@
                (B :> <<Delay(4), Take("m", portMAX_DELAY), Delay(1), Give("m"), Gone(B)>>) @@
                (C :> <<Take("m", portMAX_DELAY), Give("m"), Gone(C)>>)]

StreamApp == [Base EXCEPT !.interrupts = 4, !.ends = {A, B},
    !.stream = prvInitialiseNewStreamBuffer(4, 2, FALSE)] @@
    [tasks |-> <<Created(A, 2), Created(B, 1)>>,
     script |-> (A :> <<With("xStreamBufferSend", "s", 2), [With("xStreamBufferSend", "s", 2) EXCEPT !.ticks = 2],
                        [With("xStreamBufferSend", "s", 2) EXCEPT !.ticks = 2], Gone(A)>>) @@
                (B :> <<[With("xStreamBufferReceive", "s", 3) EXCEPT !.ticks = 2],
                        [With("xStreamBufferReceive", "s", 3) EXCEPT !.ticks = 2], Gone(B)>>)]
InterruptStreamApp == [Base EXCEPT !.interrupts = 4, !.ends = {A},
    !.stream = prvInitialiseNewStreamBuffer(3, 1, FALSE),
    !.handlers = {[op |-> "xStreamBufferSendFromISR", v |-> 1]}] @@
    [tasks |-> <<Created(A, 2)>>,
     script |-> (A :> <<[With("xStreamBufferReceive", "s", 2) EXCEPT !.ticks = 2],
                        With("xStreamBufferReset", "s", 0),
                        [With("xStreamBufferReceive", "s", 2) EXCEPT !.ticks = 2], Gone(A)>>)]
MessageApp == [Base EXCEPT !.interrupts = 3, !.ends = {A},
    !.stream = prvInitialiseNewStreamBuffer(5, 1, TRUE),
    !.handlers = {[op |-> "xStreamBufferReceiveFromISR", v |-> 2]}] @@
    [tasks |-> <<Created(A, 2)>>,
     script |-> (A :> <<[With("xStreamBufferSend", "s", 1) EXCEPT !.ticks = 2],
                        [With("xStreamBufferSend", "s", 2) EXCEPT !.ticks = 2],
                        [With("xStreamBufferSend", "s", 2) EXCEPT !.ticks = 2], Gone(A)>>)]

\* A task reads messages of handlers, or of a more urgent task.
Letter(size) == [op |-> "xStreamBufferSendFromISR", v |-> size]
LetterApp == [Base EXCEPT !.interrupts = 3, !.ends = {A},
    !.stream = prvInitialiseNewStreamBuffer(5, 1, TRUE), !.handlers = {Letter(1), Letter(2)}] @@
    [tasks |-> <<Created(A, 2)>>,
     script |-> (A :> <<[With("xStreamBufferReceive", "s", 2) EXCEPT !.ticks = 2],
                        [With("xStreamBufferReceive", "s", 3) EXCEPT !.ticks = 2], Gone(A)>>)]
ReportApp == [Base EXCEPT !.interrupts = 2, !.ends = {A, B},
    !.stream = prvInitialiseNewStreamBuffer(5, 1, TRUE)] @@
    [tasks |-> <<Created(A, 2), Created(B, 1)>>,
     script |-> (A :> <<With("xStreamBufferSend", "s", 1), Delay(1), [With("xStreamBufferSend", "s", 2) EXCEPT !.ticks = 2],
                        [With("xStreamBufferSend", "s", 2) EXCEPT !.ticks = 2], Gone(A)>>) @@
                (B :> <<With("xStreamBufferReceive", "s", 2), [With("xStreamBufferReceive", "s", 2) EXCEPT !.ticks = 2],
                        [With("xStreamBufferReceive", "s", 2) EXCEPT !.ticks = 2], Gone(B)>>)]
\* The task has not room for every message.
ShortApp == [LetterApp EXCEPT
    !.script = A :> <<[With("xStreamBufferReceive", "s", 1) EXCEPT !.ticks = 2],
                      [With("xStreamBufferReceive", "s", 2) EXCEPT !.ticks = 2], Gone(A)>>]

ControlApp == [Base EXCEPT !.interrupts = 3, !.ends = {B, C},
    !.handlers = {[op |-> "xTaskResumeFromISR", x |-> A],
                  [op |-> "xTaskGenericNotifyFromISR", x |-> B, v |-> 1, action |-> "eIncrement"]}] @@
    [tasks |-> <<Created(A, 3), Created(B, 2), Created(C, 1)>>,
     script |-> (A :> <<Until(2), On("vTaskSuspend", A, 0), Tell(B, 2, "eSetBits"),
                        With("vTaskPrioritySet", A, 0), Gone(A)>>) @@
                (B :> <<With("ulTaskNotifyTake", "none", FALSE), [With("ulTaskNotifyTake", "none", TRUE) EXCEPT !.ticks = 2],
                        On("xTaskNotifyWait", "none", 2), Gone(B)>>) @@
                (C :> <<On("vTaskSuspend", B, 0), Delay(1), On("vTaskResume", B, 0), On("vTaskResume", A, 0),
                        With("vTaskPrioritySet", A, 1), Gone(C)>>)]

NotifyApp == [Base EXCEPT !.interrupts = 4, !.ends = {A, B},
    !.handlers = {[op |-> "xTaskGenericNotifyFromISR", x |-> A, v |-> 2, action |-> "eSetBits"]}] @@
    [tasks |-> <<Created(A, 2), Created(B, 1)>>,
     script |-> (A :> <<On("xTaskNotifyWait", "none", 2), [With("ulTaskNotifyTake", "none", FALSE) EXCEPT !.ticks = 2],
                        [With("ulTaskNotifyTake", "none", TRUE) EXCEPT !.ticks = 1], Gone(A)>>) @@
                (B :> <<Tell(A, 3, "eSetValueWithOverwrite"), Tell(A, 1, "eSetValueWithoutOverwrite"), Delay(1),
                        Tell(A, 0, "eNoAction"), Tell(A, 0, "eIncrement"), Gone(B)>>)]

\* Tasks made and deleted while the idle task frees memory.
CreateApp == [Base EXCEPT !.heap = prvHeapInit(14), !.units = 14, !.interrupts = 4, !.ends = {A, C}] @@
    [tasks |-> <<Created(A, 2)>>,
     script |-> (A :> <<With("pvPortMalloc", "p", 3), With("xTaskCreate", B, 0),
                        With("xTaskCreate", C, 3), On("vPortFree", "p", 0), With("xTaskCreate", C, 3),
                        Delay(1), On("vTaskDelete", B, 0), Gone(A)>>) @@
                (B :> <<Delay(0), Delay(1)>>) @@
                (C :> <<Gone(C)>>)]

CommandQueue == TimerQueue :> prvInitialiseNewQueue("queue", 6, [id |-> "none", timer |-> "none", value |-> 0])
\* The daemon is kept from its work while the tick count wraps.
TimerApp == [Base EXCEPT !.ends = {A}, !.queues = CommandQueue,
    !.timers = prvInitialiseNewTimers([x \in {"t", "u"} |-> IF x = "t" THEN 3 ELSE 5], {"t"})] @@
    [tasks |-> <<Created(A, 3), Created(Daemon, 2)>>,
     script |-> (A :> <<Command("tmrCOMMAND_START", "t", 0, 1), Command("tmrCOMMAND_START", "u", 0, 1), Delay(6),
                        Command("tmrCOMMAND_CHANGE_PERIOD", "u", 2, 1), Command("tmrCOMMAND_RESET", "u", 0, 1),
                        Delay(3), Command("tmrCOMMAND_STOP", "u", 0, 1), Command("tmrCOMMAND_DELETE", "t", 0, 1), Gone(A)>>) @@
                (Daemon :> DaemonLoop)]
CommandApp == [Base EXCEPT !.interrupts = 1, !.ends = {A}, !.queues = CommandQueue,
    !.timers = prvInitialiseNewTimers([x \in {"u"} |-> 3], {}),
    !.handlers = {[op |-> "xTimerGenericCommand", x |-> "u", v |-> "tmrCOMMAND_START"]}] @@
    [tasks |-> <<Created(A, 3), Created(Daemon, 2)>>,
     script |-> (A :> <<Command("tmrCOMMAND_START", "u", 0, 1), Delay(2), Command("tmrCOMMAND_RESET", "u", 0, 1), Gone(A)>>) @@
                (Daemon :> DaemonLoop)]

\* The demo: main leaves each task the argument that it frees.
Blink(t, arg, period) == <<On("vPortFree", arg, 0), Delay(period) @@ [next |-> 2]>>
Owned(name, at, size) == [name |-> name, at |-> at, size |-> size]
BlinkHeap ==
    [free |-> <<[at |-> 14, size |-> 6]>>, remaining |-> 6,
     used |-> {Owned(Memory("blue"), 0, 2), Owned(Memory("orange"), 2, 2), Owned(Stack(A), 4, 3),
               Owned(Tcb(A), 7, 2), Owned(Stack(B), 9, 3), Owned(Tcb(B), 12, 2)}]
BlinkApp == [Base EXCEPT !.heap = BlinkHeap, !.units = 20, !.interrupts = 4, !.loops = {A, B}] @@
    [tasks |-> <<Created(A, 3), Created(B, 3)>>,
     script |-> (A :> Blink(A, "blue", 6)) @@ (B :> Blink(B, "orange", 3))]

Applications ==
    [queue |-> QueueApp, full |-> FullApp, mutex |-> MutexApp, timeout |-> TimeoutApp, recursive |-> RecursiveApp,
     events |-> EventsApp, sync |-> SyncApp, stream |-> StreamApp, interrupt |-> InterruptStreamApp,
     message |-> MessageApp, letter |-> LetterApp, report |-> ReportApp, short |-> ShortApp,
     control |-> ControlApp, notify |-> NotifyApp, create |-> CreateApp, timer |-> TimerApp, command |-> CommandApp,
     blink |-> BlinkApp]

MCApp ==
    LET all == Applications
    IN  [p \in DOMAIN all |-> [all[p] EXCEPT !.script = @ @@ [t \in Task |-> Idling]]]

=============================================================================
