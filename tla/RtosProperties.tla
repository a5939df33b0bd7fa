--------------------------- MODULE RtosProperties ---------------------------
(* What the kernel keeps true whatever the tasks and the interrupts do.      *)
EXTENDS Rtos

CONSTANT Item       \* what the queue "q" carries

Unique(l) == \A i, j \in DOMAIN l : l[i] = l[j] => i = j
Sorted(l, value) == \A i, j \in DOMAIN l : i < j => value[l[i]] <= value[l[j]]

\* The lists that hold the state item of a task.
Elsewhere == {"delayed", "overflow", "suspended", "dying"}
StateLists == {k.ready[p].items : p \in Prio} \cup {k.delayed, k.overflow, k.suspended, k.dying}
Ready(t) == InReady(k, t, k.prio[t])
MostUrgent == Max({p \in Prio : k.ready[p].items # <<>>})
Exists(t) == \E l \in StateLists : Contains(l, t)
Waiting(t) == \E l \in EventList \ {Pending} : Contains(k.events[l], t)

\* A name stands for one TCB: a task that is about to become ready for the
\* first time is in no list (prvInitialiseNewTask works on fresh memory).
NewTasks ==
    \A t \in Task : Runs(t, "add") =>
        /\ \A p \in Prio : ~InReady(k, Now(t).x, p)
        /\ \A l \in Elsewhere : ~Contains(k[l], Now(t).x)

\* The places in a call where the scheduler is suspended.
Inside == Resuming \cup {"lock", "look", "unlockTx", "unlockRx", "sleep"}

\* The scheduler is suspended by the running task alone, once, from
\* vTaskSuspendAll to the xTaskResumeAll of the same call, whatever that task
\* meets there; and once it is resumed no tick is left uncounted.
SuspendedByCaller ==
    /\ k.susp \in {0, 1}
    /\ \A t \in Task : call[t].at \in Inside <=> t = k.cur /\ k.susp = 1
    /\ k.susp = 0 => k.pended = 0

\* No queue, semaphore or mutex holds more than it has room for, a mutex that is
\* held is not there to take, and what interrupts did while a queue was locked
\* is counted (in int8_t, queue.c:115) no more often than there were interrupts.
CountsOK ==
    \A x \in DOMAIN q :
        /\ q[x].n \in 0 .. q[x].length
        /\ q[x].holder # NULL => q[x].n = 0
        /\ {q[x].rx, q[x].tx} \subseteq queueUNLOCKED .. irqs

\* The variables have the shapes their comments give.  There is always a task
\* to run: the idle task never leaves its ready list.
TypeOK ==
    /\ NewTasks
    /\ k.cur \in Task /\ InReady(k, Idle, 0)
    /\ k.prio \in [Task -> Prio] /\ k.base \in [Task -> Prio]
    /\ k.tick \in 0 .. Ticks - 1 /\ k.next \in 0 .. Ticks - 1
    /\ \A p \in Prio : k.ready[p].pxIndex \in 0 .. Len(k.ready[p].items)
    /\ SuspendedByCaller /\ k.pended \in Nat
    /\ CountsOK /\ irqs <= App[program].interrupts
    /\ s.head \in DOMAIN s.buf /\ s.tail \in DOMAIN s.buf
    /\ \A x \in DOMAIN tm.age : tm.age[x] \in Int

\* No configASSERT of the kernel fails (each would stop the system for good):
\* the bookkeeping of tasks.c, of mutexes and of stream buffers agrees with
\* itself in every interleaving of the calls these applications make.
NoHalt == ~k.halted

\* The tick looks at the head of the list only (xTaskIncrementTick): the
\* sleeping tasks are in the order of their wake times, before or after the
\* wrap of the tick count, and xNextTaskUnblockTime is never too late.
SleepersInOrder ==
    /\ Sorted(k.delayed, k.wake) /\ Sorted(k.overflow, k.wake)
    /\ \A t \in ToSet(k.delayed) : k.tick < k.wake[t] /\ k.next <= k.wake[t]
    /\ \A t \in ToSet(k.overflow) : k.wake[t] < k.tick

\* A task is in one place (tasks.c moves xStateListItem from list to list),
\* whatever moves it, a tick, a call or an interrupt, and whatever is done with
\* its priority meanwhile: in the ready list of its own priority, asleep,
\* suspended or dying, and there once; those that sleep are found by the tick
\* in their time, and uxTopReadyPriority overlooks none that is ready (it may
\* know too many, tasks.c:3907).
OnePlace(z) ==
    /\ \A p \in Prio : Unique(z.ready[p].items)
    /\ \A l \in Elsewhere : Unique(z[l])
    /\ \A t \in Task : \A p \in Prio :
          InReady(z, t, p) => z.prio[t] = p /\ \A l \in Elsewhere : ~Contains(z[l], t)
    /\ \A t \in Task : \A l, m \in Elsewhere : Contains(z[l], t) /\ Contains(z[m], t) => l = m
Known(z) == z.top \subseteq Prio /\ \A p \in Prio : \A t \in Task : InReady(z, t, p) => p \in z.top
ListsAgree == OnePlace(k) /\ SleepersInOrder /\ Known(k)

\* It waits for one event at most, and never while it is ready.
EventsAgree ==
    /\ \A t \in Task :
          /\ Cardinality({l \in EventList : Contains(k.events[l], t)}) <= 1
          /\ Ready(t) => \A l \in EventList : ~Contains(k.events[l], t)
    /\ \A l \in EventList \ {Pending} : Unique(k.events[l])

\* The most urgent ready task runs (vTaskSwitchContext): whenever no switch is
\* pending and the scheduler is not suspended, the running task is of the
\* highest priority there is, unless it is leaving the processor by
\* vTaskSuspend.
RunsMostUrgent ==
    /\ k.top = {p \in Prio : k.ready[p].items # <<>>}
    /\ k.susp = 0 /\ ~k.pendsv /\ call[k.cur].at # "resetUnblock" => InReady(k, k.cur, MostUrgent)

\* A timeout or a delay that ends while other tasks run, or while the
\* scheduler is suspended, is not forgotten: whenever only the idle task runs
\* nobody sleeps past the time it gave.  (A sender to a stream buffer computes
\* the rest of its time before it blocks and may wait longer.)
WakesOnTime ==
    Quiet => \A t \in Task : Exists(t) /\ Timed(t) /\ Now(t).op # "xStreamBufferSend" /\ ~Contains(k.suspended, t)
                              => call[t].age < Now(t).ticks

\* Nobody gives up early: a call for a queue, a semaphore, a mutex or a command
\* reports a timeout only after as many ticks as it was given, and never when
\* it was to wait for ever, however often it was woken for nothing meanwhile
\* and whatever the tick count and the overflow count made of it.
TimesOut(t) == call[t].at # "call" /\ call'[t].at = "call" /\ call'[t].got = "timeout"
WaitedLong(t) == Now(t).ticks # portMAX_DELAY /\ call[t].age >= Now(t).ticks
QueuesNotEarly ==
    [][\A t \in Task : TimesOut(t) /\ Now(t).op \in QueueOp /\ Now(t).ticks > 0 => WaitedLong(t)]_vars

\* So it is with the waits for bits, for a stream buffer and for a
\* notification, and with delays; a vTaskDelayUntil ends at a time of its
\* period and not before, though both that time and the tick count wrap.  A
\* wait for a notification that vTaskSuspend has cut short is the exception.
Wakes(t) == k.cur = t /\ call[t].at = "slept" /\ call'[t].at # "slept"
CutShort(t) == call[t].at = "notified" /\ k.note[t] # "WAITING"
NotEarly ==
    \A t \in Task :
        /\ TimesOut(t) /\ Now(t).op \notin QueueOp /\ Now(t).ticks > 0 /\ ~CutShort(t) => WaitedLong(t)
        /\ Wakes(t) /\ Now(t).op = "vTaskDelay" => WaitedLong(t)
        /\ Wakes(t) /\ Now(t).op = "vTaskDelayUntil"
           => (k.tick - call[t].last) % Ticks < Ticks \div 2

\* No step leaves a task asleep past its time, and none wakes one early.
OnTime == [][WakesOnTime' /\ NotEarly]_vars

\* The calls under way that take from x, or add to it, other than the blocked.
Claims(x, op, l) == {t \in Task : /\ Exists(t) /\ call[t].at # "call"
                                  /\ Now(t).op \in op /\ Now(t).x = x /\ ~Contains(k.events[l], t)}

\* No wakeup is lost (the gap between the look of a call and its block is
\* what cRxLock and cTxLock are for): while tasks wait to receive from a queue
\* there are no more items in it than receivers on their way to take them;
\* while tasks wait to send, no more room than senders on their way.
NoLostWakeup ==
    /\ EventsAgree
    /\ \A x \in DOMAIN q :
          /\ q[x].tx = queueUNLOCKED /\ k.events[Receiving(x)] # <<>>
             => q[x].n <= Cardinality(Claims(x, ReceiveOp \cup {"prvTimerTask"}, Receiving(x)))
          /\ q[x].rx = queueUNLOCKED /\ k.events[Sending(x)] # <<>>
             => q[x].length - q[x].n <= Cardinality(Claims(x, SendOp, Sending(x)))

\* The queue in the ring of queue.c, with sends to both ends, overwriting and
\* resetting by tasks and interrupts, is the queue that queue.h promises.
Ring == INSTANCE MessageQueue WITH
    items <- IF "q" \in DOMAIN q THEN Contents(q["q"]) ELSE <<>>,
    room  <- IF "q" \in DOMAIN q THEN q["q"].length ELSE 0
RingImplementsQueue == Ring!Spec

\* The mutexes of an application.
Mutexes(p) == {x \in DOMAIN App[p].queues : App[p].queues[x].type = "mutex"}

\* What the kernel demands of its users.  A call names a task, a group or a
\* queue there is (configASSERT of the pointer), a priority there is
\* (tasks.c:1417) and a time of a TickType_t; nobody has a handle of the idle
\* task (FreeRTOSConfig.h includes no call that returns it).  Items are sent
\* to a position, and only a queue of one is overwritten (queue.c:735 and 911);
\* "q" gets items of its kind and is no mutex.  Nobody resets a mutex or uses
\* it in an interrupt (queue.c:1045, semphr.h:691), and only a mutex is taken
\* by recursive calls.  The queue of the daemon, static in timers.c (139), gets
\* commands for timers there are, and no period is 0 (timers.c:355 and 776);
\* timers.c creates one daemon.  Scripts have no holes, and their jumps stay
\* inside.  main creates every task once.
TaskOp == {"vTaskSuspend", "vTaskResume", "vTaskPrioritySet", "vTaskDelete", "xTaskCreate",
           "xTaskGenericNotify", "xTaskResumeFromISR", "xTaskGenericNotifyFromISR"}
OtherQueueOp == {"xQueueGiveMutexRecursive", "xQueueReset", "xQueueGenericSendFromISR", "xQueueReceiveFromISR"}
TimedOp == QueueOp \cup GroupOp \cup {"vTaskDelay", "vTaskDelayUntil", "ulTaskNotifyTake", "xTaskNotifyWait",
                                      "xStreamBufferSend", "xStreamBufferReceive"}
Position == {"queueSEND_TO_BACK", "queueSEND_TO_FRONT", "queueOVERWRITE"}
Period == 1 .. Ticks - 1
HasQueue(p, x) == x \in Object /\ x \in DOMAIN App[p].queues
Overwritten(b) == b.type = "queue" /\ b.length = 1
LegalCommand(p, c) ==
    /\ c.x = TimerQueue /\ c.position = "queueSEND_TO_BACK"
    /\ c.timer \in DOMAIN App[p].timers.period
    /\ "period" \in DOMAIN c => c.period \in Period
    /\ c.v = "tmrCOMMAND_CHANGE_PERIOD" => "period" \in DOMAIN c
LegalCall(p, c) ==
    /\ c.op \in TaskOp => c.x \in Task \ {Idle}
    /\ c.op \in TimedOp => c.ticks \in 0 .. Ticks - 1
    /\ c.op \in {"vTaskPrioritySet", "xTaskCreate"} => c.v \in Prio
    /\ c.op \in GroupOp \cup {"xEventGroupSetBits", "vEventGroupDelete"} => c.x \in Object
    /\ c.op \in QueueOp \cup OtherQueueOp => HasQueue(p, c.x)
    /\ c.op \in (QueueOp \cup OtherQueueOp) \ {"xTimerGenericCommand"} => c.x # TimerQueue
    /\ c.op = "prvTimerTask" => c.x = TimerQueue /\ HasQueue(p, TimerQueue)
    /\ c.op = "xTimerGenericCommand" => LegalCommand(p, c)
    /\ c.op \in SendOp \cup {"xQueueGenericSendFromISR"} =>
          /\ c.position \in Position
          /\ c.position = "queueOVERWRITE" => Overwritten(App[p].queues[c.x])
    /\ c.op \in {"xQueueGenericSend", "xQueueGenericSendFromISR"} /\ c.x = "q" => c.v \in Item
    /\ c.op = "pvPortMalloc" => c.v \in Nat
    /\ c.op \in {"xQueueTakeMutexRecursive", "xQueueGiveMutexRecursive"} => c.x \in Mutexes(p) \ {"q"}
    /\ c.op \in {"xQueueReset", "xQueueGenericSendFromISR", "xQueueReceiveFromISR"} => c.x \notin Mutexes(p)
NewQueue(b) == b.length \in Nat \ {0} /\ b = prvInitialiseNewQueue("queue", b.length, b.buf[0])
LegalQueue(b) == NewQueue(b) /\ b.buf[0] \in Item
LegalMutex(b) == b = prvInitialiseMutex(b.buf[0])
QueueFields == {"type", "length", "n", "rx", "tx", "buf", "w", "r", "holder", "rec"}
Unused(b) ==
    /\ DOMAIN b = QueueFields /\ b.holder = NULL /\ b.rx = queueUNLOCKED /\ b.tx = queueUNLOCKED
    /\ b.length \in Nat \ {0} /\ b.n \in 0 .. b.length
LegalTimers(m) ==
    /\ IsFiniteSet(DOMAIN m.period) /\ m.period \in [DOMAIN m.period -> Period]
    /\ m = prvInitialiseNewTimers(m.period, {x \in DOMAIN m.period : m.auto[x]})
LegalTasks(created) ==
    /\ created \in Seq([task : Task \ {Idle}, prio : Prio])
    /\ \A i, j \in DOMAIN created : created[i].task = created[j].task => i = j
LegalScript(p, script) ==
    /\ Len(script) \in Nat \ {0} /\ DOMAIN script = 1 .. Len(script)
    /\ \A i \in DOMAIN script :
          /\ LegalCall(p, script[i])
          /\ "fail" \in DOMAIN script[i] => script[i].fail \in DOMAIN script
          /\ "next" \in DOMAIN script[i] => script[i].next \in DOMAIN script
LegalHandler(p, c) ==
    IF c.op # "xTimerGenericCommand" THEN LegalCall(p, c)
    ELSE /\ HasQueue(p, TimerQueue) /\ c.x \in DOMAIN App[p].timers.period
         /\ c.v # "tmrCOMMAND_CHANGE_PERIOD"
Users(p, op) == {t \in Task : \E i \in DOMAIN App[p].script[t] : App[p].script[t][i].op = op}
ASSUME AppAssumption ==
    \A p \in Program :
        /\ "q" \in DOMAIN App[p].queues => LegalQueue(App[p].queues["q"])
        /\ TimerQueue \in DOMAIN App[p].queues => NewQueue(App[p].queues[TimerQueue])
        /\ \A x \in Mutexes(p) : LegalMutex(App[p].queues[x])
        /\ \A x \in DOMAIN App[p].queues : Unused(App[p].queues[x])
        /\ \A t \in Task : LegalScript(p, App[p].script[t])
        /\ App[p].script[Idle] = Idling
        /\ \A t, u \in Users(p, "prvTimerTask") : t = u
        /\ \A c \in App[p].handlers : LegalHandler(p, c)
        /\ LegalTasks(App[p].tasks) /\ App[p].interrupts \in Nat
        /\ {"toSend", "toReceive"} \subseteq DOMAIN App[p].stream
        /\ App[p].stream.toSend = NULL /\ App[p].stream.toReceive = NULL
        /\ LegalTimers(App[p].timers)

\* A mutex, taken and given by recursive calls too, is a lock: one holder,
\* which alone lets it go.
MutexLock == INSTANCE AbstractLock WITH
    Ctx <- Task, Locks <- Object, Nobody <- NULL,
    holder <- [x \in Object |-> IF x \in Mutexes(program) THEN q[x].holder ELSE NULL]
LetGoByHolder ==
    \A x \in Mutexes(program) :
        q[x].holder # NULL /\ q'[x].holder # q[x].holder => k.cur = q[x].holder
MutexIsLock == MutexLock!Spec /\ [][LetGoByHolder]_vars

\* Priority inheritance: the holder of a mutex is as urgent as every task
\* that waits for it, more urgent than itself only while some call for the
\* mutex of that priority has not ended, and back at its own priority once it
\* holds nothing.
InheritsFrom(m, x) ==
    /\ k.held[m] = 1
    /\ \A t \in ToSet(k.events[Receiving(x)]) : k.prio[t] <= k.prio[m]
    /\ k.prio[m] # k.base[m] =>
          \E t \in Task \ {m} : Exists(t) /\ Now(t).op \in TakeOp /\ call[t].at # "call" /\ k.prio[t] = k.prio[m]
Inheritance ==
    /\ \A x \in DOMAIN q : q[x].type = "mutex" /\ q[x].holder # NULL => InheritsFrom(q[x].holder, x)
    /\ \A t \in Task : k.held[t] = 0 => k.prio[t] = k.base[t]

\* xEventGroupSync is a rendezvous: nobody is past a meeting that somebody has
\* not come to.
Rendezvous ==
    \A t, u \in App[program].meet :
        call[t].n - 1 <= call[u].n - (IF call[u].at = "call" THEN 1 ELSE 0)

\* What a stream buffer demands of its users: one writer and one reader, each
\* a task or handlers (stream_buffer.h:34).  The critical section of
\* xStreamBufferReset does not keep it from coming into a call that has read
\* xHead or xTail and has not stored it yet: nobody resets the buffer while
\* another task may be reading or writing.  A task that may have been deleted
\* between the length of a message and its data is not created again.
Handled(p, op) == \E c \in App[p].handlers : c.op = op
OneUser(tasks, handled) == (\A t, u \in tasks : t = u) /\ (tasks # {} => ~handled)
Creates(p, x) == \E t \in Task : \E i \in DOMAIN App[p].script[t] :
                    App[p].script[t][i].op = "xTaskCreate" /\ App[p].script[t][i].x = x
LegalStream(p) ==
    LET b == App[p].stream
        writers == Users(p, "xStreamBufferSend")
        readers == Users(p, "xStreamBufferReceive")
    IN  /\ b.length \in Nat \ {0} /\ b.message \in BOOLEAN
        /\ b = prvInitialiseNewStreamBuffer(b.length, b.trigger, b.message)
        /\ OneUser(writers, Handled(p, "xStreamBufferSendFromISR"))
        /\ OneUser(readers, Handled(p, "xStreamBufferReceiveFromISR"))
        /\ \A t \in Users(p, "xStreamBufferReset") : writers \cup readers \subseteq {t}
        /\ b.message => \A t \in writers \cup readers : ~Creates(p, t)
StreamOp == {"xStreamBufferSend", "xStreamBufferReceive"}
StreamOpFromISR == {"xStreamBufferSendFromISR", "xStreamBufferReceiveFromISR"}
ASSUME StreamAssumption ==
    \A p \in Program :
        /\ LegalStream(p)
        /\ \A t \in Task : \A i \in DOMAIN App[p].script[t] :
              App[p].script[t][i].op \in StreamOp => App[p].script[t][i].v \in Nat
        /\ \A c \in App[p].handlers : c.op \in StreamOpFromISR => c.v \in Nat

\* What the tasks and the handlers write, and room for the longest message
\* wherever a task reads one.
Written(p) ==
    {c \in UNION {ToSet(App[p].script[t]) : t \in Task} : c.op = "xStreamBufferSend"}
    \cup {c \in App[p].handlers : c.op = "xStreamBufferSendFromISR"}
Sizes(p) == {c.v : c \in Written(p)}
RoomForMessages(p) ==
    App[p].stream.message =>
        \A t \in Task : \A i \in DOMAIN App[p].script[t] :
            App[p].script[t][i].op = "xStreamBufferReceive" =>
                \A size \in Sizes(p) : size <= App[p].script[t][i].v

\* A reader gets the bytes of a stream, and those of messages, in the order
\* they were written, each once, whatever the ring's position and wherever the
\* writer is between the length and the data of a message, or the reader.
BytesRead(count) == Peek(IF \E t \in Task : Runs(t, "readData") THEN s ELSE AfterLength(s), count)
ReadInOrder ==
    s'.out > s.out /\ s'.in = s.in /\ ~Calls(k.cur, "xStreamBufferReset")
    => BytesRead(s'.out - s.out) = [i \in 1 .. s'.out - s.out |-> s.out + i]
StreamInOrder == [][RoomForMessages(program) => ReadInOrder]_vars

\* A message that is too long for its reader stays as it was: "The user has
\* provided insufficient space to read the message so return the buffer to its
\* previous state" (stream_buffer.c:835).
LongMessageStays == [][ReadInOrder]_vars

\* A notification wakes its task, wherever it meets it (the scheduler may be
\* suspended, another task may be about to sleep): when only the idle task
\* runs nobody waits in ulTaskNotifyTake beside a count.
NotificationSeen ==
    Quiet => \A t \in Task : call[t].at = "notified" /\ Now(t).op = "ulTaskNotifyTake"
                             /\ k.note[t] = "WAITING" => k.value[t] = 0

\* xEventGroupSetBits wakes every task whose bits are there, even those that
\* wait behind one that clears the bits: nobody who waits has its bits.
GroupWaitersUnmet ==
    \A x \in DOMAIN g : \A t \in ToSet(k.events[WaitingBits(x)]) : ~Matches(k, t, g[x])

\* When only the idle task runs, a reader that waits has less than the trigger
\* level to read and a writer that waits has not the room it needs.
StreamNotStuck ==
    Quiet => /\ s.toReceive # NULL => prvBytesInBuffer(s) < s.trigger
             /\ s.toSend # NULL =>
                    xStreamBufferSpacesAvailable(s) < Now(s.toSend).v + LengthBytes

\* Nobody sleeps beside what it waits for, be it a notification, bits of an
\* event group or bytes of a stream, though it came while the task looked,
\* or while the scheduler was suspended.
NobodyWaitsInVain == NotificationSeen /\ GroupWaitersUnmet /\ StreamNotStuck

\* Software timers expire in time and not early, across the wrap of the tick
\* count: when only the idle task runs no timer that is listed is overdue and
\* no periodic one that is active is unlisted; and no callback is ever called
\* before a whole period is over.
Listed(x) == Contains(tm.current, x) \/ Contains(tm.overflow, x)
TimersOnTime ==
    \A x \in DOMAIN tm.period :
        /\ tm.age[x] >= 0
        /\ Quiet => /\ tm.active[x] /\ tm.auto[x] => Listed(x)
                    /\ Listed(x) => tm.age[x] < tm.period[x]

\* heap_4.c never loses or shares a byte: the blocks, free and allocated, tile
\* the heap, free neighbours are joined, and the count of free bytes is right.
Units(b) == b.at .. BlockEnd(b) - 1
Blocks == h.used \cup {[name |-> <<NULL, "free">>, at |-> f.at, size |-> f.size] : f \in ToSet(h.free)}
HeapPartition ==
    /\ UNION {Units(b) : b \in Blocks} = 0 .. App[program].units - 1
    /\ \A b, c \in Blocks : b # c => Units(b) \cap Units(c) = {}
    /\ \A i \in 1 .. Len(h.free) - 1 : BlockEnd(h.free[i]) < h.free[i + 1].at
    /\ h.remaining = Cardinality(UNION {Units(f) : f \in ToSet(h.free)})

\* The same of any heap z, said block by block; main leaves such a heap to an
\* application, and what it allocates are numbers of units.
Covered(blocks) == UNION {Units(b) : b \in blocks}
InOrderApart(free) == \A i, j \in DOMAIN free : i < j => BlockEnd(free[i]) < free[j].at
HeapOK(z, units) ==
    /\ z.free \in Seq([at : Nat, size : Nat \ {0}])
    /\ InOrderApart(z.free)
    /\ \A b \in z.used : b.at \in Nat /\ b.size \in Nat \ {0}
    /\ \A b, c \in z.used : b # c => Units(b) \cap Units(c) = {}
    /\ Covered(ToSet(z.free)) \cap Covered(z.used) = {}
    /\ Covered(ToSet(z.free)) \cup Covered(z.used) = 0 .. units - 1
    /\ z.remaining = Cardinality(Covered(ToSet(z.free)))
ASSUME HeapAssumption ==
    /\ StackUnits \in Nat /\ TcbUnits \in Nat
    /\ \A p \in Program : App[p].units \in Nat /\ HeapOK(App[p].heap, App[p].units)

\* Every task whose calls can all end comes to its end, its memory given back,
\* and every task that loops goes round again and again: nobody starves,
\* nobody stays blocked.
Succeeds(t) ==
    /\ t \in App[program].ends => ~Exists(t)
    /\ t \in App[program].loops => call[t].at = "slept"
EveryTaskProceeds == \A t \in Task : []<>Succeeds(t)

=============================================================================
