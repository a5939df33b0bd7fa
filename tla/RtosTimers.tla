----------------------------- MODULE RtosTimers -----------------------------
(***************************************************************************)
(* Software timers (timers.c): the daemon task that owns them, and the      *)
(* commands other tasks and interrupts send to its queue.  tm has           *)
(*   current, overflow  pxCurrentTimerList, pxOverflowTimerList             *)
(*   expiry, period     of each timer, its list item's value and its period *)
(*   auto, active       the bits of ucStatus                                *)
(*   last               xLastTime                                           *)
(*   message            the command being processed                         *)
(*   age                history: ticks since the timer last expired, or was *)
(*                      started, by its own schedule                        *)
(***************************************************************************)
EXTENDS RtosQueueCalls, RtosControl

VARIABLE tm

TimerInit == tm = App[program].timers

TimerQueue == "xTimerQueue"

\* The script of the daemon, and a timer nobody has started yet.
DaemonLoop == <<[op |-> "prvTimerTask", x |-> TimerQueue, ticks |-> 0]>>
prvInitialiseNewTimers(periods, autoReload) ==
    [current |-> <<>>, overflow |-> <<>>, last |-> 0,
     expiry |-> [x \in DOMAIN periods |-> 0], period |-> periods,
     auto |-> [x \in DOMAIN periods |-> x \in autoReload],
     active |-> [x \in DOMAIN periods |-> FALSE], age |-> [x \in DOMAIN periods |-> 0],
     message |-> [id |-> "none", timer |-> "none", value |-> 0]]

Since(now, from) == (now - from) % Ticks

\* The callback; its time by the timer's schedule was a period after the last.
pxCallbackFunction(m, x) == [m EXCEPT !.age[x] = @ - m.period[x]]

RemoveTimer(m, x) == [m EXCEPT !.current = RemoveFirst(@, x), !.overflow = RemoveFirst(@, x)]

\* What the daemon works on: the kernel, the data of its queue, its timers.
Daemons == [k |-> k, b |-> q[TimerQueue], tm |-> tm]
WithQueue(z, done) == [z EXCEPT !.k = done.k, !.b = done.b]

\* A command the daemon sends itself must find room.
SendToSelf(z, id, x, value) ==
    IF prvIsQueueFull(z.b) THEN [z EXCEPT !.k.halted = TRUE]
    ELSE WithQueue(z, Sent(z.k, z.b, TimerQueue,
                           [id |-> id, timer |-> x, value |-> value], "queueSEND_TO_BACK"))

----------------------------------------------------------------------------
(* The lists                                                                *)

\* late is xProcessTimerNow: the timer has expired since the command.
prvInsertTimerInActiveList(m, x, expiry, now, command) ==
    LET set == [m EXCEPT !.expiry[x] = expiry]
        late == IF expiry <= now THEN Since(now, command) >= m.period[x]
                ELSE now < command /\ expiry >= command
    IN  [late |-> late,
         m |-> IF late THEN set
               ELSE IF expiry <= now
               THEN [set EXCEPT !.overflow = vListInsert(@, x, set.expiry)]
               ELSE [set EXCEPT !.current = vListInsert(@, x, set.expiry)]]

\* Every timer left in the current list expires, as often as it would have
\* before the tick count wrapped.
Reload(z, x, at) ==
    LET reload == (at + z.tm.period[x]) % Ticks
        expiry == [z.tm.expiry EXCEPT ![x] = reload]
    IN  IF ~z.tm.auto[x] THEN z
        ELSE IF reload > at
        THEN [z EXCEPT !.tm.expiry = expiry, !.tm.current = vListInsert(@, x, expiry)]
        ELSE SendToSelf(z, "tmrCOMMAND_START_DONT_TRACE", x, at)
ExpireHead(z, x) ==
    Reload([z EXCEPT !.tm = pxCallbackFunction(RemoveTimer(@, x), x)], x, z.tm.expiry[x])
SwapLists(z) == [z EXCEPT !.tm.current = z.tm.overflow, !.tm.overflow = <<>>]
prvSwitchTimerLists_Drop(z) == SwapLists(z)
Expire(z, i) == IF z.tm.current = <<>> THEN z ELSE ExpireHead(z, Head(z.tm.current))
prvSwitchTimerLists(z) ==
    SwapLists(FoldLeft(Expire, z, [i \in 1 .. Ticks * Cardinality(DOMAIN z.tm.period) |-> i]))

Switched(z) == z.k.tick < z.tm.last
prvSampleTimeNow(z) ==
    [(IF Switched(z) THEN prvSwitchTimerLists(z) ELSE z) EXCEPT !.tm.last = z.k.tick]

----------------------------------------------------------------------------
(* The daemon                                                               *)

Adopt(z) == k' = z.k /\ q' = [q EXCEPT ![TimerQueue] = z.b] /\ tm' = z.tm

\* prvProcessTimerOrBlockTask up to xTaskResumeAll; to block it locks the
\* queue and waits for a message or for the first timer.
ExpireOrBlock(t) ==
    LET empty == tm.current = <<>>
        expiry == IF empty THEN 0 ELSE tm.expiry[Head(tm.current)]
        before == [Daemons EXCEPT !.k = vTaskSuspendAll(@)]
        forever == empty /\ tm.overflow = <<>>
        expired == ~empty /\ expiry <= k.tick
        blocks == ~Switched(before) /\ ~expired
    IN  /\ Calls(t, "prvTimerTask")
        /\ \/ /\ blocks
              /\ k' = IF prvIsQueueEmpty(q[TimerQueue])
                      THEN vTaskPlaceOnEventListRestricted(before.k, Receiving(TimerQueue),
                               Since(expiry, k.tick), forever)
                      ELSE before.k
              /\ q' = [q EXCEPT ![TimerQueue] = prvLockQueue(@)]
              /\ tm' = [tm EXCEPT !.last = k.tick]
              /\ call' = [call EXCEPT ![t].at = "unlockTx", ![t].path = "blocked"]
           \/ /\ ~blocks
              /\ Adopt(prvSampleTimeNow(before))
              /\ call' = [call EXCEPT ![t].at = "sampled", ![t].size = k.tick,
                                      ![t].path = IF Switched(before) THEN "switched" ELSE "expired"]
        /\ UNCHANGED h

ResumeDaemon(t) ==
    /\ Runs(t, "sampled")
    /\ k' = xTaskResumeAll(k).k
    /\ call' = Goto(t, IF call[t].path = "expired" THEN "expire" ELSE "again")
    /\ UNCHANGED <<q, tm, h>>

\* xTimeNow was read before xTaskResumeAll.
prvProcessExpiredTimer(t) ==
    LET x == Head(tm.current)
        at == tm.expiry[x]
        out == RemoveTimer(tm, x)
        set == prvInsertTimerInActiveList(out, x, (at + tm.period[x]) % Ticks, call[t].size, at)
        z == [Daemons EXCEPT !.tm = set.m]
        queued == IF set.late THEN SendToSelf(z, "tmrCOMMAND_START_DONT_TRACE", x, at) ELSE z
        reloaded == IF tm.auto[x] THEN queued ELSE [z EXCEPT !.tm = [out EXCEPT !.active[x] = FALSE]]
    IN  /\ Runs(t, "expire")
        /\ Adopt([reloaded EXCEPT !.tm = pxCallbackFunction(@, x)])
        /\ call' = [call EXCEPT ![t].at = "again", ![t].size = 0]
        /\ UNCHANGED h

\* prvProcessReceivedCommands: xQueueReceive without waiting.
Fetch(done) ==
    /\ k' = done.k
    /\ q' = [q EXCEPT ![TimerQueue] = done.b]
    /\ tm' = [tm EXCEPT !.message = First(q[TimerQueue])]
ReceiveCommand(t) ==
    /\ Runs(t, "again") /\ Now(t).op = "prvTimerTask"
    /\ \/ /\ prvIsQueueEmpty(q[TimerQueue])
          /\ call' = [call EXCEPT ![t] = Fresh]
          /\ UNCHANGED <<k, q, tm>>
       \/ /\ ~prvIsQueueEmpty(q[TimerQueue])
          /\ Fetch(Received(k, q[TimerQueue], TimerQueue))
          /\ call' = Goto(t, "command received")
    /\ UNCHANGED h

Start == {"tmrCOMMAND_START", "tmrCOMMAND_RESET", "tmrCOMMAND_START_DONT_TRACE"}

\* The timer may have expired since the command was sent.
Late(z, x, value) ==
    IF ~z.tm.auto[x] THEN z
    ELSE SendToSelf(z, "tmrCOMMAND_START_DONT_TRACE", x, (value + z.tm.period[x]) % Ticks)
Started(z, x, value, set) ==
    LET aged == [set.m EXCEPT !.age[x] = Since(z.k.tick, value)]
    IN  IF set.late THEN Late([z EXCEPT !.tm = pxCallbackFunction(aged, x)], x, value)
        ELSE [z EXCEPT !.tm = aged]
PeriodChanged(z, x, value) ==
    LET m == [z.tm EXCEPT !.active[x] = TRUE, !.period[x] = value, !.age[x] = 0]
    IN  [z EXCEPT !.k = configASSERT(@, value > 0),
                  !.tm = prvInsertTimerInActiveList(m, x, (z.k.tick + value) % Ticks,
                                                    z.k.tick, z.k.tick).m]

\* z: the command has found its timer in no list, the time has been sampled.
Execute(z, c) ==
    LET x == c.timer
    IN  \/ /\ c.id \in Start
           /\ Adopt(Started(z, x, c.value,
                            prvInsertTimerInActiveList([z.tm EXCEPT !.active[x] = TRUE], x,
                                (c.value + z.tm.period[x]) % Ticks, z.k.tick, c.value)))
        \/ c.id = "tmrCOMMAND_CHANGE_PERIOD" /\ Adopt(PeriodChanged(z, x, c.value))
        \/ c.id \in {"tmrCOMMAND_STOP", "tmrCOMMAND_DELETE"} /\ Adopt([z EXCEPT !.tm.active[x] = FALSE])
ProcessCommand(t) ==
    /\ Runs(t, "command received")
    /\ Execute(prvSampleTimeNow([Daemons EXCEPT !.tm = RemoveTimer(@, tm.message.timer)]), tm.message)
    /\ h' = IF tm.message.id = "tmrCOMMAND_DELETE" THEN vPortFree(h, Memory(tm.message.timer)) ELSE h
    /\ call' = Goto(t, "again")

TimerStep(t) ==
    \/ ExpireOrBlock(t) \/ ResumeDaemon(t) \/ prvProcessExpiredTimer(t)
    \/ ReceiveCommand(t) \/ ProcessCommand(t)

\* What a tick adds to the histories.
Aged == [tm EXCEPT !.age = [x \in DOMAIN @ |->
            IF tm.active[x] /\ @[x] < 2 * Ticks THEN @[x] + 1 ELSE @[x]]]

=============================================================================
