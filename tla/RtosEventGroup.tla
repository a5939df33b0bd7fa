--------------------------- MODULE RtosEventGroup ---------------------------
(* Event groups (event_groups.c): tasks wait, unordered, for a combination   *)
(* of bits, and meet in xEventGroupSync.  A group is the set of its bits.     *)
EXTENDS RtosControl

VARIABLE g          \* uxEventBits of each group of the application

GroupInit == g = App[program].groups

prvTestWaitCondition(bits, wanted, all) ==
    IF all THEN wanted \subseteq bits ELSE wanted \cap bits # {}

\* The loop of xEventGroupSetBits: a task that is woken is told the bits of
\* that moment; those to clear are cleared after the last has been told.
Matches(k0, t, bits) == prvTestWaitCondition(bits, k0.bits[t].wanted, k0.bits[t].all)
TellIfMet(z, t) ==
    IF ~Matches(z.k, t, z.bits) THEN z
    ELSE [z EXCEPT !.k = vTaskRemoveFromUnorderedEventList(@, t, z.bits),
                   !.clear = IF z.k.bits[t].clear THEN @ \cup z.k.bits[t].wanted ELSE @]
Untold(k0, bits) == [k |-> k0, bits |-> bits, clear |-> {}]
BitsAfter(z) == [k |-> z.k, bits |-> z.bits \ z.clear]
SetBits_OneTask(k0, b, x, set) ==
    LET waiting == k0.events[WaitingBits(x)]
    IN  BitsAfter(IF waiting = <<>> THEN Untold(k0, b \cup set)
                  ELSE TellIfMet(Untold(k0, b \cup set), Head(waiting)))
SetBits(k0, b, x, set) ==
    BitsAfter(FoldLeft(TellIfMet, Untold(k0, b \cup set), k0.events[WaitingBits(x)]))

GroupOp == {"xEventGroupWaitBits", "xEventGroupSync"}

\* What the task waits for, as the control byte of its event item has it.
Wanted_Kept(c) == [wanted |-> c.v, all |-> TRUE, clear |-> FALSE, set |-> FALSE]
Wanted(c) == [wanted |-> c.v, all |-> c.op = "xEventGroupSync" \/ c.all,
              clear |-> c.op = "xEventGroupSync" \/ c.clear, set |-> FALSE]

----------------------------------------------------------------------------
\* The call inside vTaskSuspendAll; done: the kernel and the bits after the
\* task at a rendezvous has set its own, which may complete the meeting.
Entered(t, done, met) ==
    LET c == Now(t)
        waits == ~met /\ c.ticks # 0
    IN  /\ k' = IF waits
                THEN vTaskPlaceOnUnorderedEventList(done.k, WaitingBits(c.x), Wanted(c), c.ticks)
                ELSE done.k
        /\ g' = [g EXCEPT ![c.x] = IF met /\ Wanted(c).clear THEN done.bits \ c.v ELSE done.bits]
        /\ call' = [call EXCEPT ![t].at = "leave", ![t].path = IF waits THEN "blocked" ELSE "retry",
                                ![t].got = IF met THEN "met" ELSE "timeout"]
EnterGroup(t) ==
    LET c == Now(t)
        suspended == vTaskSuspendAll(k)
        bits == IF c.op = "xEventGroupSync" THEN g[c.x] \cup c.set ELSE g[c.x]
    IN  /\ \E op \in GroupOp : Calls(t, op)
        /\ Entered(t, IF c.op = "xEventGroupSync" THEN SetBits(suspended, g[c.x], c.x, c.set)
                      ELSE [k |-> suspended, bits |-> g[c.x]],
                   prvTestWaitCondition(bits, c.v, Wanted(c).all))
        /\ UNCHANGED h

LeaveGroup(t) ==
    /\ Runs(t, "leave")
    /\ k' = IF call[t].path = "blocked" THEN ResumeAndYield(k) ELSE xTaskResumeAll(k).k
    /\ call' = IF call[t].path = "blocked" THEN Goto(t, "told")
               ELSE Return(t, call[t].got = "met", call[t].got)
    /\ UNCHANGED <<g, h>>

\* uxTaskResetEventItemValue tells whether the bits woke the task.
ReadEventItem(t) ==
    /\ Runs(t, "told")
    /\ k' = [k EXCEPT !.bits[t] = NoBits, !.key[t] = configMAX_PRIORITIES - k.prio[t]]
    /\ call' = IF ~k.bits[t].set THEN Goto(t, "lateBits")
               ELSE IF prvTestWaitCondition(k.bits[t].wanted, Now(t).v, Wanted(Now(t)).all)
               THEN Return(t, TRUE, "met") ELSE Return(t, FALSE, "deleted")
    /\ UNCHANGED <<g, h>>

\* Timed out: the bits may be there by now.
LateForBits(t) ==
    LET c == Now(t)
        met == prvTestWaitCondition(g[c.x], c.v, Wanted(c).all)
    IN  /\ Runs(t, "lateBits")
        /\ g' = IF met /\ Wanted(c).clear THEN [g EXCEPT ![c.x] = @ \ c.v] ELSE g
        /\ call' = Return(t, met, IF met THEN "met" ELSE "timeout")
        /\ UNCHANGED <<k, h>>

BitsSet(t, done) ==
    /\ k' = done.k
    /\ g' = [g EXCEPT ![Now(t).x] = done.bits]
xEventGroupSetBits(t) ==
    /\ Calls(t, "xEventGroupSetBits")
    /\ BitsSet(t, SetBits(vTaskSuspendAll(k), g[Now(t).x], Now(t).x, Now(t).v))
    /\ call' = Goto(t, "setBits")
    /\ UNCHANGED h

xEventGroupClearBits(t) ==
    /\ Calls(t, "xEventGroupClearBits")
    /\ g' = [g EXCEPT ![Now(t).x] = @ \ Now(t).v]
    /\ call' = Return(t, TRUE, "none")
    /\ UNCHANGED <<k, h>>

\* Those who wait are told no bits.
TellNothing(k0, t) == vTaskRemoveFromUnorderedEventList(k0, t, {})
vEventGroupDelete(t) ==
    LET x == Now(t).x
    IN  /\ Calls(t, "vEventGroupDelete")
        /\ k' = FoldLeft(TellNothing, vTaskSuspendAll(k), k.events[WaitingBits(x)])
        /\ h' = vPortFree(h, Memory(x))
        /\ call' = Goto(t, "setBits")
        /\ UNCHANGED g

ResumeFromSet(t) ==
    /\ Runs(t, "setBits")
    /\ k' = xTaskResumeAll(k).k
    /\ call' = Return(t, TRUE, "none")
    /\ UNCHANGED <<g, h>>

GroupStep(t) ==
    \/ EnterGroup(t) \/ LeaveGroup(t) \/ ReadEventItem(t) \/ LateForBits(t)
    \/ xEventGroupSetBits(t) \/ xEventGroupClearBits(t) \/ vEventGroupDelete(t) \/ ResumeFromSet(t)

=============================================================================
