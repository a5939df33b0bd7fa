------------------------------ MODULE RtosProofs ------------------------------
(* The kernel, in every application of it, whatever its tasks, priorities,   *)
(* scripts and interrupts, in two parts:                                     *)
(*   queue.c: the ring of the queue "q" implements MessageQueue, for all     *)
(*   lengths and items, and the mutexes exclude;                             *)
(*   the data: the arithmetic of time in tasks.c and timers.c, the free list *)
(*   of heap_4.c, the ring of stream_buffer.c, its writers and its readers,  *)
(*   the lists of list.c.                                                    *)
(* RtosListProofs has a third, the lists of tasks.c.                         *)
EXTENDS RtosProperties, FiniteSetTheorems, SequenceTheorems, WellFoundedInduction, TLAPS
----------------------------------------------------------------------------
(* Where the tasks are in their scripts                                     *)

InScript ==
    /\ DOMAIN call = Task
    /\ \A t \in Task : "n" \in DOMAIN call[t] /\ call[t].n \in DOMAIN App[program].script[t]

\* Every call stays where it is, starts over or goes on by NextCall.
CallMoves ==
    /\ DOMAIN call' = Task
    /\ \A t \in Task :
          /\ "n" \in DOMAIN call'[t]
          /\ \/ call'[t].n = call[t].n
             \/ call'[t].n = 1
             \/ \E ok \in BOOLEAN : call'[t].n = NextCall(t, ok)

LEMMA GotoMoves ==
    ASSUME InScript, NEW t \in Task, NEW at, call' = Goto(t, at)
    PROVE  CallMoves
  BY DEF InScript, CallMoves, Goto

LEMMA ReturnMoves ==
    ASSUME InScript, NEW t \in Task, NEW ok \in BOOLEAN, NEW got, call' = Return(t, ok, got)
    PROVE  CallMoves
  BY DEF InScript, CallMoves, Return, Fresh

LEMMA FreshMoves ==
    ASSUME InScript, NEW t \in Task, call' = [call EXCEPT ![t] = Fresh]
    PROVE  CallMoves
  BY DEF InScript, CallMoves, Fresh

LEMMA LocalMoves ==
    ASSUME InScript, NEW t \in Task, NEW at, NEW size, call' = Local(t, at, size)
    PROVE  CallMoves
  BY DEF InScript, CallMoves, Local

LEMMA QueueCallsMove ==
    ASSUME InScript, NEW t \in Task, QueueStep(t)
    PROVE  CallMoves
<1>1. CASE TakeAgain(t)
  BY <1>1, ReturnMoves DEF TakeAgain
<1>2. CASE ReadCommandTime(t)
  BY <1>2 DEF ReadCommandTime, InScript, CallMoves
<1>3. CASE TryQueue(t)
  <2>1. \/ call' = Return(t, TRUE, "pdPASS")
        \/ call' = Return(t, FALSE, "timeout")
        \/ \E left, since : call' = [call EXCEPT ![t].at = "suspend", ![t].left = left,
                                                ![t].since = since]
    BY <1>3 DEF TryQueue
  <2>2. CASE \E left, since : call' = [call EXCEPT ![t].at = "suspend", ![t].left = left,
                                                  ![t].since = since]
    BY <2>2 DEF InScript, CallMoves
  <2> QED
    BY <2>1, <2>2, ReturnMoves
<1>4. CASE SuspendForQueue(t) \/ LockQueue(t) \/ UnlockTx(t) \/ UnlockRx(t)
  BY <1>4, GotoMoves DEF SuspendForQueue, LockQueue, UnlockTx, UnlockRx
<1>5. CASE BlockOnQueue(t)
  <2> DEFINE check == xTaskCheckForTimeOut(k, call[t].since, call[t].left)
             mutex == Now(t).op \in TakeOp /\ q[X(t)].type = "mutex"
             inherits == Inherits(k, IF mutex THEN q[X(t)].holder ELSE NULL)
             Take(path) ==
                 call' = [call EXCEPT ![t].at = "unlockTx", ![t].left = check.left,
                                      ![t].since = check.since, ![t].path = path,
                                      ![t].inherited = IF path = "blocked" /\ mutex
                                                       THEN inherits ELSE @]
  <2>1. Take("blocked") \/ Take("retry") \/ Take("late")
    BY <1>5 DEF BlockOnQueue
  <2> HIDE DEF check, mutex, inherits
  <2>2. ASSUME NEW path, Take(path) PROVE CallMoves
    BY <2>2 DEF InScript, CallMoves
  <2> QED
    BY <2>1, <2>2
<1>6. CASE ResumeFromQueue(t)
  BY <1>6, GotoMoves, ReturnMoves DEF ResumeFromQueue
<1>7. CASE LateForQueue(t)
  BY <1>7, GotoMoves, ReturnMoves DEF LateForQueue
<1>8. CASE DisinheritLate(t) \/ xQueueGiveMutexRecursive(t) \/ ResetQueue(t)
  BY <1>8, ReturnMoves DEF DisinheritLate, xQueueGiveMutexRecursive, ResetQueue
<1> QED
  BY <1>1, <1>2, <1>3, <1>4, <1>5, <1>6, <1>7, <1>8 DEF QueueStep

LEMMA ControlCallsMove ==
    ASSUME InScript, NEW t \in Task, ControlStep(t)
    PROVE  CallMoves
<1>1. CASE SuspendForDelay(t)
  BY <1>1, GotoMoves, ReturnMoves DEF SuspendForDelay
<1>2. CASE vTaskDelay(t) \/ ResumeFromDelay(t) \/ Suspend(t) \/ AllocateStack(t) \/ AllocateTcb(t)
           \/ FreeStack(t) \/ Malloc(t) \/ Free(t) \/ AwaitNotification(t)
  BY <1>2, GotoMoves
     DEF vTaskDelay, ResumeFromDelay, Suspend, AllocateStack, AllocateTcb, FreeStack, Malloc, Free,
         AwaitNotification
<1>3. CASE vTaskDelayUntil(t)
  BY <1>3 DEF vTaskDelayUntil, InScript, CallMoves
<1>4. CASE EndDelay(t) \/ ResetUnblockTime(t) \/ Resume(t) \/ SetPriority(t) \/ Delete(t) \/ Notify(t)
  BY <1>4, ReturnMoves DEF EndDelay, ResetUnblockTime, Resume, SetPriority, Delete, Notify
<1>5. CASE AddTask(t)
  BY <1>5 DEF AddTask, Return, Fresh, InScript, CallMoves
<1>6. CASE ResumeFromCreate(t)
  BY <1>6, GotoMoves, ReturnMoves DEF ResumeFromCreate
<1>7. CASE ResumeFromHeap(t) \/ TakeNotification(t)
  <2>1. PICK ok \in BOOLEAN : \E got : call' = Return(t, ok, got)
    BY <1>7 DEF ResumeFromHeap, TakeNotification
  <2> QED
    BY <2>1, ReturnMoves
<1> QED
  BY <1>1, <1>2, <1>3, <1>4, <1>5, <1>6, <1>7 DEF ControlStep

LEMMA GroupCallsMove ==
    ASSUME InScript, NEW t \in Task, GroupStep(t)
    PROVE  CallMoves
<1>1. CASE EnterGroup(t)
  BY <1>1 DEF EnterGroup, Entered, InScript, CallMoves
<1>2. CASE LeaveGroup(t)
  <2>1. call' = Goto(t, "told") \/ \E ok \in BOOLEAN : \E got : call' = Return(t, ok, got)
    BY <1>2 DEF LeaveGroup
  <2> QED
    BY <2>1, GotoMoves, ReturnMoves
<1>3. CASE ReadEventItem(t)
  BY <1>3, GotoMoves, ReturnMoves DEF ReadEventItem
<1>4. CASE LateForBits(t)
  <2>1. PICK ok \in BOOLEAN : \E got : call' = Return(t, ok, got)
    BY <1>4 DEF LateForBits, prvTestWaitCondition
  <2> QED
    BY <2>1, ReturnMoves
<1>5. CASE xEventGroupSetBits(t) \/ vEventGroupDelete(t)
  BY <1>5, GotoMoves DEF xEventGroupSetBits, vEventGroupDelete
<1>6. CASE xEventGroupClearBits(t) \/ ResumeFromSet(t)
  BY <1>6, ReturnMoves DEF xEventGroupClearBits, ResumeFromSet
<1> QED
  BY <1>1, <1>2, <1>3, <1>4, <1>5, <1>6 DEF GroupStep

LEMMA StreamCallsMove ==
    ASSUME InScript, NEW t \in Task, StreamStep(t)
    PROVE  CallMoves
<1>1. CASE TryToSend(t)
  <2> DEFINE timed == IF call[t].at = "call"
                      THEN [call EXCEPT ![t].left = Now(t).ticks,
                                        ![t].since = vTaskInternalSetTimeOutState(k)] ELSE call
             space == xStreamBufferSpacesAvailable(s)
  <2>1. /\ DOMAIN timed = Task
        /\ \A u \in Task : "n" \in DOMAIN timed[u] /\ timed[u].n = call[u].n
    BY DEF InScript
  <2>2. \/ call' = Local(t, "write", 0) \/ call' = Local(t, "write", space)
        \/ call' = [timed EXCEPT ![t].at = "sendWait", ![t].size = space]
    BY <1>1 DEF TryToSend
  <2> HIDE DEF timed, space
  <2> QED
    BY <2>1, <2>2 DEF Local, InScript, CallMoves
<1>2. CASE WaitForStream(t) \/ EndWaitForStream(t) \/ NotifyReceiver(t) \/ NotifySender(t)
  BY <1>2, GotoMoves, ReturnMoves DEF WaitForStream, EndWaitForStream, NotifyReceiver, NotifySender
<1>3. CASE CheckSendTime(t)
  BY <1>3 DEF CheckSendTime, InScript, CallMoves
<1>4. CASE WriteToStream(t)
  <2> DEFINE count == Writable(s, Now(t).v, IF call[t].size = 0
                                            THEN xStreamBufferSpacesAvailable(s) ELSE call[t].size)
  <2>1. \/ call' = Return(t, FALSE, "timeout")
        \/ call' = Local(t, "writeData", count)
        \/ call' = Local(t, "sent", count)
    BY <1>4 DEF WriteToStream
  <2> QED
    BY <2>1, ReturnMoves, LocalMoves
<1>5. CASE WriteMessageData(t)
  BY <1>5, GotoMoves DEF WriteMessageData
<1>6. CASE ResumeFromStream(t) \/ xStreamBufferReset(t)
  BY <1>6, ReturnMoves DEF ResumeFromStream, xStreamBufferReset
<1>7. CASE TryToReceive(t) \/ LookAfterWait(t)
  BY <1>7 DEF TryToReceive, LookAfterWait, Local, Goto, InScript, CallMoves
<1>8. CASE ReadFromStream(t)
  <2>1. \/ call' = Return(t, FALSE, "timeout") \/ call' = Return(t, FALSE, "none")
        \/ call' = Goto(t, "received")
        \/ \E at, size : call' = Local(t, at, size)
    BY <1>8 DEF ReadFromStream, EndRead
  <2> QED
    BY <2>1, GotoMoves, ReturnMoves, LocalMoves
<1>9. CASE ReadMessageData(t) \/ PutLengthBack(t)
  BY <1>9, GotoMoves, ReturnMoves DEF ReadMessageData, PutLengthBack, EndRead
<1> QED
  BY <1>1, <1>2, <1>3, <1>4, <1>5, <1>6, <1>7, <1>8, <1>9 DEF StreamStep

LEMMA TimerCallsMove ==
    ASSUME InScript, NEW t \in Task, TimerStep(t)
    PROVE  CallMoves
<1>1. CASE ExpireOrBlock(t)
  BY <1>1 DEF ExpireOrBlock, InScript, CallMoves
<1>2. CASE ResumeDaemon(t) \/ ProcessCommand(t)
  BY <1>2, GotoMoves DEF ResumeDaemon, ProcessCommand
<1>3. CASE prvProcessExpiredTimer(t)
  BY <1>3 DEF prvProcessExpiredTimer, InScript, CallMoves
<1>4. CASE ReceiveCommand(t)
  BY <1>4, GotoMoves, FreshMoves DEF ReceiveCommand
<1> QED
  BY <1>1, <1>2, <1>3, <1>4 DEF TimerStep

LEMMA IdleMoves ==
    ASSUME InScript, IdleStep
    PROVE  CallMoves
<1>1. CASE CleanUp
  BY <1>1 DEF CleanUp, InScript, CallMoves
<1>2. CASE FreeDead
  BY <1>2, GotoMoves DEF FreeDead, InScript, CallMoves, Goto
<1>3. CASE ResumeFromFree
  BY <1>3 DEF ResumeFromFree, Goto, Fresh, InScript, CallMoves
<1>4. CASE IdleYield
  BY <1>4 DEF IdleYield, InScript, CallMoves
<1> QED
  BY <1>1, <1>2, <1>3, <1>4 DEF IdleStep

LEMMA MovesInScript ==
    ASSUME InScript, program \in Program, UNCHANGED program, CallMoves
    PROVE  InScript'
<1> SUFFICES ASSUME NEW t \in Task
             PROVE  call'[t].n \in DOMAIN App[program].script[t]
  BY DEF InScript, CallMoves
<1> DEFINE script == App[program].script[t]
<1>1. LegalScript(program, script)
  BY AppAssumption
<1>2. 1 \in DOMAIN script
  BY <1>1 DEF LegalScript
<1>3. \A ok \in BOOLEAN : NextCall(t, ok) \in DOMAIN script
  <2> TAKE ok \in BOOLEAN
  <2>1. Now(t) = script[call[t].n] /\ call[t].n \in DOMAIN script
    BY DEF InScript, Now, ScriptOf
  <2>2. (call[t].n % Len(script)) + 1 \in DOMAIN script
    BY <1>1, <2>1 DEF LegalScript
  <2> QED
    BY <1>1, <2>1, <2>2 DEF NextCall, LegalScript, ScriptOf
<1> QED
  BY <1>2, <1>3 DEF InScript, CallMoves

LEMMA InterruptsMove ==
    ASSUME InScript, xPortSysTickHandler \/ xPortPendSVHandler \/ Interrupt
    PROVE  CallMoves
  BY DEF InScript, CallMoves, xPortSysTickHandler, xPortPendSVHandler, Interrupt

LEMMA ScriptStep ==
    program \in Program /\ InScript /\ [Next]_vars => program' \in Program /\ InScript'
<1> SUFFICES ASSUME program \in Program, InScript, [Next]_vars
             PROVE  program' \in Program /\ InScript'
  OBVIOUS
<1>1. UNCHANGED program
  BY DEF Next, vars, xPortSysTickHandler, xPortPendSVHandler, Interrupt, QueueCall, ControlCall,
         GroupCall, StreamCall, TimerCall, IdleLoop
<1>2. CASE UNCHANGED vars
  BY <1>2 DEF vars, InScript
<1>3. CASE Next
  <2>1. CallMoves
    BY <1>3, InterruptsMove, QueueCallsMove, ControlCallsMove, GroupCallsMove, StreamCallsMove,
       TimerCallsMove, IdleMoves
       DEF Next, QueueCall, ControlCall, GroupCall, StreamCall, TimerCall, IdleLoop
  <2> QED
    BY <1>1, <2>1, MovesInScript
<1> QED
  BY <1>2, <1>3

LEMMA ScriptInit == Init => program \in Program /\ InScript
<1> SUFFICES ASSUME Init PROVE program \in Program /\ InScript
  OBVIOUS
<1> USE DEF Init, CallInit
<1>1. \A t \in Task : LegalScript(program, App[program].script[t])
  BY AppAssumption
<1> QED
  BY <1>1 DEF InScript, Fresh, LegalScript

----------------------------------------------------------------------------
(* The ring                                                                 *)

\* The storage of a queue, between its critical sections.
RingOK(b) ==
    /\ DOMAIN b = {"type", "length", "n", "rx", "tx", "buf", "w", "r", "holder", "rec"}
    /\ b.type = "queue"
    /\ b.length \in Nat \ {0} /\ b.n \in 0 .. b.length
    /\ b.r \in 0 .. b.length - 1 /\ b.buf \in [0 .. b.length - 1 -> Item]
    /\ b.w = (b.r + 1 + b.n) % b.length

\* A remainder under a name of its own, for facts about all of them.
Rem(a, L) == a % L

LEMMA Wraps ==
    ASSUME NEW L \in Nat \ {0}, NEW a \in 0 .. L + L
    PROVE  Rem(a, L) = IF a < L THEN a ELSE IF a < L + L THEN a - L ELSE 0
<1>1. CASE a < L
  BY <1>1 DEF Rem
<1>2. CASE a >= L /\ a < L + L
  BY <1>2 DEF Rem
<1>3. CASE a = L + L
  BY <1>3 DEF Rem
<1> QED
  BY <1>1, <1>2, <1>3

\* Behind the n items of a ring of L read at r there is a slot of its own, and
\* the next is behind that; before them likewise; they move up when one goes.
Behind(L, r, n) ==
    /\ Rem(r + 1 + n, L) \in 0 .. L - 1
    /\ Rem(Rem(r + 1 + n, L) + 1, L) = Rem(r + 1 + (n + 1), L)
    /\ \A i \in 1 .. n : Rem(r + i, L) \in 0 .. L - 1 /\ Rem(r + i, L) # Rem(r + 1 + n, L)
Ahead(L, r, n) ==
    /\ Rem(r + L - 1, L) \in 0 .. L - 1
    /\ Rem(Rem(r + L - 1, L) + 1, L) = r
    /\ Rem(Rem(r + L - 1, L) + 1 + (n + 1), L) = Rem(r + 1 + n, L)
    /\ \A i \in 1 .. n : /\ Rem(Rem(r + L - 1, L) + (i + 1), L) = Rem(r + i, L)
                         /\ Rem(r + i, L) \in 0 .. L - 1 /\ Rem(r + i, L) # r
Up(L, r, n) ==
    /\ Rem(r + 1, L) \in 0 .. L - 1
    /\ Rem(Rem(r + 1, L) + 1 + (n - 1), L) = Rem(r + 1 + n, L)
    /\ \A i \in 1 .. n - 1 : Rem(Rem(r + 1, L) + i, L) = Rem(r + (i + 1), L)

LEMMA SlotBehind ==
    ASSUME NEW L \in Nat \ {0}, NEW r \in 0 .. L - 1, NEW n \in 0 .. L - 1
    PROVE  Behind(L, r, n)
<1>1. Rem(r + 1 + n, L) \in 0 .. L - 1
  BY Wraps
<1>2. Rem(Rem(r + 1 + n, L) + 1, L) = Rem(r + 1 + (n + 1), L)
  BY Wraps
<1>3. \A i \in 1 .. n : Rem(r + i, L) \in 0 .. L - 1 /\ Rem(r + i, L) # Rem(r + 1 + n, L)
  BY Wraps
<1> QED
  BY <1>1, <1>2, <1>3 DEF Behind

LEMMA SlotAhead ==
    ASSUME NEW L \in Nat \ {0}, NEW r \in 0 .. L - 1, NEW n \in 0 .. L - 1
    PROVE  Ahead(L, r, n)
<1>1. Rem(r + L - 1, L) = IF r = 0 THEN L - 1 ELSE r - 1
  BY Wraps
<1>2. Rem(Rem(r + L - 1, L) + 1, L) = r
  BY <1>1, Wraps
<1>3. Rem(Rem(r + L - 1, L) + 1 + (n + 1), L) = Rem(r + 1 + n, L)
  BY <1>1, Wraps
<1>4. \A i \in 1 .. n : /\ Rem(Rem(r + L - 1, L) + (i + 1), L) = Rem(r + i, L)
                       /\ Rem(r + i, L) \in 0 .. L - 1 /\ Rem(r + i, L) # r
  BY <1>1, Wraps
<1> QED
  BY <1>1, <1>2, <1>3, <1>4 DEF Ahead

LEMMA SlotsUp ==
    ASSUME NEW L \in Nat \ {0}, NEW r \in 0 .. L - 1, NEW n \in 1 .. L
    PROVE  Up(L, r, n)
<1>1. Rem(r + 1, L) = IF r = L - 1 THEN 0 ELSE r + 1
  BY Wraps
<1>2. Rem(Rem(r + 1, L) + 1 + (n - 1), L) = Rem(r + 1 + n, L)
  BY <1>1, Wraps
<1>3. \A i \in 1 .. n - 1 : Rem(Rem(r + 1, L) + i, L) = Rem(r + (i + 1), L)
  BY <1>1, Wraps
<1> QED
  BY <1>1, <1>2, <1>3 DEF Up

\* A ring in the words of Rem.
LEMMA RingFacts ==
    ASSUME NEW b, RingOK(b)
    PROVE  /\ b.length \in Nat \ {0} /\ b.n \in 0 .. b.length /\ b.r \in 0 .. b.length - 1
           /\ b.buf \in [0 .. b.length - 1 -> Item]
           /\ b.w = Rem(b.r + 1 + b.n, b.length) /\ b.w \in 0 .. b.length - 1
  BY DEF RingOK, Rem

\* Its length, read pointer and count, by names that the provers handle well.
LEMMA RingParts ==
    ASSUME NEW b, RingOK(b), b.n < b.length
    PROVE  \E L \in Nat \ {0}, r \in Nat, n \in Nat :
              /\ b.length = L /\ b.r = r /\ b.n = n /\ r < L /\ n < L
              /\ b.w = Rem(r + 1 + n, L) /\ b.buf \in [0 .. L - 1 -> Item]
<1>1. b.length \in Nat \ {0} /\ b.r \in Nat /\ b.n \in Nat /\ b.r < b.length
  BY RingFacts
<1>2. b.w = Rem(b.r + 1 + b.n, b.length) /\ b.buf \in [0 .. b.length - 1 -> Item]
  BY RingFacts
<1> QED
  BY <1>1, <1>2, Zenon

\* Contents as the abstract queue sees them: in order, and of its items.
LEMMA ContentsSeq ==
    ASSUME NEW b, RingOK(b)
    PROVE  /\ Contents(b) \in Seq(Item) /\ Len(Contents(b)) = b.n
           /\ \A i \in 1 .. b.n : Contents(b)[i] = b.buf[Rem(b.r + i, b.length)]
<1>1. \A i \in 1 .. b.n : (b.r + i) % b.length \in 0 .. b.length - 1
  BY DEF RingOK
<1>2. Contents(b) \in [1 .. b.n -> Item]
  BY <1>1 DEF RingOK, Contents
<1>3. b.n \in Nat
  BY DEF RingOK
<1> QED
  BY <1>1, <1>2, <1>3 DEF Contents, Rem

\* Sequences of items with the same length and the same members are the same.
LEMMA SameItems ==
    ASSUME NEW c \in Seq(Item), NEW d \in Seq(Item), Len(c) = Len(d),
           \A i \in 1 .. Len(c) : c[i] = d[i]
    PROVE  c = d
  OBVIOUS

\* An item sent to the back is the last, and the ring stays a ring.
LEMMA BackAppends ==
    ASSUME NEW b, RingOK(b), b.n < b.length, NEW v \in Item
    PROVE  RingOK(ToBack(b, v)) /\ Contents(ToBack(b, v)) = Append(Contents(b), v)
<1> DEFINE c == ToBack(b, v)
<1>1. PICK L \in Nat \ {0}, r \in Nat, n \in Nat :
          /\ b.length = L /\ b.r = r /\ b.n = n /\ r < L /\ n < L
          /\ b.w = Rem(r + 1 + n, L) /\ b.buf \in [0 .. L - 1 -> Item]
  BY RingParts
<1>2. /\ c.n = n + 1 /\ c.r = r /\ c.length = L
      /\ c.buf = [b.buf EXCEPT ![b.w] = v] /\ c.w = Rem(b.w + 1, L)
      /\ DOMAIN c = DOMAIN b /\ c.type = b.type
  BY <1>1 DEF RingOK, ToBack, After, Rem
<1> HIDE DEF c
<1>3. Behind(L, r, n)
  BY <1>1, SlotBehind
<1>4. RingOK(c)
  BY <1>1, <1>2, <1>3 DEF RingOK, Rem, Behind
<1>5. /\ Contents(b) \in Seq(Item) /\ Len(Contents(b)) = n
      /\ \A i \in 1 .. n : Contents(b)[i] = b.buf[Rem(r + i, L)]
  BY <1>1, ContentsSeq
<1>6. /\ Contents(c) \in Seq(Item) /\ Len(Contents(c)) = n + 1
      /\ \A i \in 1 .. n + 1 : Contents(c)[i] = c.buf[Rem(r + i, L)]
  <2>1. /\ Contents(c) \in Seq(Item) /\ Len(Contents(c)) = c.n
        /\ \A i \in 1 .. c.n : Contents(c)[i] = c.buf[Rem(c.r + i, c.length)]
    BY <1>4, ContentsSeq
  <2> QED
    BY <1>2, <2>1
<1>7. ASSUME NEW i \in 1 .. n PROVE Contents(c)[i] = Contents(b)[i]
  <2>1. Contents(b)[i] = b.buf[Rem(r + i, L)] /\ Contents(c)[i] = c.buf[Rem(r + i, L)]
    BY <1>5, <1>6
  <2>2. Rem(r + i, L) \in 0 .. L - 1 /\ Rem(r + i, L) # b.w
    BY <1>1, <1>3 DEF Behind
  <2> QED
    BY <1>1, <1>2, <2>1, <2>2
<1>8. Contents(c)[n + 1] = v
  <2>1. r + (n + 1) = r + 1 + n
    OBVIOUS
  <2> QED
    BY <1>1, <1>2, <1>3, <1>6, <2>1 DEF Behind
<1> QED
  BY <1>4, <1>5, <1>6, <1>7, <1>8 DEF c

\* An item sent to the front is the first.
LEMMA FrontPrepends ==
    ASSUME NEW b, RingOK(b), b.n < b.length, NEW v \in Item
    PROVE  RingOK(ToFront(b, v)) /\ Contents(ToFront(b, v)) = <<v>> \o Contents(b)
<1> DEFINE c == ToFront(b, v)
<1>1. PICK L \in Nat \ {0}, r \in Nat, n \in Nat :
          /\ b.length = L /\ b.r = r /\ b.n = n /\ r < L /\ n < L
          /\ b.w = Rem(r + 1 + n, L) /\ b.buf \in [0 .. L - 1 -> Item]
  BY RingParts
<1>2. /\ c.n = n + 1 /\ c.r = Rem(r + L - 1, L) /\ c.length = L
      /\ c.buf = [b.buf EXCEPT ![r] = v] /\ c.w = b.w
      /\ DOMAIN c = DOMAIN b /\ c.type = b.type
  BY <1>1 DEF RingOK, ToFront, Before, Rem
<1> HIDE DEF c
<1>3. Ahead(L, r, n)
  BY <1>1, SlotAhead
<1>4. RingOK(c)
  BY <1>1, <1>2, <1>3 DEF RingOK, Rem, Ahead
<1>5. /\ Contents(b) \in Seq(Item) /\ Len(Contents(b)) = n
      /\ \A i \in 1 .. n : Contents(b)[i] = b.buf[Rem(r + i, L)]
  BY <1>1, ContentsSeq
<1>6. /\ Contents(c) \in Seq(Item) /\ Len(Contents(c)) = n + 1
      /\ \A i \in 1 .. n + 1 : Contents(c)[i] = c.buf[Rem(Rem(r + L - 1, L) + i, L)]
  <2>1. /\ Contents(c) \in Seq(Item) /\ Len(Contents(c)) = c.n
        /\ \A i \in 1 .. c.n : Contents(c)[i] = c.buf[Rem(c.r + i, c.length)]
    BY <1>4, ContentsSeq
  <2> QED
    BY <1>2, <2>1
<1>7. ASSUME NEW i \in 1 .. n PROVE Contents(c)[i + 1] = Contents(b)[i]
  <2>1. i + 1 \in 1 .. n + 1
    OBVIOUS
  <2>2. /\ Contents(b)[i] = b.buf[Rem(r + i, L)]
        /\ Contents(c)[i + 1] = c.buf[Rem(Rem(r + L - 1, L) + (i + 1), L)]
    BY <1>5, <1>6, <2>1
  <2>3. /\ Rem(r + i, L) \in 0 .. L - 1 /\ Rem(r + i, L) # r
        /\ Rem(Rem(r + L - 1, L) + (i + 1), L) = Rem(r + i, L)
    BY <1>3 DEF Ahead
  <2> QED
    BY <1>1, <1>2, <2>2, <2>3
<1>8. Contents(c)[1] = v
  BY <1>1, <1>2, <1>3, <1>6 DEF Ahead
<1>9. \A i \in 1 .. n + 1 : Contents(c)[i] = (<<v>> \o Contents(b))[i]
  <2> TAKE i \in 1 .. n + 1
  <2>1. CASE i = 1
    BY <2>1, <1>5, <1>8
  <2>2. CASE i # 1
    <3>1. i - 1 \in 1 .. n /\ (i - 1) + 1 = i
      BY <2>2
    <3> QED
      BY <2>2, <3>1, <1>5, <1>7
  <2> QED
    BY <2>1, <2>2
<1>10. <<v>> \o Contents(b) \in Seq(Item) /\ Len(<<v>> \o Contents(b)) = n + 1
  BY <1>5
<1>11. Contents(c) = <<v>> \o Contents(b)
  BY ONLY <1>6, <1>9, <1>10, SameItems
<1> QED
  BY <1>4, <1>11 DEF c

\* In a queue of one, the item that is put in place of another is all there is.
LEMMA OverwriteReplaces ==
    ASSUME NEW b, RingOK(b), b.length = 1, NEW v \in Item
    PROVE  RingOK(Overwrite(b, v)) /\ Contents(Overwrite(b, v)) = <<v>>
<1> DEFINE c == Overwrite(b, v)
<1>1. b.r = 0 /\ b.w = 0 /\ b.n \in 0 .. 1 /\ b.buf \in [0 .. 0 -> Item]
  BY DEF RingOK
<1>2. /\ c.n = 1 /\ c.r = 0 /\ c.length = 1 /\ c.buf = [b.buf EXCEPT ![0] = v] /\ c.w = 0
      /\ DOMAIN c = DOMAIN b /\ c.type = b.type
  BY <1>1 DEF RingOK, ToFront, Overwrite, Before
<1> HIDE DEF c
<1>3. RingOK(c)
  BY <1>1, <1>2 DEF RingOK
<1>4. /\ Contents(c) \in Seq(Item) /\ Len(Contents(c)) = 1
      /\ Contents(c)[1] = c.buf[Rem(1, 1)]
  <2>1. 1 \in 1 .. c.n /\ c.r + 1 = 1
    BY <1>2
  <2>2. Contents(c)[1] = c.buf[Rem(c.r + 1, c.length)]
    BY <1>3, <2>1, ContentsSeq
  <2> QED
    BY <1>2, <1>3, <2>1, <2>2, ContentsSeq
<1>5. Rem(1, 1) = 0
  BY DEF Rem
<1> QED
  BY <1>1, <1>2, <1>3, <1>4, <1>5 DEF c

\* What a receiver takes is the first item.
Taken(b) == [prvCopyDataFromQueue(b) EXCEPT !.n = @ - 1]
LEMMA TakeTails ==
    ASSUME NEW b, RingOK(b), b.n # 0
    PROVE  /\ RingOK(Taken(b)) /\ Contents(b) # <<>>
           /\ Contents(Taken(b)) = Tail(Contents(b)) /\ First(b) = Head(Contents(b))
<1> DEFINE c == Taken(b)
<1>1. PICK L \in Nat \ {0}, r \in Nat, n \in Nat :
          /\ b.length = L /\ b.r = r /\ b.n = n /\ r < L /\ n <= L /\ n # 0
          /\ b.w = Rem(r + 1 + n, L) /\ b.buf \in [0 .. L - 1 -> Item]
  <2>1. b.n \in Nat /\ b.n <= b.length /\ b.r \in Nat /\ b.r < b.length
    BY RingFacts
  <2> QED
    BY <2>1, RingFacts
<1>2. /\ c.n = n - 1 /\ c.r = Rem(r + 1, L) /\ c.length = L /\ c.buf = b.buf /\ c.w = b.w
      /\ DOMAIN c = DOMAIN b /\ c.type = b.type /\ First(b) = b.buf[Rem(r + 1, L)]
  BY <1>1 DEF RingOK, prvCopyDataFromQueue, Taken, After, First, Rem
<1> HIDE DEF c
<1>3. Up(L, r, n)
  <2>1. r \in 0 .. L - 1 /\ n \in 1 .. L
    BY <1>1
  <2> QED
    BY <2>1, SlotsUp
<1>4. RingOK(c)
  <2>1. c.w = Rem(c.r + 1 + c.n, c.length) /\ c.r \in 0 .. L - 1
    BY <1>1, <1>2, <1>3 DEF Up
  <2>2. c.n \in 0 .. L
    BY <1>1, <1>2
  <2> QED
    BY <1>1, <1>2, <2>1, <2>2 DEF RingOK, Rem
<1>5. /\ Contents(b) \in Seq(Item) /\ Len(Contents(b)) = n
      /\ \A i \in 1 .. n : Contents(b)[i] = b.buf[Rem(r + i, L)]
  BY <1>1, ContentsSeq
<1>6. /\ Contents(c) \in Seq(Item) /\ Len(Contents(c)) = n - 1
      /\ \A i \in 1 .. n - 1 : Contents(c)[i] = b.buf[Rem(Rem(r + 1, L) + i, L)]
  <2>1. /\ Contents(c) \in Seq(Item) /\ Len(Contents(c)) = c.n
        /\ \A i \in 1 .. c.n : Contents(c)[i] = c.buf[Rem(c.r + i, c.length)]
    BY <1>4, ContentsSeq
  <2> QED
    BY <1>2, <2>1
<1>7. ASSUME NEW i \in 1 .. n - 1 PROVE Contents(c)[i] = Contents(b)[i + 1]
  <2>1. i + 1 \in 1 .. n
    BY <1>1
  <2>2. /\ Contents(c)[i] = b.buf[Rem(Rem(r + 1, L) + i, L)]
        /\ Contents(b)[i + 1] = b.buf[Rem(r + (i + 1), L)]
    BY <1>5, <1>6, <2>1
  <2> QED
    BY <1>3, <2>2 DEF Up
<1>8. Contents(b) # <<>> /\ First(b) = Head(Contents(b))
  BY <1>1, <1>2, <1>5
<1>9. Tail(Contents(b)) \in Seq(Item) /\ Len(Tail(Contents(b))) = n - 1
  BY <1>1, <1>5
<1>10. \A i \in 1 .. n - 1 : Contents(c)[i] = Tail(Contents(b))[i]
  BY <1>1, <1>5, <1>7
<1> QED
  BY <1>4, <1>6, <1>8, <1>9, <1>10 DEF c

LEMMA ResetEmpties ==
    ASSUME NEW b, RingOK(b), NEW k0, NEW x
    PROVE  LET c == xQueueGenericReset(k0, b, x).b
           IN  RingOK(c) /\ c.length = b.length /\ Contents(c) = <<>>
<1> DEFINE c == xQueueGenericReset(k0, b, x).b
<1>1. PICK L \in Nat \ {0} : b.length = L /\ b.buf \in [0 .. L - 1 -> Item]
  BY RingFacts
<1>2. /\ c.n = 0 /\ c.w = 0 /\ c.r = L - 1 /\ c.length = L /\ c.buf = b.buf
      /\ DOMAIN c = DOMAIN b /\ c.type = b.type
  BY <1>1 DEF RingOK, xQueueGenericReset
<1> HIDE DEF c
<1>3. Rem((L - 1) + 1 + 0, L) = 0
  BY Wraps
<1>4. RingOK(c)
  <2>1. DOMAIN c = {"type", "length", "n", "rx", "tx", "buf", "w", "r", "holder", "rec"} /\ c.type = "queue"
    BY <1>2 DEF RingOK
  <2>2. c.length \in Nat \ {0} /\ c.n \in 0 .. c.length /\ c.r \in 0 .. c.length - 1
    BY <1>2
  <2>3. c.buf \in [0 .. c.length - 1 -> Item]
    BY <1>1, <1>2
  <2>4. c.w = Rem(c.r + 1 + c.n, c.length)
    BY <1>2, <1>3
  <2>5. c.w = (c.r + 1 + c.n) % c.length
    BY <2>4 DEF Rem
  <2> QED
    BY <2>1, <2>2, <2>3, <2>5 DEF RingOK
<1>5. Contents(c) \in Seq(Item) /\ Len(Contents(c)) = 0
  <2>1. /\ Contents(c) \in Seq(Item) /\ Len(Contents(c)) = c.n
        /\ \A i \in 1 .. c.n : Contents(c)[i] = c.buf[Rem(c.r + i, c.length)]
    BY <1>4, ContentsSeq
  <2> QED
    BY <1>2, <2>1
<1> QED
  BY <1>1, <1>2, <1>4, <1>5 DEF c

\* The fields that are not the ring's.
Aside == {"rx", "tx", "holder", "rec"}
LEMMA AsideKeeps ==
    ASSUME NEW b, RingOK(b), NEW c, DOMAIN c = DOMAIN b,
           \A f \in DOMAIN b \ Aside : c[f] = b[f]
    PROVE  RingOK(c) /\ c.length = b.length /\ Contents(c) = Contents(b)
<1>1. /\ c.type = b.type /\ c.length = b.length /\ c.n = b.n /\ c.buf = b.buf /\ c.w = b.w /\ c.r = b.r
  BY DEF RingOK, Aside
<1> QED
  BY <1>1 DEF RingOK, Contents

----------------------------------------------------------------------------
(* The steps                                                                *)

\* The ring c is what one operation, or none, makes of the ring b.
Operation(b, c) ==
    \/ \E v \in Item : /\ b.n < b.length
                       /\ \/ Contents(c) = Append(Contents(b), v)
                          \/ Contents(c) = <<v>> \o Contents(b)
    \/ \E v \in Item : b.length = 1 /\ Contents(c) = <<v>>
    \/ Contents(b) # <<>> /\ Contents(c) = Tail(Contents(b))
    \/ Contents(c) = <<>>
    \/ Contents(c) = Contents(b)
Moves(b, c) == RingOK(c) /\ c.length = b.length /\ Operation(b, c)

LEMMA AsideMoves ==
    ASSUME NEW b, RingOK(b), NEW c, DOMAIN c = DOMAIN b,
           \A f \in DOMAIN b \ Aside : c[f] = b[f]
    PROVE  Moves(b, c)
  BY AsideKeeps DEF Moves, Operation

LEMMA LockMoves ==
    ASSUME NEW b, RingOK(b), NEW tx, NEW rx
    PROVE  Moves(b, prvLockQueue(b)) /\ Moves(b, [b EXCEPT !.tx = tx]) /\ Moves(b, [b EXCEPT !.rx = rx])
<1>1. Moves(b, prvLockQueue(b))
  BY AsideMoves DEF prvLockQueue, Aside
<1>2. Moves(b, [b EXCEPT !.tx = tx]) /\ Moves(b, [b EXCEPT !.rx = rx])
  BY AsideMoves DEF Aside
<1> QED
  BY <1>1, <1>2

Legal(b, v, position) ==
    /\ v \in Item
    /\ position \in {"queueSEND_TO_BACK", "queueSEND_TO_FRONT", "queueOVERWRITE"}
    /\ position = "queueOVERWRITE" => b.length = 1
    /\ b.n # b.length \/ position = "queueOVERWRITE"

LEMMA CopyToMoves ==
    ASSUME NEW b, RingOK(b), NEW v, NEW position, Legal(b, v, position)
    PROVE  Moves(b, prvCopyDataToQueue(b, v, position))
<1> DEFINE c == prvCopyDataToQueue(b, v, position)
<1>1. b.type = "queue" /\ v \in Item
  BY DEF RingOK, Legal
<1>2. CASE position = "queueSEND_TO_BACK"
  <2>1. c = ToBack(b, v)
    BY <1>1, <1>2 DEF prvCopyDataToQueue
  <2>2. b.n < b.length
    BY <1>2, RingFacts DEF Legal
  <2>3. c.length = b.length
    BY <2>1 DEF ToBack, RingOK
  <2> QED
    BY <1>1, <2>1, <2>2, <2>3, BackAppends DEF Moves, Operation
<1>3. CASE position = "queueSEND_TO_FRONT"
  <2>1. c = ToFront(b, v)
    BY <1>1, <1>3 DEF prvCopyDataToQueue
  <2>2. b.n < b.length
    BY <1>3, RingFacts DEF Legal
  <2>3. c.length = b.length
    BY <2>1 DEF ToFront, RingOK
  <2> QED
    BY <1>1, <2>1, <2>2, <2>3, FrontPrepends DEF Moves, Operation
<1>4. CASE position = "queueOVERWRITE"
  <2>1. c = Overwrite(b, v)
    BY <1>1, <1>4 DEF prvCopyDataToQueue
  <2>2. b.length = 1
    BY <1>4 DEF Legal
  <2>3. c.length = b.length
    BY <2>1 DEF Overwrite, ToFront, RingOK
  <2> QED
    BY <1>1, <2>1, <2>2, <2>3, OverwriteReplaces DEF Moves, Operation
<1> QED
  BY <1>2, <1>3, <1>4 DEF Legal

\* Moves that end with a change of the other fields.
LEMMA ThenAside ==
    ASSUME NEW b, NEW c, NEW d, Moves(b, c), DOMAIN d = DOMAIN c,
           \A f \in DOMAIN c \ Aside : d[f] = c[f]
    PROVE  Moves(b, d)
  BY AsideKeeps DEF Moves, Operation

LEMMA TakeMoves ==
    ASSUME NEW b, RingOK(b), b.n # 0
    PROVE  Moves(b, Taken(b))
<1>1. Taken(b).length = b.length
  BY DEF Taken, prvCopyDataFromQueue, RingOK
<1> QED
  BY <1>1, TakeTails DEF Moves, Operation

LEMMA ReceiveMoves ==
    ASSUME NEW b, RingOK(b), b.n # 0, NEW k0, NEW x
    PROVE  Moves(b, Received(k0, b, x).b) /\ Moves(b, ReceivedFromISR(k0, b, x).b)
<1>1. Moves(b, Taken(b)) /\ DOMAIN Taken(b) = DOMAIN b /\ {"holder", "rx"} \subseteq DOMAIN b
  BY TakeMoves DEF Moves, RingOK
<1> DEFINE c == Taken(b)
<1>2. Received(k0, b, x).b = [c EXCEPT !.holder = IF b.type = "mutex" THEN k0.cur ELSE @]
  BY DEF Received, Taken
<1>3. \E count : ReceivedFromISR(k0, b, x).b = [c EXCEPT !.rx = count]
  BY DEF ReceivedFromISR, CountRx, Taken
<1> HIDE DEF c
<1>4. Moves(b, c)
  BY <1>1 DEF c
<1>5. \A m : Moves(b, [c EXCEPT !.holder = m])
  BY <1>4, ThenAside DEF Aside
<1>6. \A m : Moves(b, [c EXCEPT !.rx = m])
  BY <1>4, ThenAside DEF Aside
<1> QED
  BY <1>2, <1>3, <1>5, <1>6

LEMMA SendMoves ==
    ASSUME NEW b, RingOK(b), NEW v, NEW position, Legal(b, v, position), NEW k0, NEW x
    PROVE  Moves(b, Sent(k0, b, x, v, position).b) /\ Moves(b, SentFromISR(k0, b, x, v, position).b)
<1> DEFINE c == prvCopyDataToQueue(b, v, position)
<1>1. Moves(b, c)
  BY CopyToMoves
<1>2. Sent(k0, b, x, v, position).b = c
  BY DEF Sent
<1>3. \E count : SentFromISR(k0, b, x, v, position).b = [c EXCEPT !.tx = count]
  BY DEF SentFromISR, CountTx
<1> HIDE DEF c
<1>4. \A m : Moves(b, [c EXCEPT !.tx = m])
  BY <1>1, ThenAside DEF Aside
<1> QED
  BY <1>1, <1>2, <1>3, <1>4

RingInv ==
    "q" \in DOMAIN q => RingOK(q["q"]) /\ q["q"].length = App[program].queues["q"].length

\* What every step does to the queue.
RingMoves == DOMAIN q' = DOMAIN q /\ ("q" \in DOMAIN q => Moves(q["q"], q'["q"]))

LEMMA StayMoves == ASSUME RingInv, UNCHANGED q PROVE RingMoves
<1>1. ASSUME "q" \in DOMAIN q PROVE Moves(q["q"], q["q"])
  BY <1>1 DEF RingInv, Moves, Operation
<1> QED
  BY <1>1 DEF RingMoves

LEMMA OtherMoves ==
    ASSUME RingInv, NEW x, x # "q", NEW b, q' = [q EXCEPT ![x] = b]
    PROVE  RingMoves
<1>1. ASSUME "q" \in DOMAIN q PROVE Moves(q["q"], q["q"])
  BY <1>1 DEF RingInv, Moves, Operation
<1> QED
  BY <1>1 DEF RingMoves

LEMMA OneMoves ==
    ASSUME RingInv, NEW x, NEW b, q' = [q EXCEPT ![x] = b],
           x = "q" /\ "q" \in DOMAIN q /\ RingOK(q["q"]) => Moves(q["q"], b)
    PROVE  RingMoves
<1>1. CASE x # "q"
  BY <1>1, OtherMoves
<1>2. CASE x = "q"
  BY <1>2 DEF RingMoves, RingInv
<1> QED
  BY <1>1, <1>2

LEMMA NowIsLegal ==
    ASSUME program \in Program, InScript, NEW t \in Task
    PROVE  LegalCall(program, Now(t))
<1>1. LegalScript(program, App[program].script[t])
  BY AppAssumption
<1> QED
  BY <1>1 DEF InScript, LegalScript, Now, ScriptOf

LEMMA TryMoves ==
    ASSUME RingInv, program \in Program, InScript, NEW t \in Task, TryQueue(t)
    PROVE  RingMoves
<1>1. CASE UNCHANGED q
  BY <1>1, StayMoves
<1>2. CASE Able(t) /\ Becomes(X(t), Count(t, Success(t)))
  <2>1. q' = [q EXCEPT ![X(t)] = Count(t, Success(t)).b]
    BY <1>2 DEF Becomes
  <2>2. ASSUME X(t) = "q", "q" \in DOMAIN q, RingOK(q["q"])
        PROVE  Moves(q["q"], Count(t, Success(t)).b)
    <3>1. LegalCall(program, Now(t)) /\ Now(t).x = "q"
      BY NowIsLegal, <2>2 DEF X
    <3>2. Count(t, Success(t)) = Success(t)
      BY <3>1 DEF LegalCall, Count
    <3>3. Now(t).op \in {"xQueueGenericSend", "xQueueSemaphoreTake", "xQueueReceive", "xQueuePeek"}
      BY <3>1 DEF LegalCall, LegalCommand, TimerQueue, TryQueue, QueueOp, SendOp, ReceiveOp, TakeOp
    <3>4. CASE Now(t).op = "xQueueGenericSend"
      <4>1. Legal(q["q"], Now(t).v, Now(t).position)
        BY <1>2, <3>1, <3>4, <2>2
           DEF LegalCall, Overwritten, Legal, RingInv, Able, SendOp, Position, prvIsQueueFull, X
      <4>2. Success(t).b = Sent(k, q["q"], "q", Now(t).v, Now(t).position).b
        BY <3>1, <3>4 DEF Success, SendOp, ItemOf
      <4> QED
        BY <2>2, <3>2, <4>1, <4>2, SendMoves
    <3>5. CASE Now(t).op = "xQueuePeek"
      <4>1. Success(t).b = q["q"]
        BY <3>1, <3>5 DEF Success, SendOp, Peeked
      <4> QED
        BY <2>2, <3>2, <4>1 DEF Moves, Operation
    <3>6. CASE Now(t).op \in {"xQueueSemaphoreTake", "xQueueReceive"}
      <4>1. Success(t).b = Received(k, q["q"], "q").b
        BY <3>1, <3>6 DEF Success, SendOp
      <4>2. q["q"].n # 0
        BY <1>2, <3>1, <3>6 DEF Able, SendOp, prvIsQueueEmpty, X
      <4> QED
        BY <2>2, <3>2, <4>1, <4>2, ReceiveMoves
    <3> QED
      BY <3>3, <3>4, <3>5, <3>6
  <2> QED
    BY <2>1, <2>2, OneMoves
<1> QED
  BY <1>1, <1>2 DEF TryQueue

LEMMA QueueStepMoves ==
    ASSUME RingInv, program \in Program, InScript, NEW t \in Task, QueueStep(t)
    PROVE  RingMoves
<1>1. LegalCall(program, Now(t))
  BY NowIsLegal
<1>2. CASE TakeAgain(t)
  <2>1. X(t) # "q"
    BY <1>1, <1>2 DEF TakeAgain, Calls, LegalCall, X
  <2>2. \E b : q' = [q EXCEPT ![X(t)] = b]
    BY <1>2 DEF TakeAgain
  <2> QED
    BY <2>1, <2>2, OtherMoves
<1>3. CASE TryQueue(t)
  BY <1>3, TryMoves
<1>4. CASE LockQueue(t)
  <2>1. q' = [q EXCEPT ![X(t)] = prvLockQueue(q[X(t)])]
    BY <1>4 DEF LockQueue
  <2> QED
    BY <2>1, LockMoves, OneMoves
<1>5. CASE UnlockTx(t)
  <2>1. q' = [q EXCEPT ![X(t)] = [q[X(t)] EXCEPT !.tx = queueUNLOCKED]]
    BY <1>5 DEF UnlockTx
  <2> QED
    BY <2>1, LockMoves, OneMoves
<1>6. CASE UnlockRx(t)
  <2>1. q' = [q EXCEPT ![X(t)] = [q[X(t)] EXCEPT !.rx = queueUNLOCKED]]
    BY <1>6 DEF UnlockRx
  <2> QED
    BY <2>1, LockMoves, OneMoves
<1>7. CASE xQueueGiveMutexRecursive(t)
  <2>1. X(t) # "q"
    BY <1>1, <1>7 DEF xQueueGiveMutexRecursive, Calls, LegalCall, X
  <2>2. UNCHANGED q \/ \E b : q' = [q EXCEPT ![X(t)] = b]
    BY <1>7 DEF xQueueGiveMutexRecursive, Becomes
  <2> QED
    BY <2>1, <2>2, StayMoves, OtherMoves
<1>8. CASE ResetQueue(t)
  <2>1. q' = [q EXCEPT ![X(t)] = xQueueGenericReset(k, q[X(t)], X(t)).b]
    BY <1>8 DEF ResetQueue, Becomes
  <2>2. ASSUME RingOK(q["q"]), X(t) = "q"
        PROVE  Moves(q["q"], xQueueGenericReset(k, q[X(t)], X(t)).b)
    BY <2>2, ResetEmpties DEF Moves, Operation
  <2> QED
    BY <2>1, <2>2, OneMoves
<1>9. CASE UNCHANGED q
  BY <1>9, StayMoves
<1> QED
  BY <1>2, <1>3, <1>4, <1>5, <1>6, <1>7, <1>8, <1>9
     DEF QueueStep, ReadCommandTime, SuspendForQueue, BlockOnQueue, ResumeFromQueue, LateForQueue,
         DisinheritLate

LEMMA TimerStepMoves ==
    ASSUME RingInv, NEW t \in Task, TimerStep(t)
    PROVE  RingMoves
<1>1. TimerQueue # "q"
  BY DEF TimerQueue
<1>2. UNCHANGED q \/ \E b : q' = [q EXCEPT ![TimerQueue] = b]
  BY DEF TimerStep, ExpireOrBlock, ResumeDaemon, prvProcessExpiredTimer, ReceiveCommand,
         ProcessCommand, Execute, Adopt, Fetch
<1> QED
  BY <1>1, <1>2, StayMoves, OtherMoves

LEMMA InterruptMoves ==
    ASSUME RingInv, program \in Program, Interrupt
    PROVE  RingMoves
<1>1. PICK c \in App[program].handlers : Handler(c)
  BY DEF Interrupt
<1>2. LegalCall(program, c) \/ c.op = "xTimerGenericCommand"
  BY AppAssumption DEF LegalHandler
<1>3. CASE c.op = "xQueueGenericSendFromISR" /\ SendFromISR(c.x, c.v, c.position)
  <2>1. q' = [q EXCEPT ![c.x] = SentFromISR(k, q[c.x], c.x, c.v, c.position).b]
    BY <1>3 DEF SendFromISR, Becomes
  <2>2. ASSUME c.x = "q", "q" \in DOMAIN q, RingOK(q["q"])
        PROVE  Moves(q["q"], SentFromISR(k, q[c.x], c.x, c.v, c.position).b)
    <3>1. Legal(q["q"], c.v, c.position)
      BY <1>2, <1>3, <2>2
         DEF LegalCall, Overwritten, Legal, RingInv, SendFromISR, SendOp, Position, prvIsQueueFull
    <3> QED
      BY <2>2, <3>1, SendMoves
  <2> QED
    BY <2>1, <2>2, OneMoves
<1>4. CASE c.op = "xQueueReceiveFromISR" /\ ReceiveFromISR(c.x)
  <2>1. q' = [q EXCEPT ![c.x] = ReceivedFromISR(k, q[c.x], c.x).b] /\ q[c.x].n # 0
    BY <1>4 DEF ReceiveFromISR, Becomes, prvIsQueueEmpty
  <2> QED
    BY <2>1, ReceiveMoves, OneMoves
<1>5. CASE \E b : q' = [q EXCEPT ![TimerQueue] = b]
  BY <1>5, OtherMoves DEF TimerQueue
<1>6. CASE UNCHANGED q
  BY <1>6, StayMoves
<1> QED
  BY <1>1, <1>3, <1>4, <1>5, <1>6
     DEF Handler, SendFromISR, Becomes, ResumeFromISR, NotifyFromISR, StreamSendFromISR, StreamReceiveFromISR

LEMMA NextMoves ==
    ASSUME RingInv, program \in Program, InScript, [Next]_vars
    PROVE  RingMoves
<1>1. CASE UNCHANGED q
  BY <1>1, StayMoves
<1>2. CASE Interrupt
  BY <1>2, InterruptMoves
<1>3. CASE \E t \in Task : QueueStep(t)
  BY <1>3, QueueStepMoves
<1>4. CASE \E t \in Task : TimerStep(t)
  BY <1>4, TimerStepMoves
<1> QED
  BY <1>1, <1>2, <1>3, <1>4
     DEF Next, vars, xPortSysTickHandler, xPortPendSVHandler, QueueCall, ControlCall, GroupCall,
         StreamCall, TimerCall, IdleLoop

----------------------------------------------------------------------------
(* The theorems                                                             *)

QueueInv == program \in Program /\ InScript /\ RingInv

LEMMA QueueInvInit == Init => QueueInv
<1> SUFFICES ASSUME Init PROVE RingInv
  BY ScriptInit DEF QueueInv
<1> DEFINE b == App[program].queues["q"]
<1>1. q = App[program].queues /\ program \in Program
  BY DEF Init, QueueInit, CallInit
<1>2. ASSUME "q" \in DOMAIN q PROVE RingOK(b)
  <2>1. LegalQueue(b)
    BY <1>1, <1>2, AppAssumption
  <2> HIDE DEF b
  <2>2. PICK L \in Nat \ {0}, v \in Item : b = prvInitialiseNewQueue("queue", L, v)
    BY <2>1 DEF LegalQueue, NewQueue
  <2>3. /\ DOMAIN b = {"type", "length", "n", "rx", "tx", "buf", "w", "r", "holder", "rec"}
        /\ b.type = "queue" /\ b.length = L /\ b.n = 0 /\ b.r = L - 1 /\ b.w = 0
        /\ b.buf = [i \in 0 .. L - 1 |-> v]
    BY <2>2 DEF prvInitialiseNewQueue
  <2>4. Rem((L - 1) + 1 + 0, L) = 0
    BY Wraps
  <2> QED
    BY <2>3, <2>4 DEF RingOK, Rem
<1> QED
  BY <1>1, <1>2 DEF RingInv

LEMMA QueueInvNext == QueueInv /\ [Next]_vars => QueueInv' /\ RingMoves
<1> SUFFICES ASSUME QueueInv, [Next]_vars PROVE QueueInv' /\ RingMoves
  OBVIOUS
<1>1. program' \in Program /\ InScript' /\ RingMoves
  BY ScriptStep, NextMoves DEF QueueInv
<1>2. program' = program
  BY DEF Next, vars, xPortSysTickHandler, xPortPendSVHandler, Interrupt, QueueCall, ControlCall,
         GroupCall, StreamCall, TimerCall, IdleLoop
<1>3. RingInv'
  BY <1>1, <1>2 DEF QueueInv, RingInv, RingMoves, Moves
<1> QED
  BY <1>1, <1>3 DEF QueueInv

\* The storage of the queue "q" stays a ring in every application: the place
\* to write is behind the items, the count within the length (queue.c,
\* prvCopyDataToQueue, prvCopyDataFromQueue, xQueueGenericReset).
THEOREM RingInvariant == Spec => []RingInv
<1>1. QueueInv /\ UNCHANGED vars => QueueInv'
  BY QueueInvNext
<1>2. QueueInv => RingInv
  BY DEF QueueInv
<1> QED
  BY <1>1, <1>2, QueueInvInit, QueueInvNext, PTL DEF Spec

\* The queue of queue.c implements the queue that queue.h promises, for every
\* number of tasks and interrupts, every script, length and set of items.
THEOREM RingRefines == Spec => RingImplementsQueue
<1>1. Init => Ring!Init
  <2> SUFFICES ASSUME Init, "q" \in DOMAIN q PROVE Contents(q["q"]) = <<>> /\ q["q"].length \in Nat
    BY DEF Ring!Init
  <2>1. RingOK(q["q"])
    BY QueueInvInit DEF QueueInv, RingInv
  <2>2. q["q"].n = 0
    <3>1. LegalQueue(q["q"])
      BY AppAssumption DEF Init, QueueInit, CallInit
    <3> QED
      BY <3>1 DEF LegalQueue, NewQueue, prvInitialiseNewQueue
  <2>3. Contents(q["q"]) \in Seq(Item) /\ Len(Contents(q["q"])) = 0
    BY <2>1, <2>2, ContentsSeq
  <2> QED
    BY <2>1, <2>3, RingFacts
<1>2. QueueInv /\ RingMoves => [Ring!Next]_(Ring!vars)
  <2> SUFFICES ASSUME QueueInv, RingMoves, "q" \in DOMAIN q PROVE [Ring!Next]_(Ring!vars)
    BY DEF RingMoves, Ring!vars
  <2> DEFINE b == q["q"]  c == q'["q"]
  <2>1. RingOK(b) /\ RingOK(c) /\ c.length = b.length /\ Operation(b, c)
    BY DEF QueueInv, RingInv, RingMoves, Moves
  <2>2. "q" \in DOMAIN q'
    BY DEF RingMoves
  <2>3. Len(Contents(b)) = b.n
    BY <2>1, ContentsSeq
  <2>4. Contents(c) \in Seq(Item)
    BY <2>1, ContentsSeq
  <2> QED
    BY <2>1, <2>2, <2>3, <2>4
       DEF Operation, Ring!Next, Ring!vars, Ring!SendToBack, Ring!SendToFront, Ring!Overwrite,
           Ring!Take, Ring!Reset
<1>3. QueueInv /\ UNCHANGED vars => QueueInv'
  BY QueueInvNext
<1> QED
  BY <1>1, <1>2, <1>3, QueueInvInit, QueueInvNext, PTL DEF Spec, RingImplementsQueue, Ring!Spec

----------------------------------------------------------------------------
(* Mutexes                                                                  *)

\* A mutex that can be taken has no holder.
MutexOK(b) ==
    /\ {"type", "length", "n", "rx", "tx", "holder", "rec"} \subseteq DOMAIN b
    /\ b.type = "mutex" /\ b.length = 1 /\ b.n \in {0, 1}
    /\ b.holder \in Task \cup {NULL}
    /\ b.n = 1 => b.holder = NULL

MutexInv == \A x \in Mutexes(program) : x \in DOMAIN q /\ MutexOK(q[x])

\* What a step by t may do to the mutex b.
Changes(t, b, c) ==
    /\ MutexOK(c)
    /\ \/ c.holder = b.holder
       \/ b.holder = NULL /\ c.holder = t
       \/ b.holder # NULL /\ c.holder = NULL

\* The kernel has stopped at a configASSERT.
Stuck(k0) == "halted" \in DOMAIN k0 /\ k0.halted

\* One step changes one mutex, which is let go by the running task.
MutexStep ==
    \/ \A x \in Mutexes(program) : x \in DOMAIN q' /\ MutexOK(q'[x]) /\ q'[x].holder = q[x].holder
    \/ \E t \in Task, y \in Mutexes(program) : \E c :
          /\ k.cur = t /\ q' = [q EXCEPT ![y] = c] /\ Changes(t, q[y], c)
          /\ ("halted" \in DOMAIN k /\ q[y].holder # NULL /\ c.holder # q[y].holder /\ k.cur # q[y].holder) => Stuck(k')

----------------------------------------------------------------------------
(* A configASSERT that fails is not forgotten                               *)

LEMMA StuckLists ==
    ASSUME NEW k0, Stuck(k0), NEW t, NEW p
    PROVE  Stuck(RemoveState(k0, t)) /\ Stuck(RemoveEvent(k0, t))
           /\ Stuck(prvAddTaskToReadyList(k0, t)) /\ Stuck(taskRESET_READY_PRIORITY(k0, p))
  BY DEF Stuck, RemoveState, RemoveEvent, prvAddTaskToReadyList, taskRESET_READY_PRIORITY

LEMMA StuckWaken ==
    ASSUME NEW k0, Stuck(k0), NEW t
    PROVE  Stuck(Waken(k0, t))
<1>1. Stuck(MakeReady(k0, t))
  BY StuckLists DEF MakeReady
<1>2. Stuck([RemoveEvent(k0, t) EXCEPT !.events[Pending] = Append(@, t)])
  BY StuckLists DEF Stuck
<1> QED
  BY <1>1, <1>2 DEF Waken

LEMMA StuckWake ==
    ASSUME NEW k0, Stuck(k0), NEW l, NEW condition \in BOOLEAN
    PROVE  Stuck(WakeOrYield(k0, l, condition))
<1>1. \A k1, b : Stuck(k1) => Stuck(YieldIf(k1, b))
  BY DEF Stuck, YieldIf, portYIELD_WITHIN_API
<1>2. Stuck(WakeOne(k0, l))
  BY StuckWaken DEF WakeOne, xTaskRemoveFromEventList, Stuck
<1> QED
  BY <1>1, <1>2 DEF WakeOrYield, WakeAndYield

LEMMA StuckDisinherit ==
    ASSUME NEW k0, "halted" \in DOMAIN k0, NEW m, m # NULL, m # k0.cur
    PROVE  Stuck(xTaskPriorityDisinherit(k0, m))
<1> DEFINE out == [configASSERT(k0, m = NULL \/ (m = k0.cur /\ k0.held[m] > 0)) EXCEPT !.held[m] = @ - 1]
           gone == taskRESET_READY_PRIORITY(RemoveState(out, m), k0.prio[m])
           set == [gone EXCEPT !.prio[m] = k0.base[m], !.key[m] = configMAX_PRIORITIES - k0.base[m]]
<1>1. Stuck(out)
  BY DEF Stuck, configASSERT
<1>2. xTaskPriorityDisinherit(k0, m) = out \/ xTaskPriorityDisinherit(k0, m) = prvAddTaskToReadyList(set, m)
  BY DEF xTaskPriorityDisinherit
<1> HIDE DEF out
<1>3. Stuck(gone)
  BY <1>1, StuckLists
<1> HIDE DEF gone
<1>4. Stuck(set)
  BY <1>3 DEF Stuck
<1> HIDE DEF set
<1> QED
  BY <1>1, <1>2, <1>4, StuckLists

----------------------------------------------------------------------------
(* The steps                                                                *)

LEMMA OtherMutexStep ==
    ASSUME MutexInv, UNCHANGED q \/ \E x, b : x \notin Mutexes(program) /\ q' = [q EXCEPT ![x] = b]
    PROVE  MutexStep
  BY DEF MutexInv, MutexStep

LEMMA FieldMutexStep ==
    ASSUME MutexInv, NEW x, NEW b, q' = [q EXCEPT ![x] = b],
           x \in Mutexes(program) => MutexOK(b) /\ b.holder = q[x].holder
    PROVE  MutexStep
  BY DEF MutexInv, MutexStep

\* To give a mutex clears its holder; when that is not the running task the
\* kernel stops.
LEMMA GiveMutex ==
    ASSUME NEW b, MutexOK(b), b.n # 1, NEW x, NEW v, NEW position
    PROVE  LET done == Sent(k, b, x, v, position)
           IN  /\ MutexOK(done.b) /\ done.b.holder = NULL
               /\ "halted" \in DOMAIN k /\ b.holder # NULL /\ k.cur # b.holder => Stuck(done.k)
<1>1. Sent(k, b, x, v, position).b = [b EXCEPT !.n = @ + 1, !.holder = NULL]
  BY DEF Sent, prvCopyDataToQueue, MutexOK
<1>2. ASSUME "halted" \in DOMAIN k, b.holder # NULL, k.cur # b.holder
      PROVE  Stuck(Sent(k, b, x, v, position).k)
  <2>1. Stuck(xTaskPriorityDisinherit(k, b.holder))
    BY <1>2, StuckDisinherit
  <2>2. Sent(k, b, x, v, position).k
          = WakeOrYield(xTaskPriorityDisinherit(k, b.holder), Receiving(x), Restores(k, b.holder))
    BY DEF Sent, MutexOK
  <2>3. Restores(k, b.holder) \in BOOLEAN
    BY DEF Restores
  <2> QED
    BY <2>1, <2>2, <2>3, StuckWake
<1> QED
  BY <1>1, <1>2 DEF MutexOK

LEMMA TakeMutex ==
    ASSUME NEW b, MutexOK(b), b.n # 0, NEW x, k.cur \in Task
    PROVE  LET done == Received(k, b, x)
           IN  MutexOK(done.b) /\ done.b.holder = k.cur /\ b.holder = NULL
<1>1. Received(k, b, x).b = [b EXCEPT !.n = @ - 1, !.holder = k.cur]
  BY DEF Received, prvCopyDataFromQueue, MutexOK
<1> QED
  BY <1>1 DEF MutexOK

LEMMA TryMutex ==
    ASSUME MutexInv, program \in Program, InScript, NEW t \in Task, TryQueue(t)
    PROVE  MutexStep
<1>1. CASE UNCHANGED q
  BY <1>1, OtherMutexStep
<1>2. CASE Able(t) /\ Becomes(X(t), Count(t, Success(t))) /\ X(t) \in Mutexes(program)
  <2> DEFINE x == X(t)
             done == Success(t)
             c == Count(t, done).b
  <2>1. MutexOK(q[x]) /\ x \in DOMAIN q
    BY <1>2 DEF MutexInv
  <2>2. k.cur = t
    BY DEF TryQueue, Runs
  <2>3. q' = [q EXCEPT ![x] = c] /\ k' = done.k
    BY <1>2 DEF Becomes, Count, Success, Sent, Peeked, Received
  <2>4. LegalCall(program, Now(t)) /\ x = Now(t).x
    BY NowIsLegal DEF X
  <2>5. CASE Now(t).op \in SendOp
    <3>1. done = Sent(k, q[x], x, ItemOf(t), Now(t).position)
      BY <2>4, <2>5 DEF Success, SendOp
    <3>2. q[x].n # 1
      <4>1. App[program].queues[x].type = "mutex"
        BY <1>2 DEF Mutexes
      <4>2. Now(t).position # "queueOVERWRITE"
        BY <2>4, <2>5, <4>1 DEF LegalCall, Overwritten
      <4> QED
        BY <1>2, <2>1, <2>5, <4>2 DEF Able, prvIsQueueFull, MutexOK
    <3>3. c = done.b
      BY <2>5 DEF Count, SendOp
    <3>4. /\ MutexOK(c) /\ c.holder = NULL
          /\ "halted" \in DOMAIN k /\ q[x].holder # NULL /\ k.cur # q[x].holder => Stuck(done.k)
      BY <2>1, <3>1, <3>2, <3>3, GiveMutex
    <3> HIDE DEF c, done, x
    <3> QED
      BY <1>2, <2>2, <2>3, <3>4 DEF MutexStep, Changes, x
  <2>6. CASE Now(t).op = "xQueuePeek"
    <3>1. c = q[x]
      BY <2>4, <2>6 DEF Count, Success, SendOp, Peeked
    <3> QED
      BY <2>1, <2>3, <3>1, FieldMutexStep
  <2>7. CASE Now(t).op \notin SendOp /\ Now(t).op # "xQueuePeek"
    <3>1. done = Received(k, q[x], x)
      BY <2>4, <2>7 DEF Success
    <3>2. q[x].n # 0
      BY <1>2, <2>7 DEF Able, prvIsQueueEmpty
    <3>3. MutexOK(done.b) /\ done.b.holder = t /\ q[x].holder = NULL
      BY <2>1, <2>2, <3>1, <3>2, TakeMutex
    <3>4. c = done.b \/ c = [done.b EXCEPT !.rec = @ + 1]
      BY <3>1 DEF Count, Received
    <3>5. MutexOK(c) /\ c.holder = t
      BY <3>3, <3>4 DEF MutexOK
    <3> HIDE DEF c, done, x
    <3> QED
      BY <1>2, <2>2, <2>3, <3>3, <3>5 DEF MutexStep, Changes, x
  <2> QED
    BY <2>5, <2>6, <2>7
<1>3. CASE Becomes(X(t), Count(t, Success(t))) /\ X(t) \notin Mutexes(program)
  BY <1>3, OtherMutexStep DEF Becomes
<1> QED
  BY <1>1, <1>2, <1>3 DEF TryQueue

LEMMA QueueMutexStep ==
    ASSUME MutexInv, program \in Program, InScript, NEW t \in Task, QueueStep(t)
    PROVE  MutexStep
<1> DEFINE x == X(t)
           b == q[x]
<1>1. LegalCall(program, Now(t))
  BY NowIsLegal
<1>2. x \in Mutexes(program) => MutexOK(b) /\ x \in DOMAIN q
  BY DEF MutexInv
<1>3. CASE TakeAgain(t)
  <2>1. q' = [q EXCEPT ![x] = [b EXCEPT !.rec = @ + 1]]
    BY <1>3 DEF TakeAgain
  <2>2. MutexOK(b) => MutexOK([b EXCEPT !.rec = @ + 1]) /\ [b EXCEPT !.rec = @ + 1].holder = b.holder
    BY DEF MutexOK
  <2> QED
    BY <1>2, <2>1, <2>2, FieldMutexStep
<1>4. CASE TryQueue(t)
  BY <1>4, TryMutex
<1>5. CASE LockQueue(t)
  <2>1. q' = [q EXCEPT ![x] = prvLockQueue(b)]
    BY <1>5 DEF LockQueue
  <2>2. MutexOK(b) => MutexOK(prvLockQueue(b)) /\ prvLockQueue(b).holder = b.holder
    BY DEF MutexOK, prvLockQueue
  <2> QED
    BY <1>2, <2>1, <2>2, FieldMutexStep
<1>6. CASE UnlockTx(t)
  <2>1. q' = [q EXCEPT ![x] = [b EXCEPT !.tx = queueUNLOCKED]]
    BY <1>6 DEF UnlockTx
  <2>2. MutexOK(b) => MutexOK([b EXCEPT !.tx = queueUNLOCKED]) /\ [b EXCEPT !.tx = queueUNLOCKED].holder = b.holder
    BY DEF MutexOK
  <2> QED
    BY <1>2, <2>1, <2>2, FieldMutexStep
<1>7. CASE UnlockRx(t)
  <2>1. q' = [q EXCEPT ![x] = [b EXCEPT !.rx = queueUNLOCKED]]
    BY <1>7 DEF UnlockRx
  <2>2. MutexOK(b) => MutexOK([b EXCEPT !.rx = queueUNLOCKED]) /\ [b EXCEPT !.rx = queueUNLOCKED].holder = b.holder
    BY DEF MutexOK
  <2> QED
    BY <1>2, <2>1, <2>2, FieldMutexStep
<1>8. CASE xQueueGiveMutexRecursive(t)
  <2> DEFINE c == [b EXCEPT !.rec = @ - 1]
             done == IF c.rec = 0 THEN Sent(k, c, x, NULL, "queueSEND_TO_BACK") ELSE [k |-> k, b |-> c]
  <2>1. UNCHANGED q \/ (b.holder = t /\ q' = [q EXCEPT ![x] = done.b])
    BY <1>8 DEF xQueueGiveMutexRecursive, Becomes
  <2>2. k.cur = t
    BY <1>8 DEF xQueueGiveMutexRecursive, Calls, Runs
  <2>3. CASE b.holder = t /\ q' = [q EXCEPT ![x] = done.b] /\ x \in Mutexes(program)
    <3>1. MutexOK(c) /\ c.holder = b.holder /\ c.n = b.n
      BY <1>2, <2>3 DEF MutexOK
    <3>2. CASE c.rec # 0
      BY <2>3, <3>1, <3>2, FieldMutexStep
    <3>3. CASE c.rec = 0
      <4>1. b.holder # NULL /\ c.n # 1
        BY <2>3, <3>1, NullAssumption DEF MutexOK
      <4>2. done = Sent(k, c, x, NULL, "queueSEND_TO_BACK")
        BY <3>3
      <4> HIDE DEF done, c, x
      <4>3. MutexOK(done.b) /\ done.b.holder = NULL
        BY <3>1, <4>1, <4>2, GiveMutex
      <4> QED
        BY <2>2, <2>3, <4>1, <4>3 DEF MutexStep, Changes
    <3> QED
      BY <3>2, <3>3
  <2>4. CASE q' = [q EXCEPT ![x] = done.b] /\ x \notin Mutexes(program)
    BY <2>4, OtherMutexStep
  <2>5. CASE UNCHANGED q
    BY <2>5, OtherMutexStep
  <2> QED
    BY <2>1, <2>3, <2>4, <2>5
<1>9. CASE ResetQueue(t)
  <2>1. x \notin Mutexes(program)
    BY <1>1, <1>9 DEF ResetQueue, Calls, LegalCall, X
  <2> QED
    BY <1>9, <2>1, OtherMutexStep DEF ResetQueue, Becomes
<1>10. CASE UNCHANGED q
  BY <1>10, OtherMutexStep
<1> QED
  BY <1>3, <1>4, <1>5, <1>6, <1>7, <1>8, <1>9, <1>10
     DEF QueueStep, ReadCommandTime, SuspendForQueue, BlockOnQueue, ResumeFromQueue, LateForQueue,
         DisinheritLate

LEMMA NextMutexStep ==
    ASSUME MutexInv, program \in Program, InScript, [Next]_vars
    PROVE  MutexStep
<1>1. TimerQueue \notin Mutexes(program)
  <2>1. ASSUME NEW b, NewQueue(b) PROVE b.type = "queue"
    BY <2>1 DEF NewQueue, prvInitialiseNewQueue
  <2>2. TimerQueue \in DOMAIN App[program].queues => NewQueue(App[program].queues[TimerQueue])
    BY AppAssumption
  <2> QED
    BY <2>1, <2>2 DEF Mutexes
<1>2. CASE UNCHANGED q
  BY <1>2, OtherMutexStep
<1>3. CASE \E t \in Task : QueueStep(t)
  BY <1>3, QueueMutexStep
<1>4. CASE \E t \in Task : TimerStep(t)
  <2>1. UNCHANGED q \/ \E b : q' = [q EXCEPT ![TimerQueue] = b]
    BY <1>4 DEF TimerStep, ExpireOrBlock, ResumeDaemon, prvProcessExpiredTimer, ReceiveCommand,
                ProcessCommand, Execute, Adopt, Fetch
  <2> QED
    BY <1>1, <2>1, OtherMutexStep
<1>5. CASE Interrupt
  <2>1. PICK c \in App[program].handlers : Handler(c)
    BY <1>5 DEF Interrupt
  <2>2. LegalCall(program, c) \/ c.op = "xTimerGenericCommand"
    BY AppAssumption DEF LegalHandler
  <2>3. CASE c.op \in {"xQueueGenericSendFromISR", "xQueueReceiveFromISR"}
    <3>1. c.x \notin Mutexes(program)
      BY <2>2, <2>3 DEF LegalCall
    <3>2. \E b : q' = [q EXCEPT ![c.x] = b]
      BY <2>1, <2>3 DEF Handler, SendFromISR, ReceiveFromISR, Becomes
    <3> QED
      BY <3>1, <3>2, OtherMutexStep
  <2>4. CASE c.op \notin {"xQueueGenericSendFromISR", "xQueueReceiveFromISR"}
    <3>1. UNCHANGED q \/ \E b : q' = [q EXCEPT ![TimerQueue] = b]
      BY <2>1, <2>4
         DEF Handler, SendFromISR, Becomes, ResumeFromISR, NotifyFromISR, StreamSendFromISR, StreamReceiveFromISR
    <3> QED
      BY <1>1, <3>1, OtherMutexStep
  <2> QED
    BY <2>3, <2>4
<1> QED
  BY <1>2, <1>3, <1>4, <1>5
     DEF Next, vars, xPortSysTickHandler, xPortPendSVHandler, QueueCall, ControlCall, GroupCall,
         StreamCall, TimerCall, IdleLoop

----------------------------------------------------------------------------
(* The theorems                                                             *)

LockInv == program \in Program /\ InScript /\ MutexInv

LEMMA LockInvInit == Init => LockInv
<1> SUFFICES ASSUME Init PROVE MutexInv
  BY ScriptInit DEF LockInv
<1> SUFFICES ASSUME NEW x \in Mutexes(program) PROVE x \in DOMAIN q /\ MutexOK(q[x])
  BY DEF MutexInv
<1>1. q = App[program].queues /\ program \in Program
  BY DEF Init, QueueInit, CallInit
<1>2. LegalMutex(q[x])
  BY <1>1, AppAssumption
<1> QED
  BY <1>1, <1>2 DEF Mutexes, LegalMutex, prvInitialiseMutex, prvInitialiseNewQueue, MutexOK

LEMMA LockInvNext == LockInv /\ [Next]_vars => LockInv' /\ UNCHANGED program /\ MutexStep
<1> SUFFICES ASSUME LockInv, [Next]_vars PROVE LockInv' /\ UNCHANGED program /\ MutexStep
  OBVIOUS
<1>1. program' \in Program /\ InScript' /\ MutexStep
  BY ScriptStep, NextMutexStep DEF LockInv
<1>2. program' = program
  BY DEF Next, vars, xPortSysTickHandler, xPortPendSVHandler, Interrupt, QueueCall, ControlCall,
         GroupCall, StreamCall, TimerCall, IdleLoop
<1>3. MutexInv'
  <2>1. CASE \A x \in Mutexes(program) : x \in DOMAIN q' /\ MutexOK(q'[x])
    BY <1>2, <2>1 DEF MutexInv
  <2>2. CASE \E t \in Task, y \in Mutexes(program) : \E c : q' = [q EXCEPT ![y] = c] /\ Changes(t, q[y], c)
    BY <1>2, <2>2 DEF MutexInv, LockInv, Changes
  <2> QED
    BY <1>1, <2>1, <2>2 DEF MutexStep
<1> QED
  BY <1>1, <1>2, <1>3 DEF LockInv

LEMMA LockInvStutters == LockInv /\ UNCHANGED vars => LockInv'
  BY LockInvNext

LEMMA LockRefines ==
    ASSUME LockInv, UNCHANGED program, MutexStep
    PROVE  [MutexLock!Next]_([x \in Object |-> IF x \in Mutexes(program) THEN q[x].holder ELSE NULL])
<1> DEFINE before == [x \in Object |-> IF x \in Mutexes(program) THEN q[x].holder ELSE NULL]
           after  == [x \in Object |-> IF x \in Mutexes(program) THEN q'[x].holder ELSE NULL]
<1>1. CASE \A x \in Mutexes(program) : q'[x].holder = q[x].holder
  BY <1>1
<1>2. ASSUME NEW t \in Task, NEW y \in Mutexes(program), NEW c,
             q' = [q EXCEPT ![y] = c], Changes(t, q[y], c)
      PROVE  MutexLock!Next \/ after = before
  <2>1. y \in DOMAIN q /\ MutexOK(q[y])
    BY DEF LockInv, MutexInv
  <2>2. q'[y] = c /\ \A x \in Mutexes(program) : x # y => q'[x] = q[x]
    BY <1>2, <2>1 DEF LockInv, MutexInv
  <2>3. after = IF y \in Object THEN [before EXCEPT ![y] = c.holder] ELSE before
    BY <2>2
  <2>4. y \in Object => before[y] = q[y].holder
    OBVIOUS
  <2>5. CASE c.holder = q[y].holder \/ y \notin Object
    BY <2>3, <2>4, <2>5
  <2>6. CASE q[y].holder = NULL /\ c.holder = t /\ y \in Object
    BY <2>3, <2>4, <2>6 DEF MutexLock!Next, MutexLock!Acquire
  <2>7. CASE q[y].holder # NULL /\ c.holder = NULL /\ y \in Object
    <3>1. q[y].holder \in Task
      BY <2>1, <2>7 DEF MutexOK
    <3> QED
      BY <2>3, <2>4, <2>7, <3>1 DEF MutexLock!Next, MutexLock!Release
  <2> QED
    BY <1>2, <2>5, <2>6, <2>7 DEF Changes
<1> QED
  BY <1>1, <1>2 DEF MutexStep

\* A mutex is granted only while nobody holds it, and it is held by one task
\* until it is let go, whoever blocks, gives up or inherits meanwhile.
THEOREM MutexExcludes == Spec => MutexLock!Spec
<1>1. Init => MutexLock!Init
  <2> SUFFICES ASSUME Init, NEW x \in Mutexes(program) PROVE q[x].holder = NULL
    BY DEF MutexLock!Init
  <2>1. LegalMutex(q[x])
    BY AppAssumption DEF Init, QueueInit, CallInit
  <2> QED
    BY <2>1 DEF LegalMutex, prvInitialiseMutex, prvInitialiseNewQueue
<1> QED
  BY <1>1, LockInvInit, LockInvNext, LockInvStutters, LockRefines, PTL DEF Spec, MutexLock!Spec

\* The kernel runs: no configASSERT has failed.
KernelRuns == "halted" \in DOMAIN k /\ NoHalt

\* As long as no configASSERT fails, only its holder lets a mutex go.
THEOREM MutexOwned == Spec /\ []KernelRuns => MutexIsLock
<1>1. LockInv /\ MutexStep /\ UNCHANGED program /\ KernelRuns /\ KernelRuns' => [LetGoByHolder]_vars
  <2> SUFFICES ASSUME MutexStep, KernelRuns, KernelRuns', LockInv, UNCHANGED program PROVE LetGoByHolder
    OBVIOUS
  <2>1. "halted" \in DOMAIN k /\ ~Stuck(k')
    BY DEF KernelRuns, NoHalt, Stuck
  <2> QED
    BY <2>1 DEF MutexStep, LetGoByHolder, LockInv, MutexInv
<1> QED
  BY <1>1, MutexExcludes, LockInvInit, LockInvNext, LockInvStutters, PTL DEF Spec, MutexIsLock

-----------------------------------------------------------------------------
(* Time.  It is exact though the tick count wraps: for every width of        *)
(* TickType_t, every time of start and every time between two calls of up   *)
(* to a whole turn of the count.                                            *)

\* A remainder under a name of its own, for facts about all of them.
Turn(a) == a % Ticks

LEMMA Turns ==
    ASSUME NEW a \in (-Ticks) .. (Ticks + Ticks - 1)
    PROVE  Turn(a) = IF a < 0 THEN a + Ticks ELSE IF a < Ticks THEN a ELSE a - Ticks
<1> USE TicksAssumption DEF Turn
<1>1. CASE a < 0
  BY <1>1
<1>2. CASE 0 <= a /\ a < Ticks
  BY <1>2
<1>3. CASE a >= Ticks
  BY <1>3
<1> QED
  BY <1>1, <1>2, <1>3

----------------------------------------------------------------------------
(* Timeouts                                                                 *)

\* The kernel k0 counts d ticks more than when the TimeOut_t was set.
TicksAfter(k0, since, d) ==
    /\ since.tick \in 0 .. Ticks - 1 /\ since.overflows \in 0 .. Overflows - 1
    /\ k0.tick = Turn(since.tick + d)
    /\ k0.overflows = (since.overflows + (IF since.tick + d < Ticks THEN 0 ELSE 1)) % Overflows

Clock(k0) ==
    /\ DOMAIN k0 = DOMAIN NoKernel
    /\ k0.tick \in 0 .. Ticks - 1 /\ k0.overflows \in 0 .. Overflows - 1

LEMMA TimeOutSet ==
    ASSUME NEW k0, Clock(k0)
    PROVE  TicksAfter(k0, vTaskInternalSetTimeOutState(k0), 0)
<1>1. Turn(k0.tick + 0) = k0.tick
  BY Turns, TicksAssumption DEF Clock
<1> QED
  BY <1>1, TicksAssumption DEF TicksAfter, Clock, vTaskInternalSetTimeOutState

\* A tick of xTaskIncrementTick, which may swap the lists of the sleeping.
LEMMA TickCounts ==
    ASSUME NEW k0, Clock(k0), NEW since, NEW d \in 0 .. Ticks - 1, TicksAfter(k0, since, d)
    PROVE  TicksAfter(Advance(k0), since, d + 1)
<1>1. CASE k0.tick = Ticks - 1
  <2>1. Advance(k0).tick = 0 /\ Advance(k0).overflows = (k0.overflows + 1) % Overflows
    BY <1>1 DEF Advance, taskSWITCH_DELAYED_LISTS, prvResetNextTaskUnblockTime, configASSERT, Clock, NoKernel
  <2>2. since.tick + d = Ticks - 1 \/ since.tick + d = Ticks + Ticks - 1
    BY <1>1, Turns, TicksAssumption DEF TicksAfter
  <2>3. since.tick + d = Ticks - 1
    BY <2>2, TicksAssumption DEF TicksAfter
  <2>4. Turn(since.tick + (d + 1)) = 0
    <3>1. since.tick + (d + 1) = Ticks
      BY <2>3, TicksAssumption DEF TicksAfter
    <3> QED
      BY <3>1, Turns, TicksAssumption
  <2> QED
    BY <2>1, <2>3, <2>4, TicksAssumption DEF TicksAfter
<1>2. CASE k0.tick # Ticks - 1
  <2>1. Advance(k0).tick = k0.tick + 1 /\ Advance(k0).overflows = k0.overflows
    BY <1>2 DEF Advance, Clock, NoKernel
  <2>2. Turn(since.tick + (d + 1)) = k0.tick + 1
    BY <1>2, Turns, TicksAssumption DEF TicksAfter
  <2>3. since.tick + d < Ticks <=> since.tick + (d + 1) < Ticks
    BY <1>2, Turns, TicksAssumption DEF TicksAfter
  <2> QED
    BY <2>1, <2>2, <2>3 DEF TicksAfter
<1> QED
  BY <1>1, <1>2

\* xTaskCheckForTimeOut reports a timeout exactly when the time is over, and
\* else takes off what has passed and starts anew from now; the time between
\* two of its calls may be a whole turn of the tick count, no more.
THEOREM TimeOutExact ==
    ASSUME NEW k0, Clock(k0), NEW since, NEW d \in 0 .. Ticks, TicksAfter(k0, since, d),
           NEW left \in 0 .. portMAX_DELAY - 1
    PROVE  LET check == xTaskCheckForTimeOut(k0, since, left)
           IN  /\ check.out <=> d >= left
               /\ ~check.out => /\ check.left = left - d
                                /\ TicksAfter(k0, check.since, 0)
<1> DEFINE check == xTaskCheckForTimeOut(k0, since, left)
           elapsed == Turn(k0.tick - since.tick)
           wrapped == k0.overflows # since.overflows /\ k0.tick >= since.tick
<1>1. left # portMAX_DELAY /\ left \in Nat /\ left < Ticks
  BY TicksAssumption DEF portMAX_DELAY
<1>2. elapsed = IF d = Ticks THEN 0 ELSE d
  BY Turns, TicksAssumption DEF TicksAfter
<1>3. k0.overflows = since.overflows <=> since.tick + d < Ticks
  <2>1. \A o \in 0 .. Overflows - 1 : (o + 0) % Overflows = o
    BY TicksAssumption
  <2>2. ASSUME NEW o \in 0 .. Overflows - 1 PROVE (o + 1) % Overflows # o
    <3>1. CASE o + 1 < Overflows
      BY <3>1, TicksAssumption
    <3>2. CASE o + 1 = Overflows
      <4>1. Overflows % Overflows = 0
        BY TicksAssumption
      <4> QED
        BY <3>2, <4>1, TicksAssumption
    <3> QED
      BY <3>1, <3>2, TicksAssumption
  <2> QED
    BY <2>1, <2>2, TicksAssumption DEF TicksAfter
<1>4. wrapped <=> d = Ticks
  BY <1>3, Turns, TicksAssumption DEF TicksAfter
<1>5. check.out <=> wrapped \/ elapsed >= left
  BY <1>1, <1>2 DEF xTaskCheckForTimeOut, Turn
<1>6. ~check.out => check.left = left - elapsed /\ check.since = vTaskInternalSetTimeOutState(k0)
  BY <1>1, <1>2 DEF xTaskCheckForTimeOut, Turn
<1> HIDE DEF check, elapsed, wrapped
<1>7. check.out <=> d >= left
  BY <1>1, <1>2, <1>4, <1>5, TicksAssumption
<1>8. ~check.out => check.left = left - d
  BY <1>1, <1>2, <1>4, <1>5, <1>6, TicksAssumption
<1> QED
  BY <1>6, <1>7, <1>8, TimeOutSet DEF check

\* vTaskDelayUntil sleeps exactly when its wake time has not passed, and for
\* the time that is left, d ticks after the wake time before it.
THEOREM DelayUntilExact ==
    ASSUME NEW last \in 0 .. Ticks - 1, NEW period \in 1 .. Ticks - 1, NEW d \in 0 .. Ticks - 1
    PROVE  LET wake == (last + period) % Ticks
               tick == (last + d) % Ticks
           IN  /\ ShouldDelay(last, wake, tick) <=> d < period
               /\ d < period => (wake - tick) % Ticks = period - d
<1> DEFINE wake == Turn(last + period)
           tick == Turn(last + d)
<1>1. wake = IF last + period < Ticks THEN last + period ELSE last + period - Ticks
  BY Turns, TicksAssumption
<1>2. tick = IF last + d < Ticks THEN last + d ELSE last + d - Ticks
  BY Turns, TicksAssumption
<1> HIDE DEF wake, tick
<1>3. ShouldDelay(last, wake, tick) <=> d < period
  BY <1>1, <1>2, TicksAssumption DEF ShouldDelay
<1>4. d < period => Turn(wake - tick) = period - d
  BY <1>1, <1>2, Turns, TicksAssumption
<1> QED
  BY <1>3, <1>4 DEF Turn, wake, tick

----------------------------------------------------------------------------
(* Timers                                                                   *)

\* prvInsertTimerInActiveList, d ticks after the command: the timer is late
\* exactly when its period is over; else it is put in the list of those that
\* expire after the wrap exactly when it does.
THEOREM TimerInRightList ==
    ASSUME NEW m, NEW x, NEW command \in 0 .. Ticks - 1, NEW d \in 0 .. Ticks - 1,
           DOMAIN m = DOMAIN prvInitialiseNewTimers(<<>>, {}),
           m.period[x] \in 1 .. Ticks - 1
    PROVE  LET now    == (command + d) % Ticks
               expiry == (command + m.period[x]) % Ticks
               wraps  == (command + d < Ticks) # (command + m.period[x] < Ticks)
               done   == prvInsertTimerInActiveList(m, x, expiry, now, command)
           IN  /\ done.late <=> d >= m.period[x]
               /\ ~done.late /\ wraps  => done.m.current = m.current
               /\ ~done.late /\ ~wraps => done.m.overflow = m.overflow
<1> DEFINE n == m.period[x]
           now == Turn(command + d)
           expiry == Turn(command + n)
           late == IF expiry <= now THEN Turn(now - command) >= n
                   ELSE now < command /\ expiry >= command
           wraps == (command + d < Ticks) # (command + n < Ticks)
           done == prvInsertTimerInActiveList(m, x, expiry, now, command)
<1>1. n \in 1 .. Ticks - 1
  OBVIOUS
<1>2. done.late = late
  BY DEF prvInsertTimerInActiveList, Since, Turn
<1>3. ~late => IF expiry <= now THEN done.m.current = m.current ELSE done.m.overflow = m.overflow
  BY DEF prvInsertTimerInActiveList, Since, Turn, prvInitialiseNewTimers
<1> HIDE DEF n, done
<1>4. now = IF command + d < Ticks THEN command + d ELSE command + d - Ticks
  BY Turns, TicksAssumption
<1>5. expiry = IF command + n < Ticks THEN command + n ELSE command + n - Ticks
  BY <1>1, Turns, TicksAssumption
<1> HIDE DEF now, expiry
<1>6. Turn(now - command) = d
  BY <1>4, Turns, TicksAssumption
<1>7. late <=> d >= n
  BY <1>1, <1>4, <1>5, <1>6, TicksAssumption
<1>8. ~late => (expiry <= now <=> wraps)
  BY <1>1, <1>4, <1>5, <1>7, TicksAssumption
<1> HIDE DEF late, wraps
<1> QED
  BY <1>2, <1>3, <1>7, <1>8 DEF n, now, expiry, wraps, done, Turn

-----------------------------------------------------------------------------
(* The ring of a stream buffer.  It keeps its bytes in order, for every      *)
(* length, position and number of bytes written or read at once.            *)

\* One slot always stays free: head = tail means empty.
StreamOK(b) ==
    /\ {"length", "head", "tail", "buf"} \subseteq DOMAIN b
    /\ b.length \in Nat \ {0} /\ b.head \in 0 .. b.length - 1 /\ b.tail \in 0 .. b.length - 1
    /\ DOMAIN b.buf = 0 .. b.length - 1

Slot(a, L) == a % L

LEMMA Slots ==
    ASSUME NEW L \in Nat \ {0}, NEW a \in 0 .. L + L - 1
    PROVE  Slot(a, L) = IF a < L THEN a ELSE a - L
<1>1. CASE a < L
  BY <1>1 DEF Slot
<1>2. CASE a >= L
  BY <1>2 DEF Slot
<1> QED
  BY <1>1, <1>2

\* What is not free is in use, but for the slot that tells full from empty.
THEOREM SpaceAndBytes ==
    ASSUME NEW b, StreamOK(b)
    PROVE  /\ prvBytesInBuffer(b) \in 0 .. b.length - 1
           /\ xStreamBufferSpacesAvailable(b) = b.length - 1 - prvBytesInBuffer(b)
  BY DEF StreamOK, prvBytesInBuffer, xStreamBufferSpacesAvailable

\* Bytes that fit are read after those that were there before them, which stay
\* as they were (prvWriteBytesToBuffer, in one or two copies).
THEOREM WriteAppends ==
    ASSUME NEW b, StreamOK(b), NEW bytes, NEW m \in Nat, bytes \in Seq(Nat), Len(bytes) = m,
           m <= xStreamBufferSpacesAvailable(b),
           NEW c, c = prvWriteBytesToBuffer(b, bytes), NEW n, n = prvBytesInBuffer(b)
    PROVE  /\ StreamOK(c) /\ prvBytesInBuffer(c) = n + m
           /\ \A i \in 1 .. n : Peek(c, n + m)[i] = Peek(b, n)[i]
           /\ \A i \in 1 .. m : Peek(c, n + m)[n + i] = bytes[i]
<1>1. PICK L \in Nat \ {0}, head \in Nat, tail \in Nat :
          b.length = L /\ b.head = head /\ b.tail = tail /\ head < L /\ tail < L
  BY DEF StreamOK
<1>2. n \in 0 .. L - 1 /\ m <= L - 1 - n /\ head \in 0 .. L - 1 /\ tail \in 0 .. L - 1
  BY <1>1, SpaceAndBytes
<1>3. n = IF head >= tail THEN head - tail ELSE L + head - tail
  BY <1>1 DEF prvBytesInBuffer
<1>4. /\ {"length", "head", "tail", "buf"} \subseteq DOMAIN c
      /\ c.length = L /\ c.tail = tail
      /\ c.head = IF head + m >= L THEN head + m - L ELSE head + m
      /\ DOMAIN c.buf = 0 .. L - 1
      /\ \A i \in 0 .. L - 1 :
            c.buf[i] = IF Slot(i + L - head, L) < m THEN bytes[Slot(i + L - head, L) + 1] ELSE b.buf[i]
  BY <1>1 DEF StreamOK, prvWriteBytesToBuffer, Slot
<1>5. StreamOK(c)
  BY <1>1, <1>2, <1>4 DEF StreamOK
<1>6. prvBytesInBuffer(c) = n + m
  BY <1>1, <1>2, <1>3, <1>4 DEF prvBytesInBuffer
<1>7. ASSUME NEW i \in 1 .. n PROVE Peek(c, n + m)[i] = Peek(b, n)[i]
  <2> DEFINE p == Slot(tail + i - 1, L)
  <2>1. p = (IF tail + i - 1 < L THEN tail + i - 1 ELSE tail + i - 1 - L) /\ p \in 0 .. L - 1
    BY <1>2, Slots
  <2>2. Peek(b, n)[i] = b.buf[p]
    BY <1>1, <1>2 DEF Peek, Slot
  <2>3. Peek(c, n + m)[i] = c.buf[p]
    BY <1>2, <1>4 DEF Peek, Slot
  <2> HIDE DEF p
  <2>4. ~(Slot(p + L - head, L) < m)
    BY <1>2, <1>3, <2>1, Slots
  <2>5. c.buf[p] = IF Slot(p + L - head, L) < m THEN bytes[Slot(p + L - head, L) + 1] ELSE b.buf[p]
    BY <1>4, <2>1
  <2> QED
    BY <2>2, <2>3, <2>4, <2>5
<1>8. ASSUME NEW i \in 1 .. m PROVE Peek(c, n + m)[n + i] = bytes[i]
  <2> DEFINE p == Slot(tail + (n + i) - 1, L)
  <2>1. p = (IF head + i - 1 < L THEN head + i - 1 ELSE head + i - 1 - L) /\ p \in 0 .. L - 1
    <3>0. /\ tail \in 0 .. L - 1 /\ n \in 0 .. L - 1 /\ m <= L - 1 - n
          /\ m \in Nat /\ i \in 1 .. m /\ L \in Nat \ {0}
      BY <1>1, <1>2
    <3>1. tail + (n + i) - 1 \in 0 .. L + L - 1
      BY ONLY <3>0
    <3> QED
      BY <1>2, <1>3, <3>1, Slots
  <2>2. Peek(c, n + m)[n + i] = c.buf[p]
    <3>1. n + i \in 1 .. n + m
      BY <1>2
    <3>2. Peek(c, n + m)[n + i] = c.buf[Slot(c.tail + (n + i) - 1, c.length)]
      BY <3>1, Zenon DEF Peek, Slot
    <3> QED
      BY <3>2, <1>4
  <2> HIDE DEF p
  <2>3. Slot(p + L - head, L) = i - 1
    BY <1>2, <2>1, Slots
  <2>4. c.buf[p] = IF Slot(p + L - head, L) < m THEN bytes[Slot(p + L - head, L) + 1] ELSE b.buf[p]
    BY <1>4, <2>1
  <2>5. i - 1 < m /\ (i - 1) + 1 = i
    OBVIOUS
  <2> QED
    BY <2>2, <2>3, <2>4, <2>5
<1> QED
  BY <1>5, <1>6, <1>7, <1>8

\* What is read is gone, and the rest stays in order.
THEOREM ReadAdvances ==
    ASSUME NEW b, StreamOK(b), NEW m \in Nat, m <= prvBytesInBuffer(b),
           NEW c, c = prvReadBytesFromBuffer(b, m), NEW n, n = prvBytesInBuffer(b)
    PROVE  /\ StreamOK(c) /\ prvBytesInBuffer(c) = n - m
           /\ \A i \in 1 .. n - m : Peek(c, n - m)[i] = Peek(b, n)[m + i]
<1>1. PICK L \in Nat \ {0}, head \in Nat, tail \in Nat :
          b.length = L /\ b.head = head /\ b.tail = tail /\ head < L /\ tail < L
  BY DEF StreamOK
<1>2. n \in 0 .. L - 1 /\ m <= n /\ head \in 0 .. L - 1 /\ tail \in 0 .. L - 1
  BY <1>1, SpaceAndBytes
<1>3. n = IF head >= tail THEN head - tail ELSE L + head - tail
  BY <1>1 DEF prvBytesInBuffer
<1>4. /\ DOMAIN c = DOMAIN b /\ c.length = L /\ c.head = head /\ c.buf = b.buf
      /\ c.tail = IF tail + m >= L THEN tail + m - L ELSE tail + m
  BY <1>1 DEF StreamOK, prvReadBytesFromBuffer
<1>5. StreamOK(c)
  BY <1>1, <1>2, <1>4 DEF StreamOK
<1>6. prvBytesInBuffer(c) = n - m
  BY <1>1, <1>2, <1>3, <1>4 DEF prvBytesInBuffer
<1>7. ASSUME NEW i \in 1 .. n - m PROVE Peek(c, n - m)[i] = Peek(b, n)[m + i]
  <2>1. Slot(c.tail + i - 1, L) = Slot(tail + (m + i) - 1, L)
    <3>1. c.tail + i - 1 \in 0 .. L + L - 1 /\ tail + (m + i) - 1 \in 0 .. L + L - 1
      BY <1>2, <1>4
    <3> QED
      BY <1>2, <1>4, <3>1, Slots
  <2>2. m + i \in 1 .. n
    BY <1>2
  <2>3. Peek(c, n - m)[i] = b.buf[Slot(c.tail + i - 1, L)]
    BY <1>2, <1>4 DEF Peek, Slot
  <2>4. Peek(b, n)[m + i] = b.buf[Slot(tail + (m + i) - 1, L)]
    BY <1>1, <2>2 DEF Peek, Slot
  <2> QED
    BY <2>1, <2>3, <2>4
<1> QED
  BY <1>5, <1>6, <1>7

\* What a reader will see.  With messages, N has for the place of each length,
\* one of Z, the number of the last byte before it; partly: of the last message
\* only the length is there.
Content(b) == Peek(b, prvBytesInBuffer(b))
Whole(c, n, N, last, partly, i) ==
    /\ c[i] \in Nat \ {0} /\ i + c[i] <= n
    /\ \A j \in 1 .. c[i] : c[i + j] = N[i] + j
    /\ IF i + c[i] = n THEN ~partly /\ N[i] + c[i] = last
       ELSE i + c[i] + 1 \in DOMAIN N /\ N[i + c[i] + 1] = N[i] + c[i]
Framed(c, n, N, first, last, partly, Z) ==
    /\ DOMAIN N \subseteq 1 .. n
    /\ IF n = 0 THEN last = first ELSE 1 \in DOMAIN N /\ N[1] = first
    /\ partly => n \in DOMAIN N /\ N[n] = last
    /\ \A i \in DOMAIN N : N[i] \in Nat /\ c[i] \in Z /\ (~(partly /\ i = n) => Whole(c, n, N, last, partly, i))
Bytes(c, n, first, last) == last = first + n /\ \A i \in 1 .. n : c[i] = first + i

\* A length is written, its data are, a message is read.
LEMMA LengthFramed ==
    ASSUME NEW n \in Nat, NEW c, NEW d, NEW N, NEW first \in Nat, NEW last \in Nat, NEW Z,
           Framed(c, n, N, first, last, FALSE, Z), \A i \in 1 .. n : d[i] = c[i], d[n + 1] \in Z
    PROVE  \E M : Framed(d, n + 1, M, first, last, TRUE, Z)
<1> DEFINE D == DOMAIN N
           M == [i \in D \cup {n + 1} |-> IF i = n + 1 THEN last ELSE N[i]]
<1>1. D \subseteq 1 .. n
  BY DEF Framed
<1>2. DOMAIN M = D \cup {n + 1} /\ M[n + 1] = last /\ \A i \in D : M[i] = N[i]
  BY <1>1
<1> HIDE DEF M
<1>3. ASSUME NEW i \in D PROVE N[i] \in Nat /\ d[i] \in Z /\ Whole(d, n + 1, M, last, TRUE, i)
  <2>1. N[i] \in Nat /\ c[i] \in Z /\ Whole(c, n, N, last, FALSE, i)
    BY DEF Framed
  <2>2. c[i] \in Nat \ {0} /\ i + c[i] <= n /\ d[i] = c[i] /\ i \in 1 .. n
    BY <1>1, <2>1 DEF Whole
  <2>3. \A j \in 1 .. c[i] : d[i + j] = M[i] + j
    BY <1>2, <2>1, <2>2 DEF Whole
  <2>4. i + c[i] = n => N[i] + c[i] = last
    BY <2>1 DEF Whole
  <2>5. i + c[i] # n => i + c[i] + 1 \in D /\ N[i + c[i] + 1] = N[i] + c[i]
    BY <2>1 DEF Whole
  <2>6. i + c[i] + 1 \in DOMAIN M /\ M[i + c[i] + 1] = M[i] + c[i]
    BY <1>2, <2>2, <2>4, <2>5
  <2>7. d[i] \in Z
    BY <2>1, <2>2
  <2> QED
    BY <2>1, <2>2, <2>3, <2>6, <2>7 DEF Whole
<1>4. 1 \in DOMAIN M /\ M[1] = first
  <2>1. CASE n = 0
    BY <1>2, <2>1 DEF Framed
  <2>2. CASE n # 0
    BY <1>2, <2>2 DEF Framed
  <2> QED
    BY <2>1, <2>2
<1>5. \A i \in DOMAIN M :
          M[i] \in Nat /\ d[i] \in Z /\ (~(TRUE /\ i = n + 1) => Whole(d, n + 1, M, last, TRUE, i))
  BY <1>2, <1>3
<1>6. Framed(d, n + 1, M, first, last, TRUE, Z)
  <2>1. DOMAIN M \subseteq 1 .. n + 1 /\ n + 1 # 0 /\ n + 1 \in DOMAIN M /\ M[n + 1] = last
    BY <1>1, <1>2
  <2> QED
    BY <1>4, <1>5, <2>1 DEF Framed
<1> QED
  BY <1>6

LEMMA DataFramed ==
    ASSUME NEW n \in Nat, NEW c, NEW d, NEW N, NEW first \in Nat, NEW last \in Nat, NEW m \in Nat \ {0},
           NEW Z, Framed(c, n, N, first, last, TRUE, Z), c[n] = m,
           \A i \in 1 .. n : d[i] = c[i], \A j \in 1 .. m : d[n + j] = last + j
    PROVE  Framed(d, n + m, N, first, last + m, FALSE, Z)
<1>1. DOMAIN N \subseteq 1 .. n /\ n \in DOMAIN N /\ N[n] = last /\ n # 0
  BY DEF Framed
<1>2. ASSUME NEW i \in DOMAIN N, i # n PROVE N[i] \in Nat /\ Whole(d, n + m, N, last + m, FALSE, i)
  <2>1. N[i] \in Nat /\ Whole(c, n, N, last, TRUE, i)
    BY <1>2 DEF Framed
  <2>2. /\ c[i] \in Nat \ {0} /\ i + c[i] < n /\ d[i] = c[i] /\ i \in 1 .. n
        /\ i + c[i] + 1 \in DOMAIN N /\ N[i + c[i] + 1] = N[i] + c[i]
    BY <1>1, <2>1 DEF Whole
  <2>3. \A j \in 1 .. c[i] : d[i + j] = N[i] + j
    BY <1>1, <2>1, <2>2 DEF Whole
  <2>4. i + c[i] # n + m /\ i + c[i] <= n + m
    BY <2>2
  <2> QED
    BY <2>1, <2>2, <2>3, <2>4 DEF Whole
<1>3. N[n] \in Nat /\ Whole(d, n + m, N, last + m, FALSE, n)
  BY <1>1 DEF Whole
<1>4. \A i \in DOMAIN N : N[i] \in Nat /\ d[i] \in Z /\ Whole(d, n + m, N, last + m, FALSE, i)
  <2>1. \A i \in DOMAIN N : d[i] \in Z
    BY <1>1 DEF Framed
  <2> QED
    BY <1>2, <1>3, <2>1
<1>5. 1 \in DOMAIN N /\ N[1] = first
  BY <1>1 DEF Framed
<1>6. DOMAIN N \subseteq 1 .. n + m /\ n + m # 0
  BY <1>1
<1> QED
  BY <1>4, <1>5, <1>6 DEF Framed

LEMMA MessageFramed ==
    ASSUME NEW n \in Nat, NEW c, NEW d, NEW N, NEW first \in Nat, NEW last \in Nat, NEW partly \in BOOLEAN,
           NEW Z, Framed(c, n, N, first, last, partly, Z), n # 0, ~(partly /\ n = 1),
           \A i \in 1 .. n - (1 + c[1]) : d[i] = c[1 + c[1] + i]
    PROVE  /\ c[1] \in Nat \ {0} /\ 1 + c[1] <= n /\ \A i \in 1 .. c[1] : c[1 + i] = first + i
           /\ \E M : Framed(d, n - (1 + c[1]), M, first + c[1], last, partly, Z)
<1> DEFINE L == c[1]
           r == n - (1 + L)
           M == [i \in {j \in 1 .. r : 1 + L + j \in DOMAIN N} |-> N[1 + L + i]]
<1>1. 1 \in DOMAIN N /\ N[1] = first /\ Whole(c, n, N, last, partly, 1)
  BY DEF Framed
<1>2. L \in Nat \ {0} /\ 1 + L <= n /\ r \in Nat
  BY <1>1 DEF Whole
<1>3. \A i \in 1 .. L : c[1 + i] = first + i
  BY <1>1 DEF Whole
<1>4. DOMAIN N \subseteq 1 .. n
  BY DEF Framed
<1>5. /\ DOMAIN M \subseteq 1 .. r
      /\ \A i \in 1 .. r : i \in DOMAIN M <=> 1 + L + i \in DOMAIN N
      /\ \A i \in DOMAIN M : M[i] = N[1 + L + i]
  OBVIOUS
<1>6. \A i \in 1 .. r : d[i] = c[1 + L + i]
  OBVIOUS
<1>7. IF 1 + L = n THEN ~partly /\ first + L = last
      ELSE 1 + L + 1 \in DOMAIN N /\ N[1 + L + 1] = first + L
  BY <1>1 DEF Whole
<1> HIDE DEF M
<1>8. ASSUME NEW i \in DOMAIN M, ~(partly /\ i = r)
      PROVE  Whole(d, r, M, last, partly, i)
  <2> DEFINE k1 == 1 + L + i
             e == c[1 + L + i]
  <2>1. i \in 1 .. r /\ k1 \in DOMAIN N /\ ~(partly /\ k1 = n)
    BY <1>2, <1>5, <1>8
  <2>2. N[k1] \in Nat /\ Whole(c, n, N, last, partly, k1)
    BY <2>1 DEF Framed
  <2>3. e \in Nat \ {0} /\ k1 + e <= n /\ \A j \in 1 .. e : c[k1 + j] = N[k1] + j
    BY <2>2 DEF Whole
  <2>4. d[i] = e /\ M[i] = N[k1] /\ i + e <= r
    BY <1>2, <1>5, <1>6, <2>1, <2>3
  <2>5. \A j \in 1 .. e : d[i + j] = M[i] + j
    <3> TAKE j \in 1 .. e
    <3>1. i + j \in 1 .. r /\ 1 + L + (i + j) = k1 + j
      BY <1>2, <2>1, <2>3
    <3>2. d[i + j] = c[k1 + j]
      BY <1>6, <3>1
    <3> QED
      BY <2>3, <2>4, <3>2
  <2>6. IF k1 + e = n THEN ~partly /\ N[k1] + e = last
        ELSE k1 + e + 1 \in DOMAIN N /\ N[k1 + e + 1] = N[k1] + e
    BY <2>2 DEF Whole
  <2>7. k1 + e = n <=> i + e = r
    BY <1>2, <2>1, <2>3
  <2>8. i + e # r => i + e + 1 \in DOMAIN M /\ M[i + e + 1] = M[i] + e
    <3> SUFFICES ASSUME i + e # r PROVE i + e + 1 \in DOMAIN M /\ M[i + e + 1] = M[i] + e
      OBVIOUS
    <3>1. i + e + 1 \in 1 .. r /\ 1 + L + (i + e + 1) = k1 + e + 1
      BY <1>2, <2>1, <2>3, <2>4
    <3>2. k1 + e + 1 \in DOMAIN N /\ N[k1 + e + 1] = N[k1] + e
      BY <2>6, <2>7
    <3> QED
      BY <1>5, <2>4, <3>1, <3>2
  <2> HIDE DEF e, k1
  <2> QED
    BY <2>3, <2>4, <2>5, <2>6, <2>7, <2>8 DEF Whole
<1>9. \A i \in DOMAIN M : M[i] \in Nat /\ d[i] \in Z
  <2> TAKE i \in DOMAIN M
  <2>1. 1 + L + i \in DOMAIN N /\ M[i] = N[1 + L + i] /\ d[i] = c[1 + L + i]
    BY <1>5, <1>6
  <2> QED
    BY <2>1 DEF Framed
<1>10. IF r = 0 THEN last = first + L ELSE 1 \in DOMAIN M /\ M[1] = first + L
  <2>1. CASE r = 0
    <3>1. 1 + L = n
      BY <1>2, <2>1
    <3> QED
      BY <1>7, <2>1, <3>1
  <2>2. CASE r # 0
    <3>1. 1 + L # n /\ 1 \in 1 .. r
      BY <1>2, <2>2
    <3> QED
      BY <1>5, <1>7, <2>2, <3>1
  <2> QED
    BY <2>1, <2>2
<1>11. partly => r \in DOMAIN M /\ M[r] = last
  <2> SUFFICES ASSUME partly PROVE r \in DOMAIN M /\ M[r] = last
    OBVIOUS
  <2>1. n \in DOMAIN N /\ N[n] = last /\ 1 + L # n
    BY <1>7 DEF Framed
  <2>2. r \in 1 .. r /\ 1 + L + r = n
    BY <1>2, <2>1
  <2> QED
    BY <1>5, <2>1, <2>2
<1>12. Framed(d, r, M, first + L, last, partly, Z)
  <2> HIDE DEF r, L
  <2> QED
    BY <1>5, <1>8, <1>9, <1>10, <1>11 DEF Framed
<1> QED
  BY <1>2, <1>3, <1>12


\* A buffer whose bytes are those that were written, in order.
BufferFields == {"length", "trigger", "message", "head", "tail", "buf", "toSend", "toReceive", "in", "out"}
BufferOK(b) ==
    /\ DOMAIN b = BufferFields /\ StreamOK(b)
    /\ b.message \in BOOLEAN /\ b.in \in Nat /\ b.out \in Nat

\* The reader may have taken the length of a message and not yet its data.
UnreadCount(b, taken) == prvBytesInBuffer(b) + (IF taken = 0 THEN 0 ELSE 1)
Unread(b, taken) ==
    [i \in 1 .. UnreadCount(b, taken) |->
        IF taken = 0 THEN Content(b)[i] ELSE IF i = 1 THEN taken ELSE Content(b)[i - 1]]
InOrderIn(b, partly, taken, Z) ==
    IF b.message THEN \E N : Framed(Unread(b, taken), UnreadCount(b, taken), N, b.out, b.in, partly, Z)
    ELSE taken = 0 /\ Bytes(Content(b), prvBytesInBuffer(b), b.out, b.in)

LEMMA UnreadIs ==
    ASSUME NEW b, BufferOK(b), NEW taken \in Nat, NEW n, n = prvBytesInBuffer(b),
           NEW e, e = IF taken = 0 THEN 0 ELSE 1
    PROVE  /\ n \in Nat /\ e \in Nat /\ UnreadCount(b, taken) = n + e /\ n + e \in Nat
           /\ \A i \in 1 .. n : Unread(b, taken)[e + i] = Content(b)[i]
           /\ taken # 0 => e = 1 /\ Unread(b, taken)[1] = taken
           /\ taken = 0 => e = 0 /\ \A i \in 1 .. n : Unread(b, taken)[i] = Content(b)[i]
<1>1. n \in Nat
  BY SpaceAndBytes DEF BufferOK, StreamOK
<1>2. UnreadCount(b, taken) = n + e
  BY DEF UnreadCount
<1>3. CASE taken = 0
  BY <1>1, <1>2, <1>3 DEF Unread
<1>4. CASE taken # 0
  <2>1. \A i \in 1 .. n + 1 : Unread(b, taken)[i] = IF i = 1 THEN taken ELSE Content(b)[i - 1]
    BY <1>2, <1>4 DEF Unread
  <2>2. 1 \in 1 .. n + 1 /\ \A i \in 1 .. n : 1 + i \in 1 .. n + 1 /\ 1 + i # 1 /\ (1 + i) - 1 = i
    BY <1>1
  <2>3. \A i \in 1 .. n : Unread(b, taken)[1 + i] = Content(b)[i]
    BY <2>1, <2>2
  <2> QED
    BY <1>1, <1>2, <1>4, <2>1, <2>2, <2>3
<1> QED
  BY <1>3, <1>4

\* b and c differ in who waits.
SameBytes(b, c) == DOMAIN c = BufferFields /\ \A f \in BufferFields \ {"toSend", "toReceive"} : c[f] = b[f]

LEMMA SameBytesOK ==
    ASSUME NEW b, NEW c, BufferOK(b), SameBytes(b, c)
    PROVE  /\ BufferOK(c) /\ Content(c) = Content(b) /\ prvBytesInBuffer(c) = prvBytesInBuffer(b)
           /\ xStreamBufferSpacesAvailable(c) = xStreamBufferSpacesAvailable(b)
           /\ \A partly, taken, Z : InOrderIn(b, partly, taken, Z) => InOrderIn(c, partly, taken, Z)
<1>1. /\ c.length = b.length /\ c.head = b.head /\ c.tail = b.tail /\ c.buf = b.buf
      /\ c.message = b.message /\ c.in = b.in /\ c.out = b.out /\ DOMAIN c = BufferFields
  BY DEF SameBytes, BufferFields
<1>2. BufferOK(c)
  BY <1>1 DEF BufferOK, StreamOK
<1>3. Content(c) = Content(b) /\ prvBytesInBuffer(c) = prvBytesInBuffer(b)
      /\ xStreamBufferSpacesAvailable(c) = xStreamBufferSpacesAvailable(b)
  BY <1>1, Zenon DEF Content, Peek, prvBytesInBuffer, xStreamBufferSpacesAvailable
<1>4. \A taken : UnreadCount(c, taken) = UnreadCount(b, taken)
  BY <1>3, Zenon DEF UnreadCount
<1>5. \A taken : Unread(c, taken) = Unread(b, taken)
  <2> DEFINE U(x, m, taken) == [i \in 1 .. m |-> IF taken = 0 THEN x[i] ELSE IF i = 1 THEN taken ELSE x[i - 1]]
  <2>1. \A taken : /\ Unread(c, taken) = U(Content(c), UnreadCount(c, taken), taken)
                   /\ Unread(b, taken) = U(Content(b), UnreadCount(b, taken), taken)
    BY DEF Unread
  <2> HIDE DEF U
  <2> QED
    BY <1>3, <1>4, <2>1
<1>6. \A partly, taken, Z : InOrderIn(b, partly, taken, Z) => InOrderIn(c, partly, taken, Z)
  BY <1>1, <1>3, <1>4, <1>5, Zenon DEF InOrderIn
<1> QED
  BY <1>2, <1>3, <1>6

\* prvWriteBytesToBuffer of m bytes, by which n bytes become n + m.
LEMMA WrittenOK ==
    ASSUME NEW b, BufferOK(b), NEW m \in Nat, m <= xStreamBufferSpacesAvailable(b),
           NEW bytes, bytes \in Seq(Nat), Len(bytes) = m,
           NEW c, c = prvWriteBytesToBuffer(b, bytes), NEW n, n = prvBytesInBuffer(b)
    PROVE  /\ BufferOK(c) /\ n \in Nat /\ prvBytesInBuffer(c) = n + m
           /\ c.message = b.message /\ c.in = b.in /\ c.out = b.out /\ c.length = b.length
           /\ xStreamBufferSpacesAvailable(c) = xStreamBufferSpacesAvailable(b) - m
           /\ xStreamBufferSpacesAvailable(b) \in Nat
           /\ \A i \in 1 .. n : Content(c)[i] = Content(b)[i]
           /\ \A i \in 1 .. m : Content(c)[n + i] = bytes[i]
<1>1. StreamOK(b)
  BY DEF BufferOK
<1>2. /\ DOMAIN c = BufferFields /\ c.message = b.message /\ c.in = b.in /\ c.out = b.out /\ c.length = b.length
  BY DEF prvWriteBytesToBuffer, BufferOK, BufferFields
<1>3. /\ StreamOK(c) /\ prvBytesInBuffer(c) = n + m
      /\ \A i \in 1 .. n : Peek(c, n + m)[i] = Peek(b, n)[i]
      /\ \A i \in 1 .. m : Peek(c, n + m)[n + i] = bytes[i]
  BY <1>1, WriteAppends
<1>4. BufferOK(c)
  BY <1>2, <1>3 DEF BufferOK
<1>5. /\ n \in 0 .. b.length - 1 /\ xStreamBufferSpacesAvailable(b) = b.length - 1 - n
      /\ xStreamBufferSpacesAvailable(c) = c.length - 1 - (n + m) /\ b.length \in Nat
  BY <1>1, <1>3, SpaceAndBytes DEF StreamOK
<1>6. n \in Nat /\ xStreamBufferSpacesAvailable(b) \in Nat
      /\ xStreamBufferSpacesAvailable(c) = xStreamBufferSpacesAvailable(b) - m
  BY <1>2, <1>5
<1>7. Content(c) = Peek(c, n + m) /\ Content(b) = Peek(b, n)
  BY <1>3 DEF Content
<1> QED
  BY <1>2, <1>3, <1>4, <1>6, <1>7

\* prvReadBytesFromBuffer of m bytes.
LEMMA ReadOK ==
    ASSUME NEW b, BufferOK(b), NEW m \in Nat, m <= prvBytesInBuffer(b),
           NEW c, c = prvReadBytesFromBuffer(b, m), NEW n, n = prvBytesInBuffer(b)
    PROVE  /\ BufferOK(c) /\ n \in Nat /\ prvBytesInBuffer(c) = n - m
           /\ c.message = b.message /\ c.in = b.in /\ c.out = b.out /\ c.length = b.length
           /\ xStreamBufferSpacesAvailable(c) = xStreamBufferSpacesAvailable(b) + m
           /\ xStreamBufferSpacesAvailable(b) \in Nat
           /\ \A i \in 1 .. n - m : Content(c)[i] = Content(b)[m + i]
<1>1. StreamOK(b)
  BY DEF BufferOK
<1>2. /\ DOMAIN c = BufferFields /\ c.message = b.message /\ c.in = b.in /\ c.out = b.out /\ c.length = b.length
  BY DEF prvReadBytesFromBuffer, BufferOK, BufferFields
<1>3. /\ StreamOK(c) /\ prvBytesInBuffer(c) = n - m
      /\ \A i \in 1 .. n - m : Peek(c, n - m)[i] = Peek(b, n)[m + i]
  BY <1>1, ReadAdvances
<1>4. BufferOK(c)
  BY <1>2, <1>3 DEF BufferOK
<1>5. /\ n \in 0 .. b.length - 1 /\ xStreamBufferSpacesAvailable(b) = b.length - 1 - n
      /\ xStreamBufferSpacesAvailable(c) = c.length - 1 - (n - m) /\ b.length \in Nat
  BY <1>1, <1>3, SpaceAndBytes DEF StreamOK
<1>6. n \in Nat /\ xStreamBufferSpacesAvailable(b) \in Nat
      /\ xStreamBufferSpacesAvailable(c) = xStreamBufferSpacesAvailable(b) + m
  BY <1>2, <1>5
<1>7. Content(c) = Peek(c, n - m) /\ Content(b) = Peek(b, n)
  BY <1>3 DEF Content
<1> QED
  BY <1>2, <1>3, <1>4, <1>6, <1>7

LEMMA PeekedByte ==
    ASSUME NEW b, BufferOK(b), NEW m \in Nat, m <= prvBytesInBuffer(b), NEW i \in 1 .. m
    PROVE  Peek(b, m)[i] = Content(b)[i]
<1>1. prvBytesInBuffer(b) \in Nat
  BY SpaceAndBytes DEF BufferOK, StreamOK
<1> QED
  BY <1>1 DEF Peek, Content

\* What a call has found out and still counts on: space, the place after the
\* length of its message, bytes to read, the data after the length it has read.
SpaceFor(b, size) == size \in Nat /\ size <= xStreamBufferSpacesAvailable(b)
DataFor(b, size) ==
    /\ b.message /\ size \in Nat \ {0} /\ size <= xStreamBufferSpacesAvailable(b)
    /\ prvBytesInBuffer(b) # 0 /\ Content(b)[prvBytesInBuffer(b)] = size
BytesFor(b, size) ==
    /\ size \in Nat /\ size <= prvBytesInBuffer(b)
    /\ b.message /\ size > 1 => Content(b)[1] < size
RestFor(b, size) == b.message /\ size \in Nat \ {0} /\ prvBytesInBuffer(b) # 0
LeavesBytes(b, c) ==
    \A size : (BytesFor(b, size) => BytesFor(c, size)) /\ (RestFor(b, size) => RestFor(c, size))
LeavesSpace(b, c, partly) ==
    \A size : (SpaceFor(b, size) => SpaceFor(c, size)) /\ (partly /\ DataFor(b, size) => DataFor(c, size))

\* Write: to a stream, or the data of a message whose length is there.
CanWrite(b, m, partly, taken, Z) ==
    /\ BufferOK(b) /\ m \in Nat /\ m <= xStreamBufferSpacesAvailable(b)
    /\ partly \in BOOLEAN /\ taken \in Nat /\ InOrderIn(b, partly, taken, Z) /\ (partly <=> b.message)
    /\ b.message => m # 0 /\ prvBytesInBuffer(b) # 0 /\ Content(b)[prvBytesInBuffer(b)] = m
Wrote(b, c, taken, Z) ==
    /\ BufferOK(c) /\ InOrderIn(c, FALSE, taken, Z) /\ c.message = b.message /\ c.out = b.out
    /\ LeavesBytes(b, c)
LEMMA WriteOK ==
    ASSUME NEW b, NEW m, NEW partly, NEW taken, NEW Z, CanWrite(b, m, partly, taken, Z),
           NEW c, c = Write(b, m)
    PROVE  Wrote(b, c, taken, Z)
<1>0. /\ BufferOK(b) /\ m \in Nat /\ m <= xStreamBufferSpacesAvailable(b)
      /\ partly \in BOOLEAN /\ taken \in Nat /\ InOrderIn(b, partly, taken, Z) /\ (partly <=> b.message)
      /\ b.message => m # 0 /\ prvBytesInBuffer(b) # 0 /\ Content(b)[prvBytesInBuffer(b)] = m
  BY DEF CanWrite
<1> USE <1>0
<1> DEFINE w == prvWriteBytesToBuffer(b, Numbered(b, m))
           n == prvBytesInBuffer(b)
<1>1. Numbered(b, m) \in Seq(Nat) /\ Len(Numbered(b, m)) = m /\ \A i \in 1 .. m : Numbered(b, m)[i] = b.in + i
  BY DEF Numbered, BufferOK
<1>2. /\ BufferOK(w) /\ n \in Nat /\ prvBytesInBuffer(w) = n + m
      /\ w.message = b.message /\ w.in = b.in /\ w.out = b.out
      /\ \A i \in 1 .. n : Content(w)[i] = Content(b)[i]
      /\ \A i \in 1 .. m : Content(w)[n + i] = Numbered(b, m)[i]
  BY <1>1, WrittenOK
<1>3. c = [w EXCEPT !.in = w.in + m]
  BY Zenon DEF Write
<1> HIDE DEF w
<1>4. /\ DOMAIN c = BufferFields /\ c.in = b.in + m /\ \A f \in BufferFields \ {"in"} : c[f] = w[f]
  BY <1>2, <1>3 DEF BufferOK, BufferFields
<1>5. /\ c.length = w.length /\ c.head = w.head /\ c.tail = w.tail /\ c.buf = w.buf
      /\ c.message = w.message /\ c.out = w.out
  BY <1>4 DEF BufferFields
<1>6. BufferOK(c)
  <2>1. StreamOK(c)
    <3>1. StreamOK(w)
      BY <1>2 DEF BufferOK
    <3>2. {"length", "head", "tail", "buf"} \subseteq DOMAIN c
      BY <1>4 DEF BufferFields
    <3> QED
      BY <1>5, <3>1, <3>2 DEF StreamOK
  <2>2. c.in \in Nat
    BY <1>0, <1>4 DEF BufferOK
  <2> QED
    BY <1>2, <1>4, <1>5, <2>1, <2>2 DEF BufferOK
<1>7. Content(c) = Content(w) /\ prvBytesInBuffer(c) = prvBytesInBuffer(w)
  BY <1>5, Zenon DEF Content, Peek, prvBytesInBuffer
<1> HIDE DEF n
<1>8. \A i \in 1 .. m : Content(c)[n + i] = b.in + i
  BY <1>1, <1>2, <1>7
<1>9. \A i \in 1 .. n : Content(c)[i] = Content(b)[i]
  BY <1>2, <1>7
<1>10. b.in \in Nat /\ b.out \in Nat
  BY DEF BufferOK
<1>12. c.message = b.message /\ prvBytesInBuffer(c) = n + m
  BY <1>2, <1>5, <1>7
<1>11. InOrderIn(c, FALSE, taken, Z)
  <2>1. CASE b.message
    <3> DEFINE e == IF taken = 0 THEN 0 ELSE 1
               u == Unread(b, taken)
               v == Unread(c, taken)
    <3>1. partly = TRUE /\ m \in Nat \ {0} /\ Content(b)[n] = m /\ n # 0
      BY <2>1 DEF n
    <3>2. PICK N : Framed(u, UnreadCount(b, taken), N, b.out, b.in, TRUE, Z)
      BY <2>1, <3>1 DEF InOrderIn
    <3>3. /\ n \in Nat /\ e \in {0, 1} /\ n + e \in Nat /\ UnreadCount(b, taken) = n + e
          /\ \A i \in 1 .. n : u[e + i] = Content(b)[i]
          /\ e = 1 => u[1] = taken
      BY UnreadIs DEF n
    <3>4. /\ UnreadCount(c, taken) = (n + m) + e
          /\ \A i \in 1 .. n + m : v[e + i] = Content(c)[i]
          /\ e = 1 => v[1] = taken
      BY <1>6, <1>12, UnreadIs
    <3> HIDE DEF e, u, v
    <3>5. u[n + e] = m
      <4>1. n \in 1 .. n /\ e + n = n + e
        BY <3>1, <3>3
      <4> QED
        BY <3>1, <3>3, <4>1
    <3>6. \A i \in 1 .. n + e : v[i] = u[i]
      <4> TAKE i \in 1 .. n + e
      <4>1. CASE i <= e
        BY <3>3, <3>4, <4>1
      <4>2. CASE i > e
        <5>1. i - e \in 1 .. n /\ i - e \in 1 .. n + m /\ e + (i - e) = i
          BY <3>3, <4>2
        <5> QED
          BY <1>9, <3>3, <3>4, <5>1
      <4> QED
        BY <3>3, <4>1, <4>2
    <3>7. \A j \in 1 .. m : v[(n + e) + j] = b.in + j
      <4> TAKE j \in 1 .. m
      <4>1. n + j \in 1 .. n + m /\ e + (n + j) = (n + e) + j
        BY <3>3
      <4> QED
        BY <1>8, <3>4, <4>1
    <3>8. Framed(v, (n + e) + m, N, b.out, b.in + m, FALSE, Z)
      <4> DEFINE x == n + e
      <4>1. x \in Nat /\ Framed(u, x, N, b.out, b.in, TRUE, Z) /\ u[x] = m
        BY <3>2, <3>3, <3>5
      <4>2. (\A i \in 1 .. x : v[i] = u[i]) /\ \A j \in 1 .. m : v[x + j] = b.in + j
        BY <3>6, <3>7
      <4> HIDE DEF x
      <4>3. Framed(v, x + m, N, b.out, b.in + m, FALSE, Z)
        BY <1>10, <3>1, <4>1, <4>2, DataFramed
      <4> QED
        BY <4>3 DEF x
    <3>9. UnreadCount(c, taken) = (n + e) + m
      BY <3>3, <3>4
    <3> QED
      BY <1>2, <1>4, <1>5, <2>1, <3>8, <3>9, Zenon DEF InOrderIn, v
  <2>2. CASE ~b.message
    <3>1. taken = 0 /\ Bytes(Content(b), n, b.out, b.in)
      BY <2>2 DEF InOrderIn, n
    <3>2. b.in = b.out + n /\ \A i \in 1 .. n : Content(b)[i] = b.out + i
      BY <3>1 DEF Bytes
    <3>3. \A i \in 1 .. n + m : Content(c)[i] = b.out + i
      <4> TAKE i \in 1 .. n + m
      <4>1. CASE i <= n
        BY <1>2, <1>9, <3>2, <4>1
      <4>2. CASE i > n
        <5>1. PICK j \in 1 .. m : i = n + j
          <6>1. i - n \in 1 .. m /\ i = n + (i - n)
            BY <1>2, <4>2
          <6> QED
            BY <6>1
        <5>2. Content(c)[i] = b.in + j
          BY <1>8, <5>1
        <5> QED
          BY <1>2, <1>10, <3>2, <5>1, <5>2
      <4> QED
        BY <1>2, <4>1, <4>2
    <3>4. Bytes(Content(c), n + m, b.out, b.in + m)
      BY <1>2, <1>10, <3>2, <3>3 DEF Bytes
    <3> QED
      BY <1>2, <1>4, <1>5, <1>7, <2>2, <3>1, <3>4, Zenon DEF InOrderIn
  <2> QED
    BY <2>1, <2>2
<1>15. ASSUME NEW size, BytesFor(b, size) PROVE BytesFor(c, size)
  BY <1>2, <1>9, <1>12, <1>15 DEF BytesFor, n
<1>16. ASSUME NEW size, RestFor(b, size) PROVE RestFor(c, size)
  BY <1>2, <1>12, <1>16 DEF RestFor, n
<1>13. LeavesBytes(b, c)
  BY <1>15, <1>16 DEF LeavesBytes
<1>14. c.out = b.out
  BY <1>2, <1>5
<1> QED
  BY <1>6, <1>11, <1>12, <1>13, <1>14 DEF Wrote

\* The length of a message.
CanFrame(b, m, taken, Z) ==
    /\ BufferOK(b) /\ b.message /\ taken \in Nat /\ InOrderIn(b, FALSE, taken, Z)
    /\ m \in Nat \ {0} /\ m \in Z /\ m + 1 <= xStreamBufferSpacesAvailable(b)
LEMMA LengthOK ==
    ASSUME NEW b, NEW m, NEW taken, NEW Z, CanFrame(b, m, taken, Z), NEW c, c = prvWriteBytesToBuffer(b, <<m>>)
    PROVE  /\ BufferOK(c) /\ InOrderIn(c, TRUE, taken, Z) /\ c.message = b.message /\ c.out = b.out
           /\ DataFor(c, m) /\ LeavesBytes(b, c)
<1>0. /\ BufferOK(b) /\ b.message /\ taken \in Nat /\ InOrderIn(b, FALSE, taken, Z)
      /\ m \in Nat \ {0} /\ m \in Z /\ m + 1 <= xStreamBufferSpacesAvailable(b)
  BY DEF CanFrame
<1> USE <1>0
<1> DEFINE n == prvBytesInBuffer(b)
<1> DEFINE z == <<m>>
           o == Len(z)
<1>1. z \in Seq(Nat) /\ o = 1 /\ z[1] = m /\ c = prvWriteBytesToBuffer(b, z)
  OBVIOUS
<1> HIDE DEF z
<1>2. xStreamBufferSpacesAvailable(b) \in Nat /\ o \in Nat /\ o <= xStreamBufferSpacesAvailable(b)
  <2>1. xStreamBufferSpacesAvailable(b) \in Nat
    BY SpaceAndBytes DEF BufferOK, StreamOK
  <2> QED
    BY <1>1, <2>1
<1>3. /\ BufferOK(c) /\ n \in Nat /\ prvBytesInBuffer(c) = n + 1
      /\ c.message = b.message /\ c.in = b.in /\ c.out = b.out
      /\ xStreamBufferSpacesAvailable(c) = xStreamBufferSpacesAvailable(b) - 1
      /\ \A i \in 1 .. n : Content(c)[i] = Content(b)[i]
      /\ \A i \in 1 .. 1 : Content(c)[n + i] = z[i]
  <2> DEFINE w == prvWriteBytesToBuffer(b, z)
  <2>1. z \in Seq(Nat) /\ Len(z) = o
    BY <1>1
  <2> HIDE DEF o
  <2>2. /\ BufferOK(w) /\ n \in Nat /\ prvBytesInBuffer(w) = n + o
        /\ w.in = b.in /\ w.out = b.out
        /\ xStreamBufferSpacesAvailable(w) = xStreamBufferSpacesAvailable(b) - o
        /\ \A i \in 1 .. n : Content(w)[i] = Content(b)[i]
        /\ \A i \in 1 .. o : Content(w)[n + i] = z[i]
    BY <1>2, <2>1, WrittenOK, SMTT(30)
  <2>3. w.message = b.message
    BY DEF prvWriteBytesToBuffer, BufferOK, BufferFields
  <2> QED
    BY <1>1, <2>2, <2>3
<1>4. Content(c)[n + 1] = m
  BY <1>1, <1>3
<1> DEFINE e == IF taken = 0 THEN 0 ELSE 1
           u == Unread(b, taken)
           v == Unread(c, taken)
<1>11. /\ n \in Nat /\ e \in {0, 1} /\ n + e \in Nat /\ UnreadCount(b, taken) = n + e
       /\ \A i \in 1 .. n : u[e + i] = Content(b)[i]
       /\ e = 1 => u[1] = taken
  BY UnreadIs
<1>12. /\ UnreadCount(c, taken) = (n + 1) + e
       /\ \A i \in 1 .. n + 1 : v[e + i] = Content(c)[i]
       /\ e = 1 => v[1] = taken
  BY <1>3, UnreadIs
<1> HIDE DEF n, e, u, v
<1>5. PICK N : Framed(u, n + e, N, b.out, b.in, FALSE, Z)
  BY <1>11 DEF InOrderIn, u
<1>6. b.in \in Nat /\ b.out \in Nat
  BY DEF BufferOK
<1>7. \E M : Framed(v, (n + e) + 1, M, b.out, b.in, TRUE, Z)
  <2>1. \A i \in 1 .. n + e : v[i] = u[i]
    <3> TAKE i \in 1 .. n + e
    <3>1. CASE i <= e
      BY <1>11, <1>12, <3>1
    <3>2. CASE i > e
      <4>1. i - e \in 1 .. n /\ i - e \in 1 .. n + 1 /\ e + (i - e) = i
        BY <1>11, <3>2
      <4> QED
        BY <1>3, <1>11, <1>12, <4>1
    <3> QED
      BY <1>11, <3>1, <3>2
  <2>2. v[(n + e) + 1] \in Z
    <3>1. n + 1 \in 1 .. n + 1 /\ e + (n + 1) = (n + e) + 1
      BY <1>11
    <3> QED
      BY <1>4, <1>12, <3>1
  <2> DEFINE x == n + e
  <2>3. x \in Nat /\ Framed(u, x, N, b.out, b.in, FALSE, Z) /\ (\A i \in 1 .. x : v[i] = u[i]) /\ v[x + 1] \in Z
    BY <1>5, <1>11, <2>1, <2>2
  <2> HIDE DEF x
  <2>4. \E M : Framed(v, x + 1, M, b.out, b.in, TRUE, Z)
    BY <1>6, <2>3, LengthFramed
  <2> QED
    BY <2>4 DEF x
<1>8. InOrderIn(c, TRUE, taken, Z)
  <2>1. UnreadCount(c, taken) = (n + e) + 1
    BY <1>11, <1>12
  <2> QED
    BY <1>3, <1>7, <2>1, Zenon DEF InOrderIn, v
<1>9. DataFor(c, m)
  <2>1. m <= xStreamBufferSpacesAvailable(c)
    BY <1>2, <1>3
  <2>3. c.message
    BY <1>3
  <2>2. Content(c)[prvBytesInBuffer(c)] = m /\ prvBytesInBuffer(c) # 0
    BY <1>3, <1>4 DEF n
  <2> QED
    BY <2>1, <2>2, <2>3 DEF DataFor
<1>13. ASSUME NEW size, BytesFor(b, size) PROVE BytesFor(c, size)
  BY <1>3, <1>13 DEF BytesFor, n
<1>15. n + 1 # 0
  BY <1>3
<1>16. c.message
  BY <1>3
<1>14. ASSUME NEW size, RestFor(b, size) PROVE RestFor(c, size)
  BY <1>3, <1>14, <1>15, <1>16 DEF RestFor
<1>10. LeavesBytes(b, c)
  BY <1>13, <1>14 DEF LeavesBytes
<1> QED
  BY <1>3, <1>8, <1>9, <1>10

\* The length of the message that the reader comes to, when it is whole.
LEMMA FirstMessage ==
    ASSUME NEW b, BufferOK(b), b.message, NEW partly \in BOOLEAN, NEW Z, InOrderIn(b, partly, 0, Z),
           NEW n, n = prvBytesInBuffer(b), n > 1, NEW m, m = Content(b)[1]
    PROVE  /\ m \in Nat \ {0} /\ m \in Z /\ 1 + m <= n /\ (partly => 1 + m # n)
           /\ b.buf[b.tail] = m
<1>1. n \in Nat /\ 1 \in 1 .. n
  BY SpaceAndBytes DEF BufferOK, StreamOK
<1>2. UnreadCount(b, 0) = n /\ Unread(b, 0)[1] = m
  BY <1>1, UnreadIs
<1>3. PICK N : Framed(Unread(b, 0), n, N, b.out, b.in, partly, Z)
  BY <1>2 DEF InOrderIn
<1> DEFINE u == Unread(b, 0)
<1> HIDE DEF u
<1>4. 1 \in DOMAIN N /\ m \in Z /\ Whole(u, n, N, b.in, partly, 1)
  BY <1>1, <1>2, <1>3 DEF Framed, u
<1>5. m \in Nat \ {0} /\ 1 + m <= n /\ (partly => 1 + m # n)
  BY <1>2, <1>4 DEF Whole, u
<1>6. b.buf[b.tail] = m
  <2>1. b.length \in Nat \ {0} /\ b.tail \in 0 .. b.length - 1
    BY DEF BufferOK, StreamOK
  <2>2. (b.tail + 1 - 1) % b.length = b.tail
    BY <2>1
  <2> QED
    BY <1>1, <2>1, <2>2 DEF Content, Peek
<1> QED
  BY <1>4, <1>5, <1>6

\* The length of a message is read.
CanTake(b, partly, Z) ==
    BufferOK(b) /\ b.message /\ partly \in BOOLEAN /\ InOrderIn(b, partly, 0, Z) /\ prvBytesInBuffer(b) > 1
LEMMA LengthTaken ==
    ASSUME NEW b, NEW partly, NEW Z, CanTake(b, partly, Z), NEW m, m = Content(b)[1],
           NEW c, c = prvReadBytesFromBuffer(b, 1)
    PROVE  /\ BufferOK(c) /\ InOrderIn(c, partly, m, Z) /\ c.message = b.message /\ c.out = b.out
           /\ RestFor(c, m) /\ LeavesSpace(b, c, partly)
<1>11. PICK n : n = prvBytesInBuffer(b)
  OBVIOUS
<1>0. BufferOK(b) /\ b.message /\ partly \in BOOLEAN /\ InOrderIn(b, partly, 0, Z) /\ n > 1
  BY <1>11 DEF CanTake
<1> USE <1>0, <1>11
<1>1. m \in Nat \ {0} /\ n \in Nat
  <2>1. m \in Nat \ {0}
    BY FirstMessage
  <2>2. n \in Nat
    BY SpaceAndBytes DEF BufferOK, StreamOK
  <2> QED
    BY <2>1, <2>2
<1>2. /\ BufferOK(c) /\ prvBytesInBuffer(c) = n - 1
      /\ c.message = b.message /\ c.in = b.in /\ c.out = b.out
      /\ xStreamBufferSpacesAvailable(c) = xStreamBufferSpacesAvailable(b) + 1
      /\ xStreamBufferSpacesAvailable(b) \in Nat
      /\ \A i \in 1 .. n - 1 : Content(c)[i] = Content(b)[1 + i]
  <2>1. PICK o \in Nat : o = 1
    OBVIOUS
  <2>2. o <= prvBytesInBuffer(b) /\ c = prvReadBytesFromBuffer(b, o)
    BY <1>1, <2>1
  <2>3. /\ BufferOK(c) /\ prvBytesInBuffer(c) = n - o
        /\ c.in = b.in /\ c.out = b.out
        /\ xStreamBufferSpacesAvailable(c) = xStreamBufferSpacesAvailable(b) + o
        /\ xStreamBufferSpacesAvailable(b) \in Nat
        /\ \A i \in 1 .. n - o : Content(c)[i] = Content(b)[o + i]
    BY <2>2, ReadOK
  <2>4. c.message = b.message
    BY DEF prvReadBytesFromBuffer, BufferOK, BufferFields
  <2> QED
    BY <2>1, <2>3, <2>4
<1>3. /\ UnreadCount(b, 0) = n /\ \A i \in 1 .. n : Unread(b, 0)[i] = Content(b)[i]
  BY <1>1, UnreadIs
<1>4. /\ UnreadCount(c, m) = n /\ Unread(c, m)[1] = m
      /\ \A i \in 1 .. n - 1 : Unread(c, m)[1 + i] = Content(c)[i]
  BY <1>1, <1>2, UnreadIs
<1>5. Unread(c, m) = Unread(b, 0)
  <2>1. DOMAIN Unread(b, 0) = 1 .. n /\ DOMAIN Unread(c, m) = 1 .. n
    BY <1>3, <1>4 DEF Unread
  <2>2. ASSUME NEW i \in 1 .. n PROVE Unread(c, m)[i] = Unread(b, 0)[i]
    <3>1. CASE i = 1
      BY <1>3, <1>4, <3>1
    <3>2. CASE i # 1
      <4>1. i - 1 \in 1 .. n - 1 /\ 1 + (i - 1) = i
        BY <1>1, <3>2
      <4> QED
        BY <1>2, <1>3, <1>4, <4>1
    <3> QED
      BY <3>1, <3>2
  <2>3. /\ Unread(b, 0) = [i \in 1 .. n |-> Unread(b, 0)[i]]
        /\ Unread(c, m) = [i \in 1 .. n |-> Unread(c, m)[i]]
    BY <1>3, <1>4, Zenon DEF Unread
  <2> QED
    BY <2>2, <2>3
<1>6. InOrderIn(c, partly, m, Z)
  BY <1>2, <1>3, <1>4, <1>5, Zenon DEF InOrderIn
<1>10. n - 1 # 0
  BY <1>1
<1>12. c.message
  BY <1>2
<1>7. RestFor(c, m)
  BY <1>1, <1>2, <1>10, <1>12 DEF RestFor
<1>8. ASSUME NEW size, SpaceFor(b, size) PROVE SpaceFor(c, size)
  BY <1>2, <1>8 DEF SpaceFor
<1>9. ASSUME partly, NEW size, DataFor(b, size) PROVE DataFor(c, size)
  <2>1. Content(b)[n] = size /\ size \in Nat \ {0} /\ size <= xStreamBufferSpacesAvailable(b)
    BY <1>9 DEF DataFor
  <2>2. n - 1 \in 1 .. n - 1 /\ 1 + (n - 1) = n /\ n - 1 # 0
    BY <1>1
  <2>3. Content(c)[n - 1] = size
    BY <1>2, <2>1, <2>2
  <2>4. size <= xStreamBufferSpacesAvailable(c)
    BY <1>2, <2>1
  <2> QED
    BY <1>2, <1>10, <1>12, <2>1, <2>2, <2>3, <2>4 DEF DataFor
<1> QED
  BY <1>2, <1>6, <1>7, <1>8, <1>9 DEF LeavesSpace

\* Read: bytes of a stream, or the data of a message.
CanRead(b, m, partly, taken, Z) ==
    /\ BufferOK(b) /\ partly \in BOOLEAN /\ taken \in Nat /\ InOrderIn(b, partly, taken, Z)
    /\ partly => b.message
    /\ m \in Nat \ {0} /\ (~b.message => m <= prvBytesInBuffer(b))
    /\ b.message => m = taken /\ prvBytesInBuffer(b) # 0
ReadFrom(b, c, m, partly, Z) ==
    /\ BufferOK(c) /\ InOrderIn(c, partly, 0, Z) /\ c.message = b.message /\ c.out = b.out + m
    /\ LeavesSpace(b, c, partly)
    /\ Peek(b, m) = [i \in 1 .. m |-> b.out + i]
LEMMA TakenOK ==
    ASSUME NEW b, NEW m, NEW partly, NEW taken, NEW Z, CanRead(b, m, partly, taken, Z), NEW c, c = Read(b, m)
    PROVE  ReadFrom(b, c, m, partly, Z)
<1>0. /\ BufferOK(b) /\ partly \in BOOLEAN /\ taken \in Nat /\ InOrderIn(b, partly, taken, Z)
      /\ partly => b.message
      /\ m \in Nat \ {0} /\ (~b.message => m <= prvBytesInBuffer(b))
      /\ b.message => m = taken /\ prvBytesInBuffer(b) # 0
  BY DEF CanRead
<1> USE <1>0
<1> DEFINE w == prvReadBytesFromBuffer(b, m)
           n == prvBytesInBuffer(b)
           u == Unread(b, m)
<1>1. n \in Nat /\ xStreamBufferSpacesAvailable(b) \in Nat
  BY SpaceAndBytes DEF BufferOK, StreamOK
<1>2. b.message \in BOOLEAN /\ b.in \in Nat /\ b.out \in Nat
  BY DEF BufferOK
<1>3. b.message =>
        /\ \E N : Framed(u, n + 1, N, b.out, b.in, partly, Z)
        /\ u[1] = m /\ \A i \in 1 .. n : u[1 + i] = Content(b)[i]
  <2> SUFFICES ASSUME b.message
               PROVE  /\ \E N : Framed(u, n + 1, N, b.out, b.in, partly, Z)
                      /\ u[1] = m /\ \A i \in 1 .. n : u[1 + i] = Content(b)[i]
    OBVIOUS
  <2>1. UnreadCount(b, m) = n + 1 /\ u[1] = m /\ \A i \in 1 .. n : u[1 + i] = Content(b)[i]
    BY UnreadIs
  <2> QED
    BY <2>1 DEF InOrderIn
<1> HIDE DEF u
<1>4. /\ m <= n /\ \A i \in 1 .. m : Content(b)[i] = b.out + i
      /\ b.message => \A d : (\A i \in 1 .. n - m : d[i] = Content(b)[m + i]) =>
                          \E M : Framed(d, n - m, M, b.out + m, b.in, partly, Z)
      /\ ~b.message => b.in = b.out + n /\ \A i \in 1 .. n : Content(b)[i] = b.out + i
  <2>1. CASE b.message
    <3>1. PICK N : Framed(u, n + 1, N, b.out, b.in, partly, Z)
      BY <1>3, <2>1
    <3>2. n + 1 # 0 /\ n + 1 \in Nat /\ ~(partly /\ n + 1 = 1)
      BY <1>1, <2>1
    <3>3. ASSUME NEW d, \A i \in 1 .. (n + 1) - (1 + u[1]) : d[i] = u[1 + u[1] + i]
          PROVE  /\ u[1] \in Nat \ {0} /\ 1 + u[1] <= n + 1
                 /\ \A i \in 1 .. u[1] : u[1 + i] = b.out + i
                 /\ \E M : Framed(d, (n + 1) - (1 + u[1]), M, b.out + u[1], b.in, partly, Z)
      <4> HIDE DEF n
      <4> QED
        BY <1>2, <3>1, <3>2, <3>3, MessageFramed
    <3>4. m <= n /\ \A i \in 1 .. m : u[1 + i] = b.out + i
      <4>1. \E d : \A i \in 1 .. (n + 1) - (1 + u[1]) : d[i] = u[1 + u[1] + i]
        <5>1. \A i \in 1 .. (n + 1) - (1 + u[1]) :
                 [j \in 1 .. (n + 1) - (1 + u[1]) |-> u[1 + u[1] + j]][i] = u[1 + u[1] + i]
          OBVIOUS
        <5> QED
          BY <5>1
      <4> QED
        BY <1>1, <1>3, <2>1, <3>3, <4>1
    <3>5. ASSUME NEW d, \A i \in 1 .. n - m : d[i] = Content(b)[m + i]
          PROVE  \E M : Framed(d, n - m, M, b.out + m, b.in, partly, Z)
      <4>1. (n + 1) - (1 + u[1]) = n - m
        BY <1>1, <1>3, <2>1
      <4>2. \A i \in 1 .. n - m : d[i] = u[1 + u[1] + i]
        <5> TAKE i \in 1 .. n - m
        <5>1. m + i \in 1 .. n /\ 1 + u[1] + i = 1 + (m + i)
          BY <1>1, <1>3, <2>1
        <5> QED
          BY <1>3, <2>1, <3>5, <5>1
      <4>3. \E M : Framed(d, (n + 1) - (1 + u[1]), M, b.out + u[1], b.in, partly, Z)
        BY <3>3, <4>1, <4>2
      <4> QED
        BY <1>3, <2>1, <4>1, <4>3
    <3>6. \A i \in 1 .. m : Content(b)[i] = b.out + i
      <4> TAKE i \in 1 .. m
      <4>1. i \in 1 .. n
        BY <1>1, <3>4
      <4> QED
        BY <1>3, <2>1, <3>4, <4>1
    <3> QED
      BY <2>1, <3>4, <3>5, <3>6
  <2>2. CASE ~b.message
    <3>1. Bytes(Content(b), n, b.out, b.in)
      BY <2>2 DEF InOrderIn
    <3>2. m <= n /\ b.in = b.out + n /\ \A i \in 1 .. n : Content(b)[i] = b.out + i
      BY <2>2, <3>1 DEF Bytes
    <3>3. \A i \in 1 .. m : i \in 1 .. n
      BY <1>1, <3>2
    <3> QED
      BY <2>2, <3>2, <3>3
  <2> QED
    BY <1>2, <2>1, <2>2
<1>6. /\ BufferOK(w) /\ prvBytesInBuffer(w) = n - m
      /\ w.message = b.message /\ w.in = b.in /\ w.out = b.out
      /\ xStreamBufferSpacesAvailable(w) = xStreamBufferSpacesAvailable(b) + m
      /\ \A i \in 1 .. n - m : Content(w)[i] = Content(b)[m + i]
  BY <1>4, ReadOK
<1>7. c = [w EXCEPT !.out = w.out + m]
  <2>1. m # 0
    OBVIOUS
  <2> QED
    BY <2>1, Zenon DEF Read, w
<1> HIDE DEF w, n
<1>8. /\ DOMAIN c = BufferFields /\ c.out = b.out + m /\ \A f \in BufferFields \ {"out"} : c[f] = w[f]
  BY <1>6, <1>7 DEF BufferOK, BufferFields
<1>9. /\ c.length = w.length /\ c.head = w.head /\ c.tail = w.tail /\ c.buf = w.buf
      /\ c.message = w.message /\ c.in = w.in
  BY <1>8 DEF BufferFields
<1>10. BufferOK(c)
  BY <1>2, <1>6, <1>8, <1>9 DEF BufferOK, StreamOK
<1>11. Content(c) = Content(w) /\ prvBytesInBuffer(c) = prvBytesInBuffer(w)
       /\ xStreamBufferSpacesAvailable(c) = xStreamBufferSpacesAvailable(w)
  BY <1>9, Zenon DEF Content, Peek, prvBytesInBuffer, xStreamBufferSpacesAvailable
<1>12. /\ prvBytesInBuffer(c) = n - m /\ n - m \in Nat
       /\ xStreamBufferSpacesAvailable(c) = xStreamBufferSpacesAvailable(b) + m
       /\ c.message = b.message /\ c.in = b.in
       /\ \A i \in 1 .. n - m : Content(c)[i] = Content(b)[m + i]
  BY <1>1, <1>4, <1>6, <1>9, <1>11
<1>13. UnreadCount(c, 0) = n - m /\ \A i \in 1 .. n - m : Unread(c, 0)[i] = Content(c)[i]
  BY <1>10, <1>12, UnreadIs
<1>14. Peek(b, m) = [i \in 1 .. m |-> b.out + i]
  <2>1. \A i \in 1 .. m : Peek(b, m)[i] = b.out + i
    <3> TAKE i \in 1 .. m
    <3>1. m <= prvBytesInBuffer(b)
      BY <1>4 DEF n
    <3>2. Peek(b, m)[i] = Content(b)[i]
      BY <3>1, PeekedByte
    <3> QED
      BY <1>4, <3>2
  <2>2. Peek(b, m) = [i \in 1 .. m |-> Peek(b, m)[i]]
    BY DEF Peek
  <2> QED
    BY <2>1, <2>2
<1>15. InOrderIn(c, partly, 0, Z) /\ (partly => n - m # 0)
  <2>1. CASE b.message
    <3> DEFINE v == Unread(c, 0)
    <3>1. \A i \in 1 .. n - m : v[i] = Content(b)[m + i]
      BY <1>12, <1>13
    <3> HIDE DEF v
    <3>2. PICK M : Framed(v, n - m, M, b.out + m, b.in, partly, Z)
      BY <1>4, <2>1, <3>1
    <3>3. InOrderIn(c, partly, 0, Z)
      BY <1>8, <1>12, <1>13, <2>1, <3>2, Zenon DEF InOrderIn, v
    <3>4. partly => n - m # 0
      BY <1>12, <3>2 DEF Framed
    <3> QED
      BY <3>3, <3>4
  <2>2. CASE ~b.message
    <3>2. b.in = (b.out + m) + (n - m) /\ \A i \in 1 .. n - m : Content(c)[i] = (b.out + m) + i
      <4>1. b.in = (b.out + m) + (n - m)
        BY <1>1, <1>2, <1>4, <2>2
      <4>2. ASSUME NEW i \in 1 .. n - m PROVE Content(c)[i] = (b.out + m) + i
        <5>1. m + i \in 1 .. n /\ b.out + (m + i) = (b.out + m) + i
          BY <1>1, <1>2, <1>4
        <5> QED
          BY <1>4, <1>12, <2>2, <5>1
      <4> QED
        BY <4>1, <4>2
    <3>3. Bytes(Content(c), n - m, b.out + m, b.in)
      BY <3>2 DEF Bytes
    <3> QED
      BY <1>8, <1>12, <2>2, <3>3, Zenon DEF InOrderIn
  <2> QED
    BY <1>2, <2>1, <2>2
<1>16. ASSUME NEW size, SpaceFor(b, size) PROVE SpaceFor(c, size)
  BY <1>1, <1>12, <1>16 DEF SpaceFor
<1>17. ASSUME partly, NEW size, DataFor(b, size) PROVE DataFor(c, size)
  <2>1. size \in Nat \ {0} /\ size <= xStreamBufferSpacesAvailable(c) /\ c.message
    BY <1>1, <1>12, <1>17 DEF DataFor
  <2>2. Content(b)[n] = size
    BY <1>17 DEF DataFor, n
  <2>3. n - m \in 1 .. n - m /\ m + (n - m) = n /\ n - m # 0
    BY <1>1, <1>12, <1>15, <1>17
  <2>4. Content(c)[n - m] = size
    BY <1>12, <2>2, <2>3
  <2> QED
    BY <1>12, <2>1, <2>3, <2>4 DEF DataFor
<1> QED
  BY <1>8, <1>10, <1>12, <1>14, <1>15, <1>16, <1>17 DEF LeavesSpace, ReadFrom

\* The bytes there are can be read, whole messages of them.
LEMMA AvailableOK ==
    ASSUME NEW b, BufferOK(b), NEW partly \in BOOLEAN, NEW Z, InOrderIn(b, partly, 0, Z)
    PROVE  BytesFor(b, prvBytesInBuffer(b))
<1>1. prvBytesInBuffer(b) \in Nat
  BY SpaceAndBytes DEF BufferOK, StreamOK
<1> DEFINE n == prvBytesInBuffer(b)
           m == Content(b)[1]
<1>2. b.message /\ n > 1 => m \in Nat /\ 1 + m <= n
  BY FirstMessage
<1>3. b.message /\ n > 1 => m < n
  <2> HIDE DEF n, m
  <2> QED
    BY <1>1, <1>2 DEF n
<1> QED
  BY <1>1, <1>3 DEF BytesFor

LEMMA SpaceOK ==
    ASSUME NEW b, BufferOK(b)
    PROVE  SpaceFor(b, xStreamBufferSpacesAvailable(b)) /\ SpaceFor(b, 0)
<1>1. xStreamBufferSpacesAvailable(b) \in Nat
  BY SpaceAndBytes DEF BufferOK, StreamOK
<1> QED
  BY <1>1 DEF SpaceFor

\* A buffer as it was initialised.
LEMMA EmptyOK ==
    ASSUME NEW b, DOMAIN b = BufferFields, b.length \in Nat \ {0}, b.head = 0, b.tail = 0,
           DOMAIN b.buf = 0 .. b.length - 1, b.message \in BOOLEAN, b.in \in Nat, b.out = b.in
    PROVE  /\ BufferOK(b) /\ \A Z : InOrderIn(b, FALSE, 0, Z)
           /\ xStreamBufferSpacesAvailable(b) = b.length - 1
<1>1. BufferOK(b)
  BY DEF BufferOK, StreamOK, BufferFields
<1>2. prvBytesInBuffer(b) = 0 /\ xStreamBufferSpacesAvailable(b) = b.length - 1
  BY DEF prvBytesInBuffer, xStreamBufferSpacesAvailable
<1>4. UnreadCount(b, 0) = 0
  BY <1>2 DEF UnreadCount
<1>3. ASSUME NEW Z PROVE InOrderIn(b, FALSE, 0, Z)
  <2> DEFINE N == [i \in {} |-> 0]
  <2>1. Framed(Unread(b, 0), 0, N, b.out, b.in, FALSE, Z)
    BY DEF Framed
  <2>2. Bytes(Content(b), 0, b.out, b.in)
    BY DEF Bytes
  <2> QED
    BY <1>2, <1>4, <2>1, <2>2, Zenon DEF InOrderIn
<1> QED
  BY <1>1, <1>2, <1>3

LEMMA SameCounts ==
    ASSUME NEW b, NEW c, BufferOK(b), SameBytes(b, c)
    PROVE  \A size : /\ SpaceFor(b, size) => SpaceFor(c, size)
                     /\ DataFor(b, size) => DataFor(c, size)
                     /\ BytesFor(b, size) => BytesFor(c, size)
                     /\ RestFor(b, size) => RestFor(c, size)
<1>1. /\ Content(c) = Content(b) /\ prvBytesInBuffer(c) = prvBytesInBuffer(b)
      /\ xStreamBufferSpacesAvailable(c) = xStreamBufferSpacesAvailable(b)
  BY SameBytesOK
<1>2. c.message = b.message
  BY DEF SameBytes, BufferFields
<1> QED
  BY <1>1, <1>2, Zenon DEF SpaceFor, DataFor, BytesFor, RestFor

----------------------------------------------------------------------------
(* The heap                                                                 *)

\* The least of some natural numbers.
LEMMA LeastIs ==
    ASSUME NEW S \in SUBSET Nat, S # {}
    PROVE  Min(S) \in S /\ \A y \in S : Min(S) <= y
<1>1. \E x \in S : \A y \in S : ~(<<y, x>> \in OpToRel(<, Nat))
  BY NatLessThanWellFounded, WFMin
<1>2. \E x \in S : \A y \in S : x <= y
  <2>1. PICK x \in S : \A y \in S : ~(<<y, x>> \in OpToRel(<, Nat))
    BY <1>1
  <2>2. \A y \in S : <<y, x>> \in OpToRel(<, Nat) <=> y < x
    BY DEF OpToRel
  <2>3. \A y \in S : ~(y < x)
    BY <2>1, <2>2
  <2>4. \A y \in S : y \in Nat /\ x \in Nat
    OBVIOUS
  <2> QED
    BY <2>3, <2>4
<1> QED
  BY <1>2 DEF Min

Block == [at : Nat, size : Nat \ {0}]

LEMMA FirstFits ==
    ASSUME NEW z, z.free \in Seq(Block), NEW size \in Nat
    PROVE  FirstFit(z, size) = 0
           \/ (FirstFit(z, size) \in DOMAIN z.free /\ z.free[FirstFit(z, size)].size >= size)
<1> DEFINE I == {i \in 1 .. Len(z.free) : z.free[i].size >= size}
<1>1. FirstFit(z, size) = IF I # {} THEN Min(I) ELSE 0
  BY DEF FirstFit, SelectInSeq
<1>2. I \in SUBSET Nat /\ DOMAIN z.free = 1 .. Len(z.free)
  OBVIOUS
<1>3. \A i \in I : i \in DOMAIN z.free /\ z.free[i].size >= size
  BY <1>2
<1> HIDE DEF I
<1>4. I # {} => Min(I) \in I
  BY <1>2, LeastIs
<1> QED
  BY <1>1, <1>3, <1>4

\* Where prvInsertBlockIntoFreeList stops.
LEMMA BlocksBelowIs ==
    ASSUME NEW free \in Seq(Block), InOrderApart(free), NEW at \in Nat
    PROVE  /\ BlocksBelow(free, at) \in 0 .. Len(free)
           /\ \A i \in DOMAIN free : i <= BlocksBelow(free, at) <=> free[i].at < at
<1> DEFINE I == {i \in 1 .. Len(free) : free[i].at >= at}
           next == IF I # {} THEN Min(I) ELSE 0
<1>1. BlocksBelow(free, at) = IF next = 0 THEN Len(free) ELSE next - 1
  BY DEF BlocksBelow, SelectInSeq
<1>2. \A i \in DOMAIN free : free[i].at \in Nat /\ free[i].size \in Nat \ {0}
  <2> TAKE i \in DOMAIN free
  <2>1. free[i] \in Block
    OBVIOUS
  <2> QED
    BY <2>1 DEF Block
<1>3. CASE I = {}
  <2>1. BlocksBelow(free, at) = Len(free)
    BY <1>1, <1>3
  <2>2. \A i \in DOMAIN free : i <= Len(free) /\ free[i].at < at
    BY <1>2, <1>3
  <2> QED
    BY <2>1, <2>2
<1>4. CASE I # {}
  <2>1. next \in I /\ \A y \in I : next <= y
    <3>1. I \in SUBSET Nat
      OBVIOUS
    <3>2. Min(I) \in I /\ \A y \in I : Min(I) <= y
      BY <1>4, <3>1, LeastIs
    <3> QED
      BY <1>4, <3>2
  <2> HIDE DEF next
  <2>2. \A i \in DOMAIN free : i < next => free[i].at < at
    BY <1>2, <2>1
  <2>3. \A i \in DOMAIN free : i >= next => free[i].at >= at
    <3> TAKE i \in DOMAIN free
    <3> HAVE i >= next
    <3>1. next \in DOMAIN free /\ free[next].at >= at
      BY <2>1
    <3>2. CASE i = next
      BY <3>1, <3>2
    <3>3. CASE i > next
      <4>1. BlockEnd(free[next]) < free[i].at
        BY <3>1, <3>3 DEF InOrderApart
      <4> QED
        BY <1>2, <3>1, <4>1 DEF BlockEnd
    <3> QED
      BY <2>1, <3>2, <3>3
  <2> QED
    <3>1. next \in 1 .. Len(free) /\ BlocksBelow(free, at) = next - 1
      BY <1>1, <2>1
    <3>2. \A i \in DOMAIN free : i \in Nat /\ free[i].at \in Nat
      BY <1>2
    <3> QED
      BY <2>2, <2>3, <3>1, <3>2
<1> QED
  BY <1>3, <1>4

\* A piece of a sequence replaced by one element, or removed.
Spliced(f, l, m, r) == SubSeq(f, 1, l) \o <<m>> \o SubSeq(f, r, Len(f))

LEMMA Splice ==
    ASSUME NEW f \in Seq(Block), NEW l \in 0 .. Len(f), NEW r \in (l + 1) .. (Len(f) + 1), NEW m \in Block
    PROVE  /\ Spliced(f, l, m, r) \in Seq(Block)
           /\ Len(Spliced(f, l, m, r)) = l + 1 + (Len(f) + 1 - r)
           /\ \A i \in 1 .. (l + 1 + (Len(f) + 1 - r)) :
                  Spliced(f, l, m, r)[i] = IF i <= l THEN f[i] ELSE IF i = l + 1 THEN m ELSE f[i - l - 2 + r]
<1> DEFINE a == SubSeq(f, 1, l)
           c == SubSeq(f, r, Len(f))
           b == a \o <<m>>
<1>1. a \in Seq(Block) /\ Len(a) = l /\ \A i \in 1 .. l : a[i] = f[i]
  BY SubSeqProperties
<1>2. c \in Seq(Block) /\ Len(c) = Len(f) + 1 - r /\ \A i \in 1 .. (Len(f) + 1 - r) : c[i] = f[r + i - 1]
  BY SubSeqProperties
<1> HIDE DEF a, c
<1>3. b \in Seq(Block) /\ Len(b) = l + 1 /\ \A i \in 1 .. (l + 1) : b[i] = IF i <= l THEN f[i] ELSE m
  BY <1>1, ConcatProperties
<1> HIDE DEF b
<1>7. b \in Seq(Block) /\ c \in Seq(Block)
  BY <1>2, <1>3
<1>4. b \o c \in Seq(Block) /\ Len(b \o c) = Len(b) + Len(c)
  BY ONLY <1>7, ConcatProperties
<1>5. \A i \in 1 .. (Len(b) + Len(c)) : (b \o c)[i] = IF i <= Len(b) THEN b[i] ELSE c[i - Len(b)]
  BY ONLY <1>7, ConcatProperties
<1>6. ASSUME NEW i \in 1 .. (l + 1 + (Len(f) + 1 - r))
      PROVE  (b \o c)[i] = IF i <= l THEN f[i] ELSE IF i = l + 1 THEN m ELSE f[i - l - 2 + r]
  <2> DEFINE e == (b \o c)[i]
  <2>1. e = IF i <= Len(b) THEN b[i] ELSE c[i - Len(b)]
    BY <1>2, <1>3, <1>5
  <2> HIDE DEF e
  <2>2. CASE i <= l + 1
    BY <1>3, <2>1, <2>2 DEF e
  <2>3. CASE i > l + 1
    <3>1. i - (l + 1) \in 1 .. (Len(f) + 1 - r) /\ ~(i <= l + 1) /\ ~(i <= l) /\ i # l + 1
          /\ r + (i - (l + 1)) - 1 = i - l - 2 + r
      BY <2>3
    <3>2. e = c[i - (l + 1)]
      BY <1>3, <2>1, <3>1
    <3> QED
      BY <1>2, <3>1, <3>2 DEF e
  <2>4. i <= l + 1 \/ i > l + 1
    OBVIOUS
  <2> QED
    BY <2>2, <2>3, <2>4, Zenon
<1> QED
  BY <1>2, <1>3, <1>4, <1>6 DEF a, b, c, Spliced

LEMMA RemoveOne ==
    ASSUME NEW f \in Seq(Block), NEW n \in DOMAIN f
    PROVE  /\ RemoveAt(f, n) \in Seq(Block)
           /\ Len(RemoveAt(f, n)) = Len(f) - 1
           /\ \A i \in 1 .. (Len(f) - 1) : RemoveAt(f, n)[i] = IF i < n THEN f[i] ELSE f[i + 1]
<1> DEFINE a == SubSeq(f, 1, n - 1)
           c == SubSeq(f, n + 1, Len(f))
<1>1. a \in Seq(Block) /\ Len(a) = n - 1 /\ \A i \in 1 .. (n - 1) : a[i] = f[i]
  BY SubSeqProperties
<1>2. c \in Seq(Block) /\ Len(c) = Len(f) - n /\ \A i \in 1 .. (Len(f) - n) : c[i] = f[n + 1 + i - 1]
  BY SubSeqProperties
<1> HIDE DEF a, c
<1>3. RemoveAt(f, n) = a \o c
  BY DEF RemoveAt, a, c
<1>7. a \in Seq(Block) /\ c \in Seq(Block)
  BY <1>1, <1>2
<1>4. a \o c \in Seq(Block) /\ Len(a \o c) = Len(a) + Len(c)
  BY ONLY <1>7, ConcatProperties
<1>5. \A i \in 1 .. (Len(a) + Len(c)) : (a \o c)[i] = IF i <= Len(a) THEN a[i] ELSE c[i - Len(a)]
  BY ONLY <1>7, ConcatProperties
<1>6. ASSUME NEW i \in 1 .. (Len(f) - 1)
      PROVE  (a \o c)[i] = IF i < n THEN f[i] ELSE f[i + 1]
  <2> DEFINE e == (a \o c)[i]
  <2>1. e = IF i <= Len(a) THEN a[i] ELSE c[i - Len(a)]
    BY <1>1, <1>2, <1>5
  <2> HIDE DEF e
  <2>2. CASE i < n
    BY <1>1, <2>1, <2>2 DEF e
  <2>3. CASE i >= n
    <3>1. i - (n - 1) \in 1 .. (Len(f) - n) /\ ~(i <= n - 1) /\ ~(i < n)
          /\ n + 1 + (i - (n - 1)) - 1 = i + 1
      BY <2>3
    <3>2. e = c[i - (n - 1)]
      BY <1>1, <2>1, <3>1
    <3> QED
      BY <1>2, <3>1, <3>2 DEF e
  <2>4. i < n \/ i >= n
    OBVIOUS
  <2> QED
    BY <2>2, <2>3, <2>4, Zenon
<1> QED
  BY <1>1, <1>2, <1>3, <1>4, <1>6

\* The units of a block, and of the blocks of a free list.
LEMMA UnitsAre ==
    ASSUME NEW b, b.at \in Nat, b.size \in Nat \ {0}
    PROVE  /\ BlockEnd(b) \in Nat /\ b.at < BlockEnd(b)
           /\ \A u : u \in Units(b) <=> u \in Nat /\ b.at <= u /\ u < BlockEnd(b)
BY DEF Units, BlockEnd

LEMMA CoveredAre ==
    ASSUME NEW f, NEW u
    PROVE  u \in Covered(ToSet(f)) <=> \E i \in DOMAIN f : u \in Units(f[i])
BY DEF Covered, ToSet

LEMMA BlocksAre ==
    ASSUME NEW free \in Seq(Block), NEW i \in DOMAIN free
    PROVE  /\ free[i].at \in Nat /\ free[i].size \in Nat \ {0}
           /\ BlockEnd(free[i]) \in Nat /\ free[i].at < BlockEnd(free[i])
           /\ \A u : u \in Units(free[i]) <=> u \in Nat /\ free[i].at <= u /\ u < BlockEnd(free[i])
<1>1. free[i] \in Block
  OBVIOUS
<1>2. free[i].at \in Nat /\ free[i].size \in Nat \ {0}
  BY <1>1 DEF Block
<1> QED
  BY <1>2, UnitsAre

LEMMA FreeDisjoint ==
    ASSUME NEW free \in Seq(Block), InOrderApart(free), NEW i \in DOMAIN free, NEW j \in DOMAIN free, i # j
    PROVE  Units(free[i]) \cap Units(free[j]) = {}
<1>1. BlockEnd(free[i]) < free[j].at \/ BlockEnd(free[j]) < free[i].at
  <2>1. i < j \/ j < i
    OBVIOUS
  <2> QED
    BY <2>1 DEF InOrderApart
<1>2. ASSUME NEW u, u \in Units(free[i]), u \in Units(free[j])
      PROVE  FALSE
  <2>1. u \in Nat /\ free[i].at <= u /\ u < BlockEnd(free[i])
    BY <1>2, BlocksAre
  <2>2. u \in Nat /\ free[j].at <= u /\ u < BlockEnd(free[j])
    BY <1>2, BlocksAre
  <2>3. free[i].at \in Nat /\ free[j].at \in Nat /\ BlockEnd(free[i]) \in Nat /\ BlockEnd(free[j]) \in Nat
    BY BlocksAre
  <2> QED
    BY ONLY <1>1, <2>1, <2>2, <2>3
<1> QED
  BY <1>2

\* A free list of some units.
FreeListOf(o, units) == o \in Seq(Block) /\ InOrderApart(o) /\ Covered(ToSet(o)) = units

\* pvPortMalloc takes a block out of the list.
LEMMA RemovedUnits ==
    ASSUME NEW free \in Seq(Block), InOrderApart(free), NEW n \in DOMAIN free
    PROVE  FreeListOf(RemoveAt(free, n), Covered(ToSet(free)) \ Units(free[n]))
<1> DEFINE o == RemoveAt(free, n)
<1>1. o \in Seq(Block) /\ Len(o) = Len(free) - 1
      /\ \A i \in 1 .. (Len(free) - 1) : o[i] = IF i < n THEN free[i] ELSE free[i + 1]
  BY RemoveOne
<1> HIDE DEF o
<1>2. DOMAIN o = 1 .. (Len(free) - 1) /\ DOMAIN free = 1 .. Len(free) /\ n \in 1 .. Len(free)
      /\ Len(free) \in Nat
  BY <1>1
<1>3. InOrderApart(o)
  <2> SUFFICES ASSUME NEW i \in DOMAIN o, NEW j \in DOMAIN o, i < j
               PROVE  BlockEnd(o[i]) < o[j].at
    BY DEF InOrderApart
  <2> DEFINE x == IF i < n THEN i ELSE i + 1
             y == IF j < n THEN j ELSE j + 1
  <2>1. x \in DOMAIN free /\ y \in DOMAIN free /\ x < y
    BY <1>2
  <2>2. o[i] = free[x] /\ o[j] = free[y]
    BY <1>1, <1>2
  <2> HIDE DEF x, y
  <2> QED
    BY <2>1, <2>2 DEF InOrderApart
<1>4. ASSUME NEW u \in Covered(ToSet(o)) PROVE u \in Covered(ToSet(free)) /\ u \notin Units(free[n])
  <2>1. PICK i \in DOMAIN o : u \in Units(o[i])
    BY <1>4, CoveredAre
  <2> DEFINE x == IF i < n THEN i ELSE i + 1
  <2>2. x \in DOMAIN free /\ x # n
    BY <1>2
  <2>3. o[i] = free[x]
    BY <1>1, <1>2
  <2> HIDE DEF x
  <2> QED
    BY <2>1, <2>2, <2>3, CoveredAre, FreeDisjoint
<1>5. ASSUME NEW u \in Covered(ToSet(free)), u \notin Units(free[n]) PROVE u \in Covered(ToSet(o))
  <2>1. PICK x \in DOMAIN free : u \in Units(free[x])
    BY <1>5, CoveredAre
  <2> DEFINE i == IF x < n THEN x ELSE x - 1
  <2>2. x # n
    BY <1>5, <2>1
  <2>3. i \in DOMAIN o /\ o[i] = free[x]
    BY <1>1, <1>2, <2>1, <2>2
  <2> HIDE DEF i
  <2> QED
    BY <2>1, <2>3, CoveredAre
<1> QED
  BY <1>1, <1>3, <1>4, <1>5 DEF o, FreeListOf

\* Blocks l+1 to r-1 can make way for one, of the given ends, that covers them
\* and b and keeps apart from the others.
CanReplace(free, l, r, from, upTo, b) ==
    /\ from < upTo
    /\ \A i \in 1 .. l : BlockEnd(free[i]) < from
    /\ \A i \in r .. Len(free) : upTo < free[i].at
    /\ \A u \in Nat : from <= u /\ u < upTo
                       <=> u \in Units(b) \/ \E i \in (l + 1) .. (r - 1) : u \in Units(free[i])
    /\ Units(b) \subseteq Nat

LEMMA SplicedUnits ==
    ASSUME NEW free \in Seq(Block), InOrderApart(free), NEW l \in 0 .. Len(free),
           NEW r \in (l + 1) .. (Len(free) + 1), NEW from \in Nat, NEW upTo \in Nat, NEW b,
           CanReplace(free, l, r, from, upTo, b)
    PROVE  FreeListOf(Spliced(free, l, [at |-> from, size |-> upTo - from], r),
                      Covered(ToSet(free)) \cup Units(b))
<1> DEFINE m == [at |-> from, size |-> upTo - from]
           o == Spliced(free, l, m, r)
           n == l + 1 + (Len(free) + 1 - r)
<1>0. /\ from < upTo
      /\ \A i \in 1 .. l : BlockEnd(free[i]) < from
      /\ \A i \in r .. Len(free) : upTo < free[i].at
      /\ \A u \in Nat : from <= u /\ u < upTo
                         <=> u \in Units(b) \/ \E i \in (l + 1) .. (r - 1) : u \in Units(free[i])
      /\ Units(b) \subseteq Nat
  BY DEF CanReplace
<1>1. m \in Block /\ m.at = from /\ BlockEnd(m) = upTo
  BY <1>0 DEF Block, BlockEnd
<1>2. \A u : u \in Units(m) <=> u \in Nat /\ from <= u /\ u < upTo
  BY <1>0, <1>1 DEF Units
<1> HIDE DEF m
<1>3. o \in Seq(Block) /\ Len(o) = n
      /\ \A i \in 1 .. n : o[i] = IF i <= l THEN free[i] ELSE IF i = l + 1 THEN m ELSE free[i - l - 2 + r]
  <2>1. /\ free \in Seq(Block) /\ l \in 0 .. Len(free)
        /\ r \in (l + 1) .. (Len(free) + 1) /\ m \in Block
    BY <1>0, <1>1
  <2>2. Spliced(free, l, m, r) \in Seq(Block) /\ Len(Spliced(free, l, m, r)) = n
    BY ONLY <2>1, Splice
  <2>3. \A i \in 1 .. n : Spliced(free, l, m, r)[i]
            = IF i <= l THEN free[i] ELSE IF i = l + 1 THEN m ELSE free[i - l - 2 + r]
    BY ONLY <2>1, Splice
  <2> QED
    BY <2>2, <2>3
<1> HIDE DEF o
<1>4. DOMAIN o = 1 .. n /\ DOMAIN free = 1 .. Len(free) /\ Len(free) \in Nat /\ n \in Nat
  BY <1>0, <1>3
<1>5. ASSUME NEW i \in DOMAIN o
      PROVE  \/ (i <= l /\ i \in DOMAIN free /\ o[i] = free[i])
             \/ (i = l + 1 /\ o[i] = m)
             \/ (i > l + 1 /\ i - l - 2 + r \in r .. Len(free) /\ i - l - 2 + r \in DOMAIN free
                 /\ o[i] = free[i - l - 2 + r])
  <2>1. i \in 1 .. n /\ o[i] = IF i <= l THEN free[i] ELSE IF i = l + 1 THEN m ELSE free[i - l - 2 + r]
    BY <1>0, <1>3, <1>4
  <2>2. i <= l \/ i = l + 1 \/ i > l + 1
    <3>1. i \in Nat /\ l \in Nat
      BY <1>4
    <3> QED
      BY ONLY <3>1
  <2>3. i <= l => i \in DOMAIN free
    BY <1>0, <1>4, <2>1
  <2>4. i > l + 1 => i - l - 2 + r \in r .. Len(free) /\ i - l - 2 + r \in DOMAIN free /\ ~(i <= l) /\ i # l + 1
    BY <1>0, <1>4, <2>1
  <2>5. i = l + 1 => ~(i <= l)
    OBVIOUS
  <2> QED
    BY <2>1, <2>2, <2>3, <2>4, <2>5, Zenon
<1>10. l \in Nat /\ r \in Nat /\ Len(free) \in Nat /\ l < r /\ r <= Len(free) + 1
  BY <1>4
<1>6. InOrderApart(o)
  <2> SUFFICES ASSUME NEW i \in DOMAIN o, NEW j \in DOMAIN o, i < j
               PROVE  BlockEnd(o[i]) < o[j].at
    BY DEF InOrderApart
  <2> DEFINE x == i - l - 2 + r
             y == j - l - 2 + r
  <2>6. i \in Nat /\ j \in Nat
    BY <1>0, <1>4
  <2>1. CASE i <= l /\ j <= l
    <3>1. o[i] = free[i] /\ i \in DOMAIN free
      BY <1>0, <1>4, <1>5, <2>1
    <3>2. o[j] = free[j] /\ j \in DOMAIN free
      BY <1>0, <1>4, <1>5, <2>1
    <3> QED
      BY <3>1, <3>2 DEF InOrderApart
  <2>2. CASE i <= l /\ j = l + 1
    <3>1. o[i] = free[i] /\ o[j] = m /\ i \in 1 .. l
      BY <1>0, <1>5, <2>2, <1>4
    <3> QED
      BY <1>0, <1>1, <3>1
  <2>3. CASE i <= l /\ j > l + 1
    <3>1. o[i] = free[i] /\ i \in DOMAIN free
      BY <1>4, <1>5, <2>3
    <3>2. o[j] = free[y] /\ y \in DOMAIN free
      <4>1. j > l + 1 /\ ~(j <= l) /\ j # l + 1
        BY ONLY <1>10, <2>3, <2>6
      <4> QED
        BY <1>5, <4>1, Zenon
    <3>3. i < y
      BY ONLY <1>10, <2>3, <2>6
    <3> QED
      BY <3>1, <3>2, <3>3 DEF InOrderApart
  <2>4. CASE i = l + 1 /\ j > l + 1
    <3>1. o[i] = m
      BY <1>4, <1>5, <2>4
    <3>2. o[j] = free[y] /\ y \in r .. Len(free)
      <4>1. j > l + 1 /\ ~(j <= l) /\ j # l + 1
        BY ONLY <1>10, <2>4, <2>6
      <4> QED
        BY <1>5, <4>1, Zenon
    <3> QED
      BY <1>0, <1>1, <3>1, <3>2
  <2>5. CASE i > l + 1 /\ j > l + 1
    <3>1. o[i] = free[x] /\ x \in DOMAIN free
      BY <1>0, <1>5, <2>5
    <3>2. o[j] = free[y] /\ y \in DOMAIN free
      BY <1>0, <1>5, <2>5
    <3>3. x < y
      BY ONLY <1>10, <2>6, i < j
    <3> QED
      BY <3>1, <3>2, <3>3 DEF InOrderApart
  <2> QED
    BY <2>1, <2>2, <2>3, <2>4, <2>5, <2>6
<1>7. ASSUME NEW u \in Covered(ToSet(o)) PROVE u \in Covered(ToSet(free)) \cup Units(b)
  <2>1. PICK i \in DOMAIN o : u \in Units(o[i])
    BY <1>0, <1>7, CoveredAre
  <2>2. CASE i = l + 1
    <3>1. u \in Nat /\ from <= u /\ u < upTo
      BY <1>0, <1>2, <1>5, <2>1, <2>2
    <3>2. u \in Units(b) \/ \E x \in (l + 1) .. (r - 1) : u \in Units(free[x])
      BY <1>0, <3>1
    <3>3. (l + 1) .. (r - 1) \subseteq DOMAIN free
      BY <1>0, <1>4
    <3> QED
      BY <3>2, <3>3, CoveredAre
  <2>3. CASE i # l + 1
    <3>1. \E x \in DOMAIN free : o[i] = free[x]
      BY <1>0, <1>5, <2>3
    <3> QED
      BY <2>1, <3>1, CoveredAre
  <2> QED
    BY <2>2, <2>3
<1>8. ASSUME NEW u \in Covered(ToSet(free)) PROVE u \in Covered(ToSet(o))
  <2>1. PICK x \in DOMAIN free : u \in Units(free[x])
    BY <1>0, <1>8, CoveredAre
  <2>2. \E i \in DOMAIN o : u \in Units(o[i])
    <3>1. CASE x <= l
      <4>1. x \in DOMAIN o /\ x <= l
        BY <1>0, <1>4, <3>1
      <4>2. o[x] = free[x]
        BY <1>0, <1>3, <1>4, <4>1
      <4> QED
        BY <2>1, <4>1, <4>2
    <3>2. CASE x \in (l + 1) .. (r - 1)
      <4>1. l + 1 \in DOMAIN o /\ o[l + 1] = m
        BY <1>0, <1>3, <1>4
      <4>2. u \in Nat
        BY <2>1, BlocksAre
      <4> QED
        BY <1>0, <1>2, <2>1, <3>2, <4>1, <4>2
    <3>3. CASE x >= r
      <4> DEFINE i == x - r + l + 2
      <4>0. x \in Nat /\ x <= Len(free)
        BY <1>4
      <4>1. i \in 1 .. n /\ ~(i <= l) /\ i # l + 1 /\ i - l - 2 + r = x
        <5>1. 1 <= i /\ i <= n /\ i > l + 1
          BY ONLY <1>10, <3>3, <4>0
        <5>2. i \in Int /\ n \in Int
          BY ONLY <1>10, <4>0
        <5>3. i - l - 2 + r = x
          BY ONLY <1>10, <4>0
        <5>4. ~(i <= l) /\ i # l + 1
          BY ONLY <1>10, <5>1, <5>2
        <5>5. i \in 1 .. n
          BY ONLY <5>1, <5>2
        <5> QED
          BY ONLY <5>3, <5>4, <5>5, Zenon
      <4> HIDE DEF i
      <4>2. o[i] = free[x] /\ i \in DOMAIN o
        BY <1>0, <1>3, <1>4, <4>1
      <4> QED
        BY <2>1, <4>2
    <3> QED
      BY <1>0, <1>4, <3>1, <3>2, <3>3
  <2> QED
    BY <2>2, CoveredAre
<1>9. ASSUME NEW u \in Units(b) PROVE u \in Covered(ToSet(o))
  <2>1. l + 1 \in DOMAIN o /\ o[l + 1] = m
    BY <1>0, <1>3, <1>4
  <2>2. u \in Units(m)
    BY <1>0, <1>2, <1>9
  <2> QED
    BY <2>1, <2>2, CoveredAre
<1> QED
  BY <1>0, <1>3, <1>6, <1>7, <1>8, <1>9 DEF o, m, FreeListOf

\* A block that nothing of the list overlaps goes into it, joined with its
\* neighbours.
LEMMA InsertedUnits ==
    ASSUME NEW free \in Seq(Block), InOrderApart(free), NEW b, b.at \in Nat, b.size \in Nat \ {0},
           Covered(ToSet(free)) \cap Units(b) = {}
    PROVE  FreeListOf(prvInsertBlockIntoFreeList(free, b), Covered(ToSet(free)) \cup Units(b))
<1> DEFINE n     == BlocksBelow(free, b.at)
           left  == n > 0 /\ BlockEnd(free[n]) = b.at
           right == n < Len(free) /\ BlockEnd(b) = free[n + 1].at
           from  == IF left THEN free[n].at ELSE b.at
           upTo  == IF right THEN BlockEnd(free[n + 1]) ELSE BlockEnd(b)
           l     == IF left THEN n - 1 ELSE n
           r     == IF right THEN n + 2 ELSE n + 1
<1>1. prvInsertBlockIntoFreeList(free, b) = Spliced(free, l, [at |-> from, size |-> upTo - from], r)
  BY DEF prvInsertBlockIntoFreeList, Spliced
<1>2. n \in 0 .. Len(free) /\ \A i \in DOMAIN free : i <= n <=> free[i].at < b.at
  BY BlocksBelowIs
<1> HIDE DEF n
<1>3. DOMAIN free = 1 .. Len(free) /\ Len(free) \in Nat
  OBVIOUS
<1>4. BlockEnd(b) \in Nat /\ b.at < BlockEnd(b)
      /\ \A u : u \in Units(b) <=> u \in Nat /\ b.at <= u /\ u < BlockEnd(b)
  BY UnitsAre
<1>5. ASSUME NEW i \in DOMAIN free
      PROVE  /\ free[i].at \in Nat /\ BlockEnd(free[i]) \in Nat /\ free[i].at < BlockEnd(free[i])
             /\ i <= n => BlockEnd(free[i]) <= b.at
             /\ i > n => BlockEnd(b) <= free[i].at
  <2>1. free[i].at \in Nat /\ BlockEnd(free[i]) \in Nat /\ free[i].at < BlockEnd(free[i])
        /\ \A u : u \in Units(free[i]) <=> u \in Nat /\ free[i].at <= u /\ u < BlockEnd(free[i])
    BY BlocksAre
  <2>2. \A u : ~(u \in Units(free[i]) /\ u \in Units(b))
    BY CoveredAre
  <2>3. ~(b.at \in Units(free[i])) /\ ~(free[i].at \in Units(b))
    <3>1. b.at \in Units(b) /\ free[i].at \in Units(free[i])
      BY <1>4, <2>1
    <3> QED
      BY <2>2, <3>1
  <2>6. (i <= n) = (free[i].at < b.at) /\ i \in Nat /\ n \in Nat /\ b.at \in Nat
    BY <1>2, <1>3
  <2>7. b.at \in Units(free[i]) <=> free[i].at <= b.at /\ b.at < BlockEnd(free[i])
    BY <2>1
  <2>8. free[i].at \in Units(b) <=> b.at <= free[i].at /\ free[i].at < BlockEnd(b)
    BY <1>4, <2>1
  <2>4. i <= n => BlockEnd(free[i]) <= b.at
    BY ONLY <2>1, <2>3, <2>6, <2>7
  <2>5. i > n => BlockEnd(b) <= free[i].at
    BY ONLY <1>4, <2>1, <2>3, <2>6, <2>8
  <2> QED
    BY <2>1, <2>4, <2>5
<1>6. (left => n \in DOMAIN free) /\ (right => n + 1 \in DOMAIN free)
  BY <1>2, <1>3
<1>7. from \in Nat /\ upTo \in Nat /\ from <= b.at /\ BlockEnd(b) <= upTo /\ from < upTo
  <2>1. from \in Nat /\ from <= b.at
    BY <1>5, <1>6
  <2>2. upTo \in Nat /\ BlockEnd(b) <= upTo
    BY <1>4, <1>5, <1>6
  <2> HIDE DEF from, upTo
  <2> QED
    BY <1>4, <2>1, <2>2
<1>8. l \in 0 .. Len(free) /\ r \in (l + 1) .. (Len(free) + 1)
  BY <1>2, <1>3
<1>9. ASSUME NEW i \in 1 .. l PROVE BlockEnd(free[i]) < from
  <2>1. i \in DOMAIN free /\ i <= n
    BY <1>2, <1>3, <1>9
  <2>2. CASE left
    <3>1. i < n /\ n \in DOMAIN free /\ from = free[n].at
      BY <1>2, <1>6, <1>9, <2>2
    <3> HIDE DEF from
    <3> QED
      BY <2>1, <3>1 DEF InOrderApart
  <2>3. CASE ~left
    <3>1. from = b.at /\ n > 0 /\ BlockEnd(free[n]) # b.at /\ n \in DOMAIN free
      BY <1>2, <1>3, <1>9, <2>3
    <3> HIDE DEF from
    <3>2. CASE i = n
      BY <1>5, <2>1, <3>1, <3>2
    <3>3. CASE i < n
      <4>1. BlockEnd(free[i]) < free[n].at
        BY <2>1, <3>1, <3>3 DEF InOrderApart
      <4>2. free[n].at < b.at
        BY <1>2, <3>1
      <4> QED
        BY <1>5, <2>1, <3>1, <4>1, <4>2
    <3> QED
      BY <1>2, <2>1, <3>2, <3>3
  <2> QED
    BY <2>2, <2>3
<1>10. ASSUME NEW i \in r .. Len(free) PROVE upTo < free[i].at
  <2>1. i \in DOMAIN free /\ i > n
    BY <1>2, <1>3, <1>10
  <2>2. CASE right
    <3>1. i > n + 1 /\ n + 1 \in DOMAIN free /\ upTo = BlockEnd(free[n + 1])
      BY <1>2, <1>6, <1>10, <2>2
    <3> HIDE DEF upTo
    <3> QED
      BY <2>1, <3>1 DEF InOrderApart
  <2>3. CASE ~right
    <3>1. upTo = BlockEnd(b) /\ n < Len(free) /\ BlockEnd(b) # free[n + 1].at /\ n + 1 \in DOMAIN free
      BY <1>2, <1>3, <2>1, <2>3
    <3> HIDE DEF upTo
    <3>2. CASE i = n + 1
      BY <1>4, <1>5, <2>1, <3>1, <3>2
    <3>3. CASE i > n + 1
      <4>1. BlockEnd(free[n + 1]) < free[i].at
        BY <2>1, <3>1, <3>3 DEF InOrderApart
      <4>2. BlockEnd(b) <= free[n + 1].at /\ free[n + 1].at < BlockEnd(free[n + 1])
        BY <1>2, <1>5, <3>1
      <4> QED
        BY <1>4, <1>5, <2>1, <3>1, <4>1, <4>2
    <3> QED
      BY <1>2, <2>1, <3>2, <3>3
  <2> QED
    BY <2>2, <2>3
<1>11. ASSUME NEW u \in Nat
       PROVE  from <= u /\ u < upTo <=> u \in Units(b) \/ \E i \in (l + 1) .. (r - 1) : u \in Units(free[i])
  <2>1. u < b.at => (from <= u <=> left /\ u \in Units(free[n]))
    <3>1. CASE left
      BY <1>2, <1>6, <3>1, BlocksAre
    <3>2. CASE ~left
      BY <3>2
    <3> QED
      BY <3>1, <3>2
  <2>2. u >= BlockEnd(b) => (u < upTo <=> right /\ u \in Units(free[n + 1]))
    <3>1. CASE right
      BY <1>2, <1>6, <3>1, BlocksAre
    <3>2. CASE ~right
      BY <1>4, <3>2
    <3> QED
      BY <3>1, <3>2
  <2>3. (\E i \in (l + 1) .. (r - 1) : u \in Units(free[i]))
        <=> (left /\ u \in Units(free[n])) \/ (right /\ u \in Units(free[n + 1]))
    <3>1. \A i : i \in (l + 1) .. (r - 1) <=> (left /\ i = n) \/ (right /\ i = n + 1)
      BY <1>2
    <3> HIDE DEF l, r, left, right
    <3> QED
      BY <3>1
  <2>4. left /\ u \in Units(free[n]) => u < b.at
    BY <1>6, BlocksAre
  <2>5. right /\ u \in Units(free[n + 1]) => u >= BlockEnd(b)
    BY <1>6, BlocksAre
  <2>6. u \in Units(b) <=> b.at <= u /\ u < BlockEnd(b)
    BY <1>4
  <2> HIDE DEF left, right, from, upTo, l, r
  <2> QED
    BY <1>4, <1>7, <2>1, <2>2, <2>3, <2>4, <2>5, <2>6
<1>12. Units(b) \subseteq Nat
  BY <1>4
<1> HIDE DEF left, right, from, upTo, l, r
<1> QED
  <2>1. CanReplace(free, l, r, from, upTo, b)
    BY <1>7, <1>9, <1>10, <1>11, <1>12 DEF CanReplace
  <2> QED
    <3>1. FreeListOf(Spliced(free, l, [at |-> from, size |-> upTo - from], r),
                     Covered(ToSet(free)) \cup Units(b))
      BY <1>7, <1>8, <2>1, SplicedUnits, Zenon
    <3> QED
      BY <1>1, <3>1, Zenon

LEMMA UnitsCount ==
    ASSUME NEW at \in Nat, NEW size \in Nat
    PROVE  IsFiniteSet(at .. (at + size - 1)) /\ Cardinality(at .. (at + size - 1)) = size
BY FS_Interval

LEMMA CoveredFinite ==
    ASSUME NEW z, NEW units \in Nat, HeapOK(z, units)
    PROVE  IsFiniteSet(Covered(ToSet(z.free)))
<1>1. IsFiniteSet(0 .. units - 1)
  BY FS_Interval
<1>2. Covered(ToSet(z.free)) \in SUBSET (0 .. units - 1)
  BY DEF HeapOK
<1> QED
  BY <1>1, <1>2, FS_Subset

\* vPortFree keeps the partition.
THEOREM FreeKeepsHeap ==
    ASSUME NEW z, NEW units \in Nat, HeapOK(z, units), NEW name
    PROVE  HeapOK(vPortFree(z, name), units)
<1> DEFINE b == CHOOSE b \in z.used : b.name = name
           c == [at |-> b.at, size |-> b.size]
           F == Covered(ToSet(z.free))
           free == prvInsertBlockIntoFreeList(z.free, c)
<1>1. CASE ~Allocated(z, name)
  BY <1>1 DEF vPortFree
<1>2. CASE Allocated(z, name)
  <2>1. b \in z.used
    BY <1>2 DEF Allocated
  <2>2. vPortFree(z, name) = [free |-> free, used |-> z.used \ {b}, remaining |-> z.remaining + b.size]
    BY <1>2 DEF vPortFree
  <2> HIDE DEF b
  <2>3. b.at \in Nat /\ b.size \in Nat \ {0} /\ Units(b) = b.at .. (b.at + b.size - 1)
    <3>1. b.at \in Nat /\ b.size \in Nat \ {0}
      BY <2>1 DEF HeapOK
    <3> QED
      BY <3>1 DEF Units, BlockEnd
  <2>4. Units(c) = Units(b) /\ c.at \in Nat /\ c.size \in Nat \ {0}
    BY <2>3 DEF Units, BlockEnd
  <2> HIDE DEF c
  <2>5. F \cap Units(b) = {}
    BY <2>1 DEF HeapOK, Covered
  <2>6. FreeListOf(free, F \cup Units(b))
    <3>1. z.free \in Seq(Block) /\ InOrderApart(z.free)
      BY DEF HeapOK, Block
    <3> QED
      BY <2>4, <2>5, <3>1, InsertedUnits
  <2> HIDE DEF free
  <2>7. \A x \in z.used \ {b} : Units(x) \cap Units(b) = {}
    BY <2>1 DEF HeapOK
  <2>8. Covered(z.used \ {b}) = Covered(z.used) \ Units(b)
    BY <2>1, <2>7 DEF Covered
  <2>9. Units(b) \subseteq Covered(z.used)
    BY <2>1 DEF Covered
  <2>10. z.remaining + b.size = Cardinality(F \cup Units(b))
    <3>1. IsFiniteSet(F) /\ IsFiniteSet(Units(b)) /\ Cardinality(Units(b)) = b.size
      BY <2>3, CoveredFinite, UnitsCount
    <3>2. Cardinality(F \cup Units(b)) = Cardinality(F) + Cardinality(Units(b)) - Cardinality(F \cap Units(b))
      BY <3>1, FS_Union
    <3>3. Cardinality({}) = 0 /\ Cardinality(F) \in Nat
      BY <3>1, FS_EmptySet, FS_CardinalityType
    <3> QED
      <4>1. z.remaining = Cardinality(F)
        BY DEF HeapOK
      <4> HIDE DEF F
      <4>2. Cardinality(F \cap Units(b)) = 0
        BY <2>5, <3>3
      <4> QED
        BY ONLY <2>3, <3>1, <3>2, <3>3, <4>1, <4>2
  <2> DEFINE z2 == [free |-> free, used |-> z.used \ {b}, remaining |-> z.remaining + b.size]
  <2>11. z2.free = free /\ z2.used = z.used \ {b} /\ z2.remaining = z.remaining + b.size
    OBVIOUS
  <2>12. vPortFree(z, name) = z2
    BY <2>2
  <2> HIDE DEF z2, F
  <2>13. F \cap Covered(z.used) = {} /\ F \cup Covered(z.used) = 0 .. units - 1
    BY DEF HeapOK, F
  <2>14. /\ z2.free \in Seq(Block) /\ InOrderApart(z2.free) /\ Covered(ToSet(z2.free)) = F \cup Units(b)
         /\ z2.remaining = Cardinality(Covered(ToSet(z2.free)))
    BY <2>6, <2>10, <2>11 DEF FreeListOf
  <2>15. /\ Covered(ToSet(z2.free)) \cap Covered(z2.used) = {}
         /\ Covered(ToSet(z2.free)) \cup Covered(z2.used) = 0 .. units - 1
    BY <2>8, <2>9, <2>11, <2>13, <2>14
  <2>16. /\ \A x \in z2.used : x.at \in Nat /\ x.size \in Nat \ {0}
         /\ \A x, y \in z2.used : x # y => Units(x) \cap Units(y) = {}
    BY <2>11 DEF HeapOK
  <2> QED
    BY <2>12, <2>14, <2>15, <2>16 DEF HeapOK, Block
<1> QED
  BY <1>1, <1>2

\* pvPortMalloc keeps the partition, whether it splits the block or not.
THEOREM MallocKeepsHeap ==
    ASSUME NEW z, NEW units \in Nat, HeapOK(z, units), NEW wanted \in Nat, NEW name
    PROVE  HeapOK(pvPortMalloc(z, wanted, name), units)
<1> DEFINE size   == wanted + xHeapStructSize
           i      == FirstFit(z, size)
           block  == z.free[i]
           others == RemoveAt(z.free, i)
           splits == block.size - size > heapMINIMUM_BLOCK_SIZE
           rest   == [at |-> block.at + size, size |-> block.size - size]
           given  == IF splits THEN size ELSE block.size
           b      == [name |-> name, at |-> block.at, size |-> given]
           free   == IF splits THEN prvInsertBlockIntoFreeList(others, rest) ELSE others
           z2     == [free |-> free, used |-> z.used \cup {b}, remaining |-> z.remaining - given]
           F      == Covered(ToSet(z.free))
<1>1. pvPortMalloc(z, wanted, name) = IF wanted = 0 \/ size > z.remaining \/ i = 0 THEN z ELSE z2
  BY DEF pvPortMalloc
<1>2. z.free \in Seq(Block) /\ InOrderApart(z.free)
  BY DEF HeapOK, Block
<1>3. size \in Nat \ {0}
  BY DEF xHeapStructSize
<1>4. i = 0 \/ (i \in DOMAIN z.free /\ block.size >= size)
  BY <1>2, <1>3, FirstFits
<1> HIDE DEF size, i
<1>5. CASE i = 0
  BY <1>1, <1>5
<1>6. CASE i \in DOMAIN z.free /\ block.size >= size
  <2>1. block.at \in Nat /\ block.size \in Nat \ {0}
        /\ Units(block) = block.at .. (block.at + block.size - 1)
    <3>1. block.at \in Nat /\ block.size \in Nat \ {0}
      BY <1>2, <1>6, BlocksAre
    <3> QED
      BY <3>1 DEF Units, BlockEnd
  <2>2. FreeListOf(others, F \ Units(block))
    BY <1>2, <1>6, RemovedUnits
  <2>3. Units(block) \subseteq F
    BY <1>6 DEF Covered, ToSet
  <2> HIDE DEF block, others, F
  <2>4. given \in Nat \ {0} /\ given <= block.size
    BY <1>3, <1>6, <2>1
  <2>5. Units(b) = block.at .. (block.at + given - 1) /\ b.at \in Nat /\ b.size \in Nat \ {0} /\ b.size = given
    BY <2>1, <2>4 DEF Units, BlockEnd
  <2>6. Units(b) \subseteq Units(block)
    BY <2>1, <2>4, <2>5
  <2>7. FreeListOf(free, F \ Units(b))
    <3>1. CASE splits
      <4>1. rest.at \in Nat /\ rest.size \in Nat \ {0} /\ given = size
            /\ Units(rest) = (block.at + size) .. (block.at + block.size - 1)
        <5>1. rest.at = block.at + size /\ rest.size = block.size - size /\ given = size
          BY <3>1
        <5>2. block.size - size > 2
          BY <3>1 DEF heapMINIMUM_BLOCK_SIZE, xHeapStructSize
        <5>3. BlockEnd(rest) = block.at + block.size
          BY <1>3, <2>1, <5>1 DEF BlockEnd
        <5> HIDE DEF rest, given, splits
        <5> QED
          BY <1>3, <2>1, <5>1, <5>2, <5>3 DEF Units
      <4>2. Units(rest) = Units(block) \ Units(b)
        BY <1>3, <1>6, <2>1, <2>5, <4>1
      <4>3. others \in Seq(Block) /\ InOrderApart(others) /\ Covered(ToSet(others)) = F \ Units(block)
        BY <2>2 DEF FreeListOf
      <4> HIDE DEF rest, b
      <4>4. Covered(ToSet(others)) \cap Units(rest) = {}
        BY <4>2, <4>3
      <4>5. FreeListOf(prvInsertBlockIntoFreeList(others, rest), Covered(ToSet(others)) \cup Units(rest))
        BY <4>1, <4>3, <4>4, InsertedUnits
      <4>6. Covered(ToSet(others)) \cup Units(rest) = F \ Units(b)
        BY <2>3, <2>6, <4>2, <4>3
      <4> QED
        BY <3>1, <4>5, <4>6
    <3>2. CASE ~splits
      <4>1. given = block.size
        BY <3>2
      <4>2. Units(b) = Units(block)
        BY <2>1, <2>5, <4>1
      <4> QED
        BY <2>2, <3>2, <4>2
    <3> QED
      BY <3>1, <3>2
  <2>8. z2.free = free /\ z2.used = z.used \cup {b} /\ z2.remaining = z.remaining - given
    OBVIOUS
  <2> HIDE DEF z2, free, b, given
  <2>9. F \cap Covered(z.used) = {} /\ F \cup Covered(z.used) = 0 .. units - 1
    BY DEF HeapOK, F
  <2>10. Covered(z2.used) = Covered(z.used) \cup Units(b)
    BY <2>8 DEF Covered
  <2>11. z.remaining - given = Cardinality(F \ Units(b))
    <3>1. IsFiniteSet(F)
      BY CoveredFinite DEF F
    <3>2. Cardinality(F \ Units(b)) = Cardinality(F) - Cardinality(F \cap Units(b))
      BY <3>1, FS_Difference
    <3>3. F \cap Units(b) = Units(b)
      BY <2>3, <2>6
    <3>4. Cardinality(Units(b)) = given
      BY <2>1, <2>4, <2>5, UnitsCount
    <3> QED
      BY <3>2, <3>3, <3>4 DEF HeapOK, F
  <2>12. /\ z2.free \in Seq(Block) /\ InOrderApart(z2.free) /\ Covered(ToSet(z2.free)) = F \ Units(b)
         /\ z2.remaining = Cardinality(Covered(ToSet(z2.free)))
    BY <2>7, <2>8, <2>11 DEF FreeListOf
  <2>13. /\ Covered(ToSet(z2.free)) \cap Covered(z2.used) = {}
         /\ Covered(ToSet(z2.free)) \cup Covered(z2.used) = 0 .. units - 1
    BY <2>3, <2>6, <2>9, <2>10, <2>12
  <2>14. \A x \in z2.used : x.at \in Nat /\ x.size \in Nat \ {0}
    BY <2>5, <2>8 DEF HeapOK
  <2>15. \A x \in z.used : Units(x) \cap Units(b) = {}
    BY <2>3, <2>6, <2>9 DEF Covered
  <2>16. \A x, y \in z2.used : x # y => Units(x) \cap Units(y) = {}
    BY <2>8, <2>15 DEF HeapOK
  <2>17. HeapOK(z2, units)
    BY <2>12, <2>13, <2>14, <2>16 DEF HeapOK, Block
  <2> QED
    BY <1>1, <2>17
<1> QED
  BY <1>4, <1>5, <1>6

\* Of the kernel's steps only these touch the heap.
HeapMoves ==
    \/ h' = h
    \/ \E name : h' = vPortFree(h, name)
    \/ \E n1, n2 : h' = vPortFree(vPortFree(h, n1), n2)
    \/ \E name : \E wanted \in Nat : h' = pvPortMalloc(h, wanted, name)

LEMMA CallsTouchHeap ==
    ASSUME program \in Program, InScript, NEW t \in Task, ControlStep(t)
    PROVE  HeapMoves
<1>1. CASE \/ SuspendForDelay(t) \/ vTaskDelay(t) \/ vTaskDelayUntil(t) \/ ResumeFromDelay(t) \/ EndDelay(t)
           \/ Suspend(t) \/ ResetUnblockTime(t) \/ Resume(t) \/ SetPriority(t)
           \/ ResumeFromCreate(t) \/ AddTask(t) \/ ResumeFromHeap(t)
           \/ Notify(t) \/ AwaitNotification(t) \/ TakeNotification(t)
  BY <1>1 DEF HeapMoves, SuspendForDelay, vTaskDelay, vTaskDelayUntil, ResumeFromDelay, EndDelay,
              Suspend, ResetUnblockTime, Resume, SetPriority, ResumeFromCreate, AddTask, ResumeFromHeap,
              Notify, AwaitNotification, TakeNotification
<1>2. CASE Delete(t)
  <2>1. h' = h \/ h' = vPortFree(vPortFree(h, Stack(Now(t).x)), Tcb(Now(t).x))
    BY <1>2 DEF Delete
  <2> QED
    BY <2>1 DEF HeapMoves
<1>3. CASE AllocateStack(t) \/ AllocateTcb(t)
  BY <1>3, HeapAssumption DEF HeapMoves, AllocateStack, AllocateTcb
<1>4. CASE FreeStack(t) \/ Free(t)
  BY <1>4 DEF HeapMoves, FreeStack, Free
<1>5. CASE Malloc(t)
  <2>1. Now(t).op = "pvPortMalloc" /\ h' = pvPortMalloc(h, Now(t).v, Memory(Now(t).x))
    BY <1>5 DEF Malloc, Calls
  <2>2. LegalCall(program, Now(t))
    BY AppAssumption DEF InScript, LegalScript, Now, ScriptOf
  <2>3. Now(t).v \in Nat
    BY <2>1, <2>2 DEF LegalCall
  <2> QED
    BY <2>1, <2>3 DEF HeapMoves
<1> QED
  BY <1>1, <1>2, <1>3, <1>4, <1>5 DEF ControlStep

LEMMA StepsTouchHeap ==
    ASSUME program \in Program, InScript, [Next]_vars
    PROVE  HeapMoves /\ program' = program
<1>1. CASE UNCHANGED vars
  BY <1>1 DEF vars, HeapMoves
<1>2. CASE xPortSysTickHandler \/ xPortPendSVHandler \/ QueueCall \/ StreamCall
  BY <1>2 DEF HeapMoves, xPortSysTickHandler, xPortPendSVHandler, QueueCall, StreamCall
<1>3. CASE Interrupt
  BY <1>3 DEF HeapMoves, Interrupt, Handler, ResumeFromISR, NotifyFromISR
<1>4. CASE ControlCall
  BY <1>4, CallsTouchHeap DEF ControlCall
<1>5. CASE GroupCall
  <2>1. PICK t \in Task : GroupStep(t)
    BY <1>5 DEF GroupCall
  <2>2. h' = h \/ \E name : h' = vPortFree(h, name)
    BY <2>1 DEF GroupStep, EnterGroup, LeaveGroup, ReadEventItem, LateForBits, xEventGroupSetBits,
                xEventGroupClearBits, ResumeFromSet, vEventGroupDelete
  <2> QED
    BY <1>5, <2>2 DEF HeapMoves, GroupCall
<1>6. CASE TimerCall
  <2>1. PICK t \in Task : TimerStep(t)
    BY <1>6 DEF TimerCall
  <2>2. h' = h \/ \E name : h' = vPortFree(h, name)
    BY <2>1 DEF TimerStep, ExpireOrBlock, ResumeDaemon, prvProcessExpiredTimer, ReceiveCommand, ProcessCommand
  <2> QED
    BY <1>6, <2>2 DEF HeapMoves, TimerCall
<1>7. CASE IdleLoop
  BY <1>7 DEF HeapMoves, IdleLoop, IdleStep, CleanUp, FreeDead, ResumeFromFree, IdleYield
<1> QED
  BY <1>1, <1>2, <1>3, <1>4, <1>5, <1>6, <1>7 DEF Next

HeapInv == program \in Program /\ InScript /\ HeapOK(h, App[program].units)

LEMMA HeapInvNext == HeapInv /\ [Next]_vars => HeapInv'
<1> SUFFICES ASSUME HeapInv, [Next]_vars PROVE HeapInv'
  OBVIOUS
<1> DEFINE units == App[program].units
<1>1. program' \in Program /\ InScript'
  BY ScriptStep DEF HeapInv
<1>2. HeapMoves /\ program' = program
  BY StepsTouchHeap DEF HeapInv
<1>3. units \in Nat /\ HeapOK(h, units)
  BY HeapAssumption DEF HeapInv
<1> HIDE DEF units
<1>4. HeapOK(h', units)
  <2>1. CASE h' = h
    BY <1>3, <2>1
  <2>2. CASE \E name : h' = vPortFree(h, name)
    BY <1>3, <2>2, FreeKeepsHeap
  <2>3. CASE \E n1, n2 : h' = vPortFree(vPortFree(h, n1), n2)
    <3>1. PICK n1, n2 : h' = vPortFree(vPortFree(h, n1), n2)
      BY <2>3
    <3>2. HeapOK(vPortFree(h, n1), units)
      BY <1>3, FreeKeepsHeap
    <3> QED
      BY <1>3, <3>1, <3>2, FreeKeepsHeap
  <2>4. CASE \E name : \E wanted \in Nat : h' = pvPortMalloc(h, wanted, name)
    BY <1>3, <2>4, MallocKeepsHeap
  <2> QED
    BY <1>2, <2>1, <2>2, <2>3, <2>4 DEF HeapMoves
<1> QED
  BY <1>1, <1>2, <1>4 DEF HeapInv, units

\* Block by block, or all at once.
LEMMA HeapIsPartition ==
    ASSUME HeapOK(h, App[program].units)
    PROVE  HeapPartition
<1> DEFINE Named(f) == [name |-> <<NULL, "free">>, at |-> f.at, size |-> f.size]
<1>1. \A f : Units(Named(f)) = Units(f)
  BY DEF Units, BlockEnd
<1>2. h.free \in Seq(Block) /\ InOrderApart(h.free)
  BY DEF HeapOK, Block
<1>3. Blocks = h.used \cup {Named(f) : f \in ToSet(h.free)}
  BY DEF Blocks
<1> HIDE DEF Named
<1>4. UNION {Units(b) : b \in Blocks} = Covered(h.used) \cup Covered(ToSet(h.free))
  BY <1>1, <1>3 DEF Covered
<1>5. ASSUME NEW b \in Blocks, NEW c \in Blocks, b # c
      PROVE  Units(b) \cap Units(c) = {}
  <2>1. CASE b \in h.used /\ c \in h.used
    BY <1>5, <2>1 DEF HeapOK
  <2>2. CASE b \in h.used /\ c \notin h.used
    <3>1. Units(b) \subseteq Covered(h.used) /\ Units(c) \subseteq Covered(ToSet(h.free))
      BY <1>1, <1>3, <2>2 DEF Covered
    <3> QED
      BY <3>1 DEF HeapOK
  <2>3. CASE b \notin h.used /\ c \in h.used
    <3>1. Units(c) \subseteq Covered(h.used) /\ Units(b) \subseteq Covered(ToSet(h.free))
      BY <1>1, <1>3, <2>3 DEF Covered
    <3> QED
      BY <3>1 DEF HeapOK
  <2>4. CASE b \notin h.used /\ c \notin h.used
    <3>1. PICK i \in DOMAIN h.free : b = Named(h.free[i])
      BY <1>3, <2>4 DEF ToSet
    <3>2. PICK j \in DOMAIN h.free : c = Named(h.free[j])
      BY <1>3, <2>4 DEF ToSet
    <3>3. i # j
      BY <1>5, <3>1, <3>2
    <3>4. Units(b) = Units(h.free[i]) /\ Units(c) = Units(h.free[j])
      BY <1>1, <3>1, <3>2
    <3> QED
      BY <1>2, <3>3, <3>4, FreeDisjoint
  <2> QED
    BY <2>1, <2>2, <2>3, <2>4
<1>6. \A i \in 1 .. Len(h.free) - 1 : BlockEnd(h.free[i]) < h.free[i + 1].at
  BY <1>2 DEF InOrderApart
<1>7. /\ Covered(h.used) \cup Covered(ToSet(h.free)) = 0 .. App[program].units - 1
      /\ h.remaining = Cardinality(UNION {Units(f) : f \in ToSet(h.free)})
  BY DEF HeapOK, Covered
<1> QED
  BY <1>4, <1>5, <1>6, <1>7 DEF HeapPartition

\* In every application, however large its heap, whatever it allocates, frees,
\* creates and deletes, the blocks tile the heap (heap_4.c).
THEOREM HeapPartitioned == Spec => []HeapPartition
<1>1. Init => HeapInv
  <2> SUFFICES ASSUME Init PROVE HeapInv
    OBVIOUS
  <2>1. program \in Program /\ InScript
    BY ScriptInit
  <2>2. h = App[program].heap
    BY DEF Init, ControlInit
  <2> QED
    BY <2>1, <2>2, HeapAssumption DEF HeapInv
<1>2. HeapInv => HeapPartition
  BY HeapIsPartition DEF HeapInv
<1> QED
  BY <1>1, <1>2, HeapInvNext, PTL DEF Spec

----------------------------------------------------------------------------
(* Where the tasks are in their calls                                       *)

\* Points that only calls of some kinds come to.
QueuePoint == {"suspend", "lock", "look", "unlockTx", "unlockRx", "resume", "late", "disinherit"}
CreatePoint == {"stack", "stack2", "tcb", "add"}
DaemonPoint == {"sampled", "expire", "command received"}
FitsAt(c, at) ==
    /\ at \in QueuePoint => c.op \in QueueOp \cup {"prvTimerTask"}
    /\ at \in CreatePoint => c.op = "xTaskCreate"
    /\ at \in DaemonPoint => c.op = "prvTimerTask"
Fits == \A t \in Task : "at" \in DOMAIN call[t] /\ FitsAt(Now(t), call[t].at)

\* Every task goes to a point of all calls, or to one of its call.
PointMoves ==
    \A t \in Task :
        /\ "at" \in DOMAIN call'[t]
        /\ \/ call'[t].at \notin QueuePoint \cup CreatePoint \cup DaemonPoint
           \/ call'[t].n = call[t].n /\ FitsAt(Now(t), call'[t].at)

LEMMA MovesFit ==
    ASSUME PointMoves, UNCHANGED program
    PROVE  Fits'
<1> SUFFICES ASSUME NEW t \in Task PROVE "at" \in DOMAIN call'[t] /\ FitsAt(Now(t)', call'[t].at)
  BY DEF Fits
<1>1. CASE call'[t].at \notin QueuePoint \cup CreatePoint \cup DaemonPoint
  BY <1>1 DEF PointMoves, FitsAt
<1>2. CASE call'[t].n = call[t].n /\ FitsAt(Now(t), call'[t].at)
  <2>1. Now(t)' = Now(t)
    BY <1>2 DEF Now, ScriptOf
  <2> QED
    BY <1>2, <2>1 DEF PointMoves
<1> QED
  BY <1>1, <1>2 DEF PointMoves

\* One task moves.
LEMMA OnePoint ==
    ASSUME InScript, Fits, NEW t \in Task, \A u \in Task \ {t} : call'[u] = call[u],
           "at" \in DOMAIN call'[t],
           call'[t].at \notin QueuePoint \cup CreatePoint \cup DaemonPoint
           \/ (call'[t].n = call[t].n /\ FitsAt(Now(t), call'[t].at))
    PROVE  PointMoves
  BY DEF Fits, PointMoves

LEMMA GotoFits ==
    ASSUME InScript, Fits, NEW t \in Task, NEW at, call' = Goto(t, at), FitsAt(Now(t), at)
    PROVE  PointMoves
<1>1. /\ \A u \in Task \ {t} : call'[u] = call[u]
      /\ "at" \in DOMAIN call'[t] /\ call'[t].at = at /\ call'[t].n = call[t].n
  BY DEF InScript, Fits, Goto
<1> QED
  BY <1>1, OnePoint

LEMMA ReturnFits ==
    ASSUME InScript, Fits, NEW t \in Task, NEW ok, NEW got, call' = Return(t, ok, got)
    PROVE  PointMoves
<1>1. \A u \in Task \ {t} : call'[u] = call[u]
  BY DEF InScript, Return
<1>2. "at" \in DOMAIN call'[t] /\ call'[t].at = "call"
  BY DEF InScript, Return, Fresh
<1> QED
  BY <1>1, <1>2, OnePoint DEF QueuePoint, CreatePoint, DaemonPoint

LEMMA LocalFits ==
    ASSUME InScript, Fits, NEW t \in Task, NEW at, NEW size, call' = Local(t, at, size),
           at \notin QueuePoint \cup CreatePoint \cup DaemonPoint
    PROVE  PointMoves
<1>1. \A u \in Task \ {t} : call'[u] = call[u]
  BY DEF InScript, Local
<1>2. "at" \in DOMAIN call'[t] /\ call'[t].at = at
  BY DEF InScript, Fits, Local
<1> QED
  BY <1>1, <1>2, OnePoint

LEMMA QueueFits ==
    ASSUME InScript, Fits, NEW t \in Task, QueueStep(t)
    PROVE  PointMoves
<1> USE DEF QueuePoint, CreatePoint, DaemonPoint
<1>0. FitsAt(Now(t), call[t].at) /\ "at" \in DOMAIN call[t]
  BY DEF Fits
<1>1. CASE TakeAgain(t) \/ DisinheritLate(t) \/ xQueueGiveMutexRecursive(t) \/ ResetQueue(t)
  BY <1>1, ReturnFits DEF TakeAgain, DisinheritLate, xQueueGiveMutexRecursive, ResetQueue
<1>2. CASE ReadCommandTime(t)
  <2>1. /\ \A u \in Task \ {t} : call'[u] = call[u]
        /\ "at" \in DOMAIN call'[t] /\ call'[t].at = "command"
    BY <1>0, <1>2 DEF ReadCommandTime, InScript
  <2> QED
    BY <2>1, OnePoint
<1>3. CASE TryQueue(t)
  <2>1. \/ \E ok, got : call' = Return(t, ok, got)
        \/ \E left, since : call' = [call EXCEPT ![t].at = "suspend", ![t].left = left,
                                                ![t].since = since]
    BY <1>3 DEF TryQueue
  <2>2. CASE \E left, since : call' = [call EXCEPT ![t].at = "suspend", ![t].left = left,
                                                  ![t].since = since]
    <3>1. /\ \A u \in Task \ {t} : call'[u] = call[u]
          /\ "at" \in DOMAIN call'[t] /\ call'[t].at = "suspend" /\ call'[t].n = call[t].n
      BY <1>0, <2>2 DEF InScript
    <3>2. FitsAt(Now(t), "suspend")
      BY <1>3 DEF TryQueue, FitsAt
    <3> QED
      BY <3>1, <3>2, OnePoint
  <2> QED
    BY <2>1, <2>2, ReturnFits
<1>4. CASE SuspendForQueue(t) \/ LockQueue(t) \/ UnlockTx(t) \/ UnlockRx(t)
  <2>1. call[t].at \in QueuePoint
    BY <1>4 DEF SuspendForQueue, LockQueue, UnlockTx, UnlockRx, Runs
  <2>2. \A at \in QueuePoint : FitsAt(Now(t), at)
    BY <1>0, <2>1 DEF FitsAt
  <2> QED
    BY <1>4, <2>2, GotoFits DEF SuspendForQueue, LockQueue, UnlockTx, UnlockRx
<1>5. CASE BlockOnQueue(t)
  <2> DEFINE check == xTaskCheckForTimeOut(k, call[t].since, call[t].left)
             mutex == Now(t).op \in TakeOp /\ q[X(t)].type = "mutex"
             inherits == Inherits(k, IF mutex THEN q[X(t)].holder ELSE NULL)
             Take(path) ==
                 call' = [call EXCEPT ![t].at = "unlockTx", ![t].left = check.left,
                                      ![t].since = check.since, ![t].path = path,
                                      ![t].inherited = IF path = "blocked" /\ mutex
                                                       THEN inherits ELSE @]
  <2>1. Take("blocked") \/ Take("retry") \/ Take("late")
    BY <1>5 DEF BlockOnQueue
  <2>2. FitsAt(Now(t), "unlockTx")
    BY <1>0, <1>5 DEF BlockOnQueue, Runs, FitsAt
  <2> HIDE DEF check, mutex, inherits
  <2>3. ASSUME NEW path, Take(path) PROVE PointMoves
    <3>1. /\ \A u \in Task \ {t} : call'[u] = call[u]
          /\ "at" \in DOMAIN call'[t] /\ call'[t].at = "unlockTx" /\ call'[t].n = call[t].n
      BY <1>0, <2>3 DEF InScript
    <3> QED
      BY <2>2, <3>1, OnePoint
  <2> QED
    BY <2>1, <2>3
<1>6. CASE ResumeFromQueue(t) \/ LateForQueue(t)
  <2>1. call[t].at \in QueuePoint
    BY <1>6 DEF ResumeFromQueue, LateForQueue, Runs
  <2>2. \A at \in QueuePoint \cup {"again"} : FitsAt(Now(t), at)
    BY <1>0, <2>1 DEF FitsAt
  <2> QED
    BY <1>6, <2>2, GotoFits, ReturnFits DEF ResumeFromQueue, LateForQueue
<1> QED
  BY <1>1, <1>2, <1>3, <1>4, <1>5, <1>6 DEF QueueStep

LEMMA ControlFits ==
    ASSUME InScript, Fits, NEW t \in Task, ControlStep(t)
    PROVE  PointMoves
<1> USE DEF QueuePoint, CreatePoint, DaemonPoint
<1>0. FitsAt(Now(t), call[t].at) /\ "at" \in DOMAIN call[t]
  BY DEF Fits
<1>1. CASE SuspendForDelay(t)
  BY <1>1, GotoFits, ReturnFits DEF SuspendForDelay, FitsAt
<1>2. CASE vTaskDelay(t) \/ ResumeFromDelay(t) \/ Suspend(t)
           \/ FreeStack(t) \/ Malloc(t) \/ Free(t) \/ AwaitNotification(t)
  BY <1>2, GotoFits
     DEF vTaskDelay, ResumeFromDelay, Suspend, FreeStack, Malloc, Free, AwaitNotification, FitsAt
<1>3. CASE vTaskDelayUntil(t)
  <2>1. /\ \A u \in Task \ {t} : call'[u] = call[u]
        /\ "at" \in DOMAIN call'[t] /\ call'[t].at = "awake"
    BY <1>0, <1>3 DEF vTaskDelayUntil, InScript
  <2> QED
    BY <2>1, OnePoint
<1>4. CASE EndDelay(t) \/ ResetUnblockTime(t) \/ Resume(t) \/ SetPriority(t) \/ Delete(t) \/ Notify(t)
           \/ ResumeFromHeap(t) \/ TakeNotification(t)
  <2>1. \E ok, got : call' = Return(t, ok, got)
    BY <1>4 DEF EndDelay, ResetUnblockTime, Resume, SetPriority, Delete, Notify, ResumeFromHeap, TakeNotification
  <2> QED
    BY <2>1, ReturnFits
<1>5. CASE AddTask(t)
  <2>1. "at" \in DOMAIN Fresh /\ Fresh.at = "call"
    BY DEF Fresh
  <2>2. \A u \in Task : call'[u] = call[u] \/ ("at" \in DOMAIN call'[u] /\ call'[u].at = "call")
    BY <1>5, <2>1 DEF AddTask, Return, InScript
  <2> QED
    BY <2>2 DEF Fits, PointMoves
<1>6. CASE ResumeFromCreate(t)
  <2>1. call[t].at \in {"stack", "tcb"} => Now(t).op = "xTaskCreate"
    BY <1>0 DEF FitsAt
  <2>2. \/ \E at \in {"stack2", "add", "noTcb"} : call[t].at \in {"stack", "tcb"} /\ call' = Goto(t, at)
        \/ call' = Return(t, FALSE, "noMemory")
    BY <1>6 DEF ResumeFromCreate
  <2>3. \A at \in {"stack2", "add", "noTcb"} : call[t].at \in {"stack", "tcb"} => FitsAt(Now(t), at)
    BY <2>1 DEF FitsAt
  <2> QED
    BY <2>2, <2>3, GotoFits, ReturnFits
<1>7. CASE AllocateStack(t) \/ AllocateTcb(t)
  <2>1. Now(t).op = "xTaskCreate"
    BY <1>0, <1>7 DEF AllocateStack, AllocateTcb, Calls, Runs, FitsAt
  <2>2. FitsAt(Now(t), "stack") /\ FitsAt(Now(t), "tcb")
    BY <2>1 DEF FitsAt
  <2> QED
    BY <1>7, <2>2, GotoFits DEF AllocateStack, AllocateTcb
<1> QED
  BY <1>1, <1>2, <1>3, <1>4, <1>5, <1>6, <1>7 DEF ControlStep

LEMMA GroupFits ==
    ASSUME InScript, Fits, NEW t \in Task, GroupStep(t)
    PROVE  PointMoves
<1> USE DEF QueuePoint, CreatePoint, DaemonPoint
<1>0. "at" \in DOMAIN call[t]
  BY DEF Fits
<1>1. CASE EnterGroup(t)
  <2>1. /\ \A u \in Task \ {t} : call'[u] = call[u]
        /\ "at" \in DOMAIN call'[t] /\ call'[t].at = "leave"
    BY <1>0, <1>1 DEF EnterGroup, Entered, InScript
  <2> QED
    BY <2>1, OnePoint
<1>2. CASE LeaveGroup(t) \/ ReadEventItem(t) \/ LateForBits(t) \/ xEventGroupClearBits(t) \/ ResumeFromSet(t)
           \/ xEventGroupSetBits(t) \/ vEventGroupDelete(t)
  <2>1. \/ \E at \in {"told", "lateBits", "setBits"} : call' = Goto(t, at)
        \/ \E ok, got : call' = Return(t, ok, got)
    BY <1>2 DEF LeaveGroup, ReadEventItem, LateForBits, xEventGroupClearBits, ResumeFromSet,
                xEventGroupSetBits, vEventGroupDelete
  <2>2. \A at \in {"told", "lateBits", "setBits"} : FitsAt(Now(t), at)
    BY DEF FitsAt
  <2> QED
    BY <2>1, <2>2, GotoFits, ReturnFits
<1> QED
  BY <1>1, <1>2 DEF GroupStep

LEMMA StreamFits ==
    ASSUME InScript, Fits, NEW t \in Task, StreamStep(t)
    PROVE  PointMoves
<1> USE DEF QueuePoint, CreatePoint, DaemonPoint
<1>0. "at" \in DOMAIN call[t]
  BY DEF Fits
<1>1. CASE TryToSend(t)
  <2> DEFINE timed == IF call[t].at = "call"
                      THEN [call EXCEPT ![t].left = Now(t).ticks,
                                        ![t].since = vTaskInternalSetTimeOutState(k)] ELSE call
             space == xStreamBufferSpacesAvailable(s)
  <2>1. /\ DOMAIN timed = Task /\ "at" \in DOMAIN timed[t]
        /\ \A u \in Task \ {t} : timed[u] = call[u]
    BY <1>0 DEF InScript
  <2>2. \/ call' = Local(t, "write", 0) \/ call' = Local(t, "write", space)
        \/ call' = [timed EXCEPT ![t].at = "sendWait", ![t].size = space]
    BY <1>1 DEF TryToSend
  <2> HIDE DEF timed, space
  <2>3. CASE call' = [timed EXCEPT ![t].at = "sendWait", ![t].size = space]
    <3>1. /\ \A u \in Task \ {t} : call'[u] = call[u]
          /\ "at" \in DOMAIN call'[t] /\ call'[t].at = "sendWait"
      BY <2>1, <2>3
    <3> QED
      BY <3>1, OnePoint
  <2> QED
    BY <2>2, <2>3, LocalFits
<1>2. CASE WaitForStream(t) \/ EndWaitForStream(t) \/ NotifyReceiver(t) \/ NotifySender(t)
           \/ WriteMessageData(t) \/ ResumeFromStream(t) \/ xStreamBufferReset(t)
           \/ ReadMessageData(t) \/ PutLengthBack(t)
  <2>1. \/ \E at \in {"sendWoken", "receiveWoken", "sendCheck", "receiveCheck", "streamDone", "sent", "received"} :
              call' = Goto(t, at)
        \/ \E ok, got : call' = Return(t, ok, got)
    BY <1>2 DEF WaitForStream, EndWaitForStream, NotifyReceiver, NotifySender, WriteMessageData,
                ResumeFromStream, xStreamBufferReset, ReadMessageData, PutLengthBack, EndRead
  <2>2. \A at \in {"sendWoken", "receiveWoken", "sendCheck", "receiveCheck", "streamDone", "sent", "received"} :
            FitsAt(Now(t), at)
    BY DEF FitsAt
  <2> QED
    BY <2>1, <2>2, GotoFits, ReturnFits
<1>3. CASE CheckSendTime(t)
  <2>1. \A u \in Task \ {t} : call'[u] = call[u]
    BY <1>3 DEF CheckSendTime, InScript
  <2>2. "at" \in DOMAIN call'[t] /\ call'[t].at \in {"write", "sendAgain"}
    BY <1>0, <1>3 DEF CheckSendTime, InScript
  <2> QED
    BY <2>1, <2>2, OnePoint
<1>4. CASE WriteToStream(t)
  <2> DEFINE count == Writable(s, Now(t).v, IF call[t].size = 0
                                            THEN xStreamBufferSpacesAvailable(s) ELSE call[t].size)
  <2>1. \/ call' = Return(t, FALSE, "timeout")
        \/ call' = Local(t, "writeData", count)
        \/ call' = Local(t, "sent", count)
    BY <1>4 DEF WriteToStream
  <2> HIDE DEF count
  <2> QED
    BY <2>1, ReturnFits, LocalFits
<1>5. CASE TryToReceive(t) \/ LookAfterWait(t)
  <2>1. call' = Goto(t, "receiveWait") \/ \E size : call' = Local(t, "read", size)
    BY <1>5 DEF TryToReceive, LookAfterWait
  <2>2. FitsAt(Now(t), "receiveWait")
    BY DEF FitsAt
  <2> QED
    BY <2>1, <2>2, GotoFits, LocalFits
<1>6. CASE ReadFromStream(t)
  <2>1. \/ call' = Goto(t, "received")
        \/ \E ok, got : call' = Return(t, ok, got)
        \/ \E at \in {"putBack", "readData"} : \E size : call' = Local(t, at, size)
    BY <1>6 DEF ReadFromStream, EndRead
  <2>2. FitsAt(Now(t), "received")
    BY DEF FitsAt
  <2> QED
    BY <2>1, <2>2, GotoFits, ReturnFits, LocalFits
<1> QED
  BY <1>1, <1>2, <1>3, <1>4, <1>5, <1>6 DEF StreamStep

LEMMA TimerFits ==
    ASSUME InScript, Fits, NEW t \in Task, TimerStep(t)
    PROVE  PointMoves
<1> USE DEF QueuePoint, CreatePoint, DaemonPoint
<1>0. FitsAt(Now(t), call[t].at) /\ "at" \in DOMAIN call[t]
  BY DEF Fits
<1>1. CASE ExpireOrBlock(t)
  <2>1. FitsAt(Now(t), "unlockTx") /\ FitsAt(Now(t), "sampled")
    BY <1>1 DEF ExpireOrBlock, Calls, FitsAt
  <2>2. \A u \in Task \ {t} : call'[u] = call[u]
    BY <1>1 DEF ExpireOrBlock, InScript
  <2>3. "at" \in DOMAIN call'[t] /\ call'[t].at \in {"unlockTx", "sampled"} /\ call'[t].n = call[t].n
    BY <1>0, <1>1 DEF ExpireOrBlock, InScript
  <2> QED
    BY <2>1, <2>2, <2>3, OnePoint
<1>2. CASE ResumeDaemon(t)
  <2>1. FitsAt(Now(t), "expire") /\ FitsAt(Now(t), "again")
    BY <1>0, <1>2 DEF ResumeDaemon, Runs, FitsAt
  <2> QED
    BY <1>2, <2>1, GotoFits DEF ResumeDaemon
<1>3. CASE prvProcessExpiredTimer(t)
  <2>1. /\ \A u \in Task \ {t} : call'[u] = call[u]
        /\ "at" \in DOMAIN call'[t] /\ call'[t].at = "again"
    BY <1>0, <1>3 DEF prvProcessExpiredTimer, InScript
  <2> QED
    BY <2>1, OnePoint
<1>4. CASE ReceiveCommand(t)
  <2>1. FitsAt(Now(t), "command received")
    BY <1>4 DEF ReceiveCommand, FitsAt
  <2>2. CASE call' = [call EXCEPT ![t] = Fresh]
    <3>1. /\ \A u \in Task \ {t} : call'[u] = call[u]
          /\ "at" \in DOMAIN call'[t] /\ call'[t].at = "call"
      BY <2>2 DEF InScript, Fresh
    <3> QED
      BY <3>1, OnePoint
  <2> QED
    BY <1>4, <2>1, <2>2, GotoFits DEF ReceiveCommand
<1>5. CASE ProcessCommand(t)
  <2>1. FitsAt(Now(t), "again")
    BY DEF FitsAt
  <2> QED
    BY <1>5, <2>1, GotoFits DEF ProcessCommand
<1> QED
  BY <1>1, <1>2, <1>3, <1>4, <1>5 DEF TimerStep

LEMMA OthersFit ==
    ASSUME InScript, Fits, IdleStep \/ xPortSysTickHandler \/ xPortPendSVHandler \/ Interrupt
    PROVE  PointMoves
<1> USE DEF QueuePoint, CreatePoint, DaemonPoint
<1>0. Idle \in Task /\ "at" \in DOMAIN call[Idle]
  BY PriorityAssumption DEF Fits
<1>1. CASE CleanUp
  <2>1. /\ \A u \in Task \ {Idle} : call'[u] = call[u]
        /\ "at" \in DOMAIN call'[Idle] /\ call'[Idle].at = "freeStack"
    BY <1>0, <1>1 DEF CleanUp, InScript
  <2> QED
    BY <1>0, <2>1, OnePoint
<1>2. CASE FreeDead
  <2>1. FitsAt(Now(Idle), "freedStack") /\ FitsAt(Now(Idle), "freedTcb")
    BY DEF FitsAt
  <2>2. call' = Goto(Idle, "freedStack") \/ call' = Goto(Idle, "freedTcb")
    BY <1>2 DEF FreeDead
  <2> QED
    BY <1>0, <2>1, <2>2, GotoFits
<1>3. CASE ResumeFromFree
  <2>1. FitsAt(Now(Idle), "freeTcb")
    BY DEF FitsAt
  <2>2. CASE call' = Goto(Idle, "freeTcb")
    BY <1>0, <2>1, <2>2, GotoFits
  <2>3. CASE call' = [call EXCEPT ![Idle] = Fresh]
    <3>1. \A u \in Task : call'[u] = call[u] \/ ("at" \in DOMAIN call'[u] /\ call'[u].at = "call")
      BY <2>3 DEF Fresh, InScript
    <3> QED
      BY <3>1 DEF Fits, PointMoves
  <2> QED
    BY <1>3, <2>2, <2>3 DEF ResumeFromFree
<1>4. CASE UNCHANGED call
  BY <1>4 DEF Fits, PointMoves
<1>5. CASE xPortSysTickHandler
  <2>1. \A t \in Task : "at" \in DOMAIN call'[t] /\ call'[t].at = call[t].at /\ call'[t].n = call[t].n
    BY <1>5 DEF xPortSysTickHandler, InScript, Fits
  <2> QED
    BY <2>1 DEF Fits, PointMoves
<1> QED
  BY <1>1, <1>2, <1>3, <1>4, <1>5 DEF IdleStep, IdleYield, xPortPendSVHandler, Interrupt

LEMMA FitsNext ==
    ASSUME InScript, Fits, [Next]_vars
    PROVE  Fits' /\ UNCHANGED program
<1>1. UNCHANGED program
  BY DEF Next, vars, xPortSysTickHandler, xPortPendSVHandler, Interrupt, QueueCall, ControlCall,
         GroupCall, StreamCall, TimerCall, IdleLoop
<1>2. CASE UNCHANGED vars
  BY <1>2 DEF vars, Fits, Now, ScriptOf
<1>3. CASE Next
  <2>1. PointMoves
    BY <1>3, QueueFits, ControlFits, GroupFits, StreamFits, TimerFits, OthersFit
       DEF Next, QueueCall, ControlCall, GroupCall, StreamCall, TimerCall, IdleLoop
  <2> QED
    BY <1>1, <2>1, MovesFit
<1> QED
  BY <1>1, <1>2, <1>3

LEMMA FitsInit == Init => Fits
<1> SUFFICES ASSUME Init PROVE Fits
  OBVIOUS
<1>1. \A t \in Task : call[t] = Fresh
  BY DEF Init, CallInit
<1>2. "at" \in DOMAIN Fresh /\ Fresh.at = "call"
  BY DEF Fresh
<1> QED
  BY <1>1, <1>2 DEF Fits, FitsAt, QueuePoint, CreatePoint, DaemonPoint

----------------------------------------------------------------------------
(* The bytes of a stream, in every application                              *)

\* Between the two steps of a message only its length is written, or read; a
\* task that has read how much space or how many bytes there are finds no less.
WritePoint == {"write", "sendWait", "sendWoken", "sendCheck"}
ReadPoint == {"receiveWait", "receiveWoken", "receiveCheck"}
HalfPoint == {"writeData", "readData"}
StreamPoint == WritePoint \cup ReadPoint \cup HalfPoint \cup {"sendAgain", "read", "putBack"}
PlaceOK(b, c, op) ==
    /\ c.at \in WritePoint => op = "xStreamBufferSend" /\ SpaceFor(b, c.size)
    /\ c.at = "sendAgain" => op = "xStreamBufferSend"
    /\ c.at = "writeData" => op = "xStreamBufferSend" /\ DataFor(b, c.size)
    /\ c.at \in ReadPoint => op = "xStreamBufferReceive"
    /\ c.at = "read" => op = "xStreamBufferReceive" /\ BytesFor(b, c.size)
    /\ c.at = "readData" => op = "xStreamBufferReceive" /\ RestFor(b, c.size)
    /\ c.at # "putBack"
Partly(partly) == partly \in BOOLEAN /\ (partly <=> \E t \in Task : call[t].at = "writeData")
LengthOf(taken) ==
    /\ taken \in Nat
    /\ \A t \in Task : call[t].at = "readData" => call[t].size = taken
    /\ taken # 0 => \E t \in Task : call[t].at = "readData"
StreamInv ==
    /\ BufferOK(s) /\ s.message = App[program].stream.message
    /\ \E partly, taken : /\ Partly(partly) /\ LengthOf(taken)
                          /\ InOrderIn(s, partly, taken, Sizes(program))
    /\ \A t \in Task : "size" \in DOMAIN call[t] /\ PlaceOK(s, call[t], Now(t).op)
StreamsInv == program \in Program /\ InScript /\ Fits /\ RoomForMessages(program) /\ StreamInv

\* What a step hands out.
InOrderOut ==
    \/ s'.out = s.out
    \/ Calls(k.cur, "xStreamBufferReset")
    \/ BytesRead(s'.out - s.out) = [i \in 1 .. s'.out - s.out |-> s.out + i]

LEMMA UserOf ==
    ASSUME StreamsInv, NEW t \in Task, NEW op, Now(t).op = op
    PROVE  t \in Users(program, op)
  BY DEF StreamsInv, InScript, Now, ScriptOf, Users

LEMMA OneWriter ==
    ASSUME StreamsInv, NEW t \in Task, Now(t).op = "xStreamBufferSend"
    PROVE  /\ \A u \in Task : Now(u).op = "xStreamBufferSend" => u = t
           /\ ~Handled(program, "xStreamBufferSendFromISR")
           /\ Now(t).v \in Nat
           /\ s.message => ~Creates(program, t) /\ Now(t).v \in Sizes(program)
           /\ \A u \in Task : Now(u).op = "xStreamBufferReset" => u = t
<1>1. LegalStream(program)
  BY StreamAssumption DEF StreamsInv
<1>2. t \in Users(program, "xStreamBufferSend")
  BY UserOf
<1>3. ASSUME NEW u \in Task, Now(u).op = "xStreamBufferSend" PROVE u = t
  <2>1. u \in Users(program, "xStreamBufferSend")
    BY <1>3, UserOf
  <2> QED
    BY <1>1, <1>2, <2>1 DEF LegalStream, OneUser
<1>4. ~Handled(program, "xStreamBufferSendFromISR")
  BY <1>1, <1>2 DEF LegalStream, OneUser
<1>5. Now(t).v \in Nat
  BY StreamAssumption DEF StreamsInv, InScript, Now, ScriptOf, StreamOp
<1>6. s.message => ~Creates(program, t)
  BY <1>1, <1>2 DEF LegalStream, StreamsInv, StreamInv
<1>7. ASSUME NEW u \in Task, Now(u).op = "xStreamBufferReset" PROVE u = t
  <2>1. u \in Users(program, "xStreamBufferReset")
    BY <1>7, UserOf
  <2> QED
    BY <1>1, <1>2, <2>1 DEF LegalStream
<1>8. Now(t).v \in Sizes(program)
  <2>1. Now(t) \in ToSet(App[program].script[t])
    BY DEF StreamsInv, InScript, Now, ScriptOf, ToSet
  <2> QED
    BY <2>1 DEF Sizes, Written
<1> QED
  BY <1>3, <1>4, <1>5, <1>6, <1>7, <1>8

LEMMA OneReader ==
    ASSUME StreamsInv, NEW t \in Task, Now(t).op = "xStreamBufferReceive"
    PROVE  /\ \A u \in Task : Now(u).op = "xStreamBufferReceive" => u = t
           /\ ~Handled(program, "xStreamBufferReceiveFromISR")
           /\ Now(t).v \in Nat
           /\ s.message => ~Creates(program, t) /\ \A size \in Sizes(program) : size <= Now(t).v
           /\ \A u \in Task : Now(u).op = "xStreamBufferReset" => u = t
<1>1. LegalStream(program)
  BY StreamAssumption DEF StreamsInv
<1>2. t \in Users(program, "xStreamBufferReceive")
  BY UserOf
<1>3. ASSUME NEW u \in Task, Now(u).op = "xStreamBufferReceive" PROVE u = t
  <2>1. u \in Users(program, "xStreamBufferReceive")
    BY <1>3, UserOf
  <2> QED
    BY <1>1, <1>2, <2>1 DEF LegalStream, OneUser
<1>4. ~Handled(program, "xStreamBufferReceiveFromISR")
  BY <1>1, <1>2 DEF LegalStream, OneUser
<1>5. Now(t).v \in Nat
  BY StreamAssumption DEF StreamsInv, InScript, Now, ScriptOf, StreamOp
<1>6. ASSUME NEW u \in Task, Now(u).op = "xStreamBufferReset" PROVE u = t
  <2>1. u \in Users(program, "xStreamBufferReset")
    BY <1>6, UserOf
  <2> QED
    BY <1>1, <1>2, <2>1 DEF LegalStream
<1>7. s.message => ~Creates(program, t)
  BY <1>1, <1>2 DEF LegalStream, StreamsInv, StreamInv
<1>8. s.message => \A size \in Sizes(program) : size <= Now(t).v
  BY DEF RoomForMessages, StreamsInv, StreamInv, InScript, Now, ScriptOf
<1> QED
  BY <1>3, <1>4, <1>5, <1>6, <1>7, <1>8

\* A task that does not move, beside what becomes of the buffer.
LEMMA OtherStays ==
    ASSUME StreamsInv, UNCHANGED program, NEW u \in Task, call'[u] = call[u]
    PROVE  Now(u)' = Now(u) /\ "size" \in DOMAIN call'[u] /\ PlaceOK(s, call'[u], Now(u)'.op)
  BY DEF StreamsInv, StreamInv, Now, ScriptOf

\* The writer makes a step, or an interrupt handler that writes (t is no task).
LEMMA WriterStep ==
    ASSUME StreamsInv, UNCHANGED program, NEW t,
           \A u \in Task \ {t} : call'[u] = call[u] /\ Now(u).op # "xStreamBufferSend",
           t \in Task => /\ "size" \in DOMAIN call'[t] /\ PlaceOK(s', call'[t], Now(t)'.op)
                         /\ call[t].at # "readData" /\ call'[t].at # "readData",
           BufferOK(s'), s'.message = s.message,
           NEW partly \in BOOLEAN, NEW taken, LengthOf(taken), InOrderIn(s', partly, taken, Sizes(program)),
           partly <=> t \in Task /\ call'[t].at = "writeData",
           LeavesBytes(s, s')
    PROVE  StreamInv'
<1>1. ASSUME NEW u \in Task \ {t} PROVE "size" \in DOMAIN call'[u] /\ PlaceOK(s', call'[u], Now(u)'.op)
  BY <1>1, OtherStays DEF PlaceOK, LeavesBytes
<1>2. \A u \in Task \ {t} : call'[u].at # "writeData"
  <2> TAKE u \in Task \ {t}
  <2>1. PlaceOK(s, call'[u], Now(u)'.op) /\ Now(u)'.op # "xStreamBufferSend"
    BY OtherStays
  <2> QED
    BY <2>1 DEF PlaceOK
<1>3. Partly(partly)'
  BY <1>2 DEF Partly
<1>5. LengthOf(taken)'
  BY DEF LengthOf
<1>4. s'.message = App[program'].stream.message /\ Sizes(program') = Sizes(program)
  BY DEF StreamsInv, StreamInv
<1> QED
  BY <1>1, <1>3, <1>4, <1>5 DEF StreamInv

\* The reader makes one, or a handler that reads.
LEMMA ReaderStep ==
    ASSUME StreamsInv, UNCHANGED program, NEW t,
           \A u \in Task \ {t} : call'[u] = call[u] /\ Now(u).op # "xStreamBufferReceive",
           t \in Task => /\ "size" \in DOMAIN call'[t] /\ PlaceOK(s', call'[t], Now(t)'.op)
                         /\ call[t].at # "writeData" /\ call'[t].at # "writeData",
           BufferOK(s'), s'.message = s.message,
           NEW partly, Partly(partly), NEW taken \in Nat, InOrderIn(s', partly, taken, Sizes(program)),
           taken # 0 => t \in Task,
           t \in Task => IF call'[t].at = "readData" THEN taken = call'[t].size ELSE taken = 0,
           LeavesSpace(s, s', partly)
    PROVE  StreamInv'
<1>1. ASSUME NEW u \in Task \ {t} PROVE "size" \in DOMAIN call'[u] /\ PlaceOK(s', call'[u], Now(u)'.op)
  <2>1. PlaceOK(s, call'[u], Now(u)'.op) /\ "size" \in DOMAIN call'[u] /\ Now(u)'.op # "xStreamBufferReceive"
        /\ call'[u] = call[u]
    BY <1>1, OtherStays
  <2>2. call'[u].at = "writeData" => partly
    BY <2>1 DEF Partly
  <2> QED
    BY <2>1, <2>2 DEF PlaceOK, LeavesSpace
<1>2. Partly(partly)'
  BY DEF Partly
<1>3. s'.message = App[program'].stream.message /\ Sizes(program') = Sizes(program)
  BY DEF StreamsInv, StreamInv
<1>4. \A u \in Task \ {t} : call'[u].at # "readData"
  <2> TAKE u \in Task \ {t}
  <2>1. PlaceOK(s, call'[u], Now(u)'.op) /\ Now(u)'.op # "xStreamBufferReceive"
    BY OtherStays
  <2> QED
    BY <2>1 DEF PlaceOK
<1>5. LengthOf(taken)'
  BY <1>4 DEF LengthOf
<1> QED
  BY <1>1, <1>2, <1>3, <1>5 DEF StreamInv

\* A task of any kind makes one that moves no bytes.
LEMMA SameStep ==
    ASSUME StreamsInv, UNCHANGED program, NEW t \in Task,
           \A u \in Task \ {t} : call'[u] = call[u], "size" \in DOMAIN call'[t],
           call[t].at \notin HalfPoint, call'[t].at \notin HalfPoint,
           SameBytes(s, s'), PlaceOK(s, call'[t], Now(t)'.op)
    PROVE  StreamInv' /\ s'.out = s.out
<1>0. BufferOK(s)
  BY DEF StreamsInv, StreamInv
<1>1. \A c, op : PlaceOK(s, c, op) => PlaceOK(s', c, op)
  BY <1>0, SameCounts DEF PlaceOK
<1>2. ASSUME NEW u \in Task PROVE "size" \in DOMAIN call'[u] /\ PlaceOK(s', call'[u], Now(u)'.op)
  BY <1>1, <1>2, OtherStays
<1>3. PICK partly, taken : Partly(partly) /\ LengthOf(taken) /\ InOrderIn(s, partly, taken, Sizes(program))
  BY DEF StreamsInv, StreamInv
<1>4. Partly(partly)' /\ LengthOf(taken)'
  BY <1>3 DEF Partly, LengthOf, HalfPoint
<1>5. BufferOK(s') /\ InOrderIn(s', partly, taken, Sizes(program'))
  BY <1>0, <1>3, SameBytesOK
<1>6. s'.message = App[program'].stream.message /\ s'.out = s.out
  BY DEF StreamsInv, StreamInv, SameBytes, BufferFields
<1> QED
  BY <1>2, <1>4, <1>5, <1>6 DEF StreamInv

\* Where a call goes: a task at a point of its call, a call that ends.
Sized == program \in Program /\ InScript /\ Fits /\ \A t \in Task : "size" \in DOMAIN call[t]

LEMMA InvSized == StreamsInv => Sized
  BY DEF Sized, StreamsInv, StreamInv

LEMMA GotoPlace ==
    ASSUME Sized, NEW t \in Task, NEW at, call' = Goto(t, at)
    PROVE  /\ \A u \in Task \ {t} : call'[u] = call[u]
           /\ "size" \in DOMAIN call'[t] /\ "at" \in DOMAIN call'[t]
           /\ call'[t].at = at /\ call'[t].size = call[t].size /\ call'[t].n = call[t].n
  BY DEF Sized, InScript, Fits, Goto

LEMMA LocalPlace ==
    ASSUME Sized, NEW t \in Task, NEW at, NEW size, call' = Local(t, at, size)
    PROVE  /\ \A u \in Task \ {t} : call'[u] = call[u]
           /\ "size" \in DOMAIN call'[t] /\ "at" \in DOMAIN call'[t]
           /\ call'[t].at = at /\ call'[t].size = size /\ call'[t].n = call[t].n
  BY DEF Sized, InScript, Fits, Local

LEMMA ReturnPlace ==
    ASSUME Sized, NEW t \in Task, NEW ok, NEW got, call' = Return(t, ok, got)
    PROVE  /\ \A u \in Task \ {t} : call'[u] = call[u]
           /\ "size" \in DOMAIN call'[t] /\ "at" \in DOMAIN call'[t]
           /\ call'[t].at = "call"
  BY DEF Sized, InScript, Return, Fresh

LEMMA NoPlace ==
    ASSUME NEW b, NEW c, NEW op, c.at \notin StreamPoint
    PROVE  PlaceOK(b, c, op) /\ c.at \notin HalfPoint /\ c.at # "writeData" /\ c.at # "readData"
  BY DEF PlaceOK, StreamPoint, HalfPoint

LEMMA SameNow ==
    ASSUME UNCHANGED program, NEW t, call'[t].n = call[t].n
    PROVE  Now(t)' = Now(t)
  BY DEF Now, ScriptOf

\* The steps of a sender that move no bytes.
LEMMA SenderWaits ==
    ASSUME StreamsInv, UNCHANGED program, NEW t \in Task, TryToSend(t) \/ CheckSendTime(t)
    PROVE  StreamInv' /\ s'.out = s.out
<1>0. BufferOK(s) /\ DOMAIN s = BufferFields /\ PlaceOK(s, call[t], Now(t).op)
      /\ SameBytes(s, s) /\ {"size", "at"} \subseteq DOMAIN call[t]
  BY DEF StreamsInv, StreamInv, BufferOK, SameBytes, Fits
<1>1. \A w : SameBytes(s, [s EXCEPT !.toSend = w])
  BY <1>0 DEF SameBytes, BufferFields
<1>3. SpaceFor(s, xStreamBufferSpacesAvailable(s)) /\ SpaceFor(s, 0)
  BY <1>0, SpaceOK
<1>4. CASE TryToSend(t)
  <2> DEFINE timed == IF call[t].at = "call"
                      THEN [call EXCEPT ![t].left = Now(t).ticks,
                                        ![t].since = vTaskInternalSetTimeOutState(k)] ELSE call
             space == xStreamBufferSpacesAvailable(s)
  <2>1. Now(t).op = "xStreamBufferSend" /\ call[t].at \notin HalfPoint
    BY <1>0, <1>4 DEF TryToSend, Calls, Runs, PlaceOK, HalfPoint
  <2>2. /\ DOMAIN timed = Task /\ {"at", "size", "n"} \subseteq DOMAIN timed[t]
        /\ timed[t].n = call[t].n /\ \A u \in Task \ {t} : timed[u] = call[u]
    BY <1>0 DEF StreamsInv, InScript
  <2>3. \/ call' = Local(t, "write", 0) /\ s' = s
        \/ call' = Local(t, "write", space) /\ s' = s
        \/ /\ call' = [timed EXCEPT ![t].at = "sendWait", ![t].size = space]
           /\ s' = [s EXCEPT !.toSend = t]
    BY <1>4 DEF TryToSend
  <2> HIDE DEF timed, space
  <2>4. /\ \A u \in Task \ {t} : call'[u] = call[u]
        /\ "size" \in DOMAIN call'[t] /\ call'[t].n = call[t].n
        /\ call'[t].at \in {"write", "sendWait"} /\ call'[t].size \in {0, space}
    BY <2>2, <2>3, InvSized, LocalPlace
  <2>5. SameBytes(s, s')
    BY <1>0, <1>1, <2>3
  <2>6. PlaceOK(s, call'[t], Now(t)'.op)
    BY <1>3, <2>1, <2>4, SameNow DEF PlaceOK, WritePoint, ReadPoint, space
  <2>7. call'[t].at \notin HalfPoint
    BY <2>4 DEF HalfPoint
  <2> QED
    BY <2>1, <2>4, <2>5, <2>6, <2>7, SameStep
<1>5. CASE CheckSendTime(t)
  <2> DEFINE check == xTaskCheckForTimeOut(k, call[t].since, call[t].left)
  <2>1. Now(t).op = "xStreamBufferSend" /\ SpaceFor(s, call[t].size) /\ call[t].at \notin HalfPoint
    BY <1>0, <1>5 DEF CheckSendTime, Runs, PlaceOK, WritePoint, HalfPoint
  <2>2. call' = [call EXCEPT ![t].at = IF check.out THEN "write" ELSE "sendAgain",
                             ![t].left = check.left, ![t].since = check.since]
        /\ s' = [s EXCEPT !.toSend = NULL]
    BY <1>5 DEF CheckSendTime
  <2> HIDE DEF check
  <2>3. /\ \A u \in Task \ {t} : call'[u] = call[u]
        /\ "size" \in DOMAIN call'[t] /\ call'[t].n = call[t].n
        /\ call'[t].at \in {"write", "sendAgain"} /\ call'[t].size = call[t].size
    BY <1>0, <2>2 DEF StreamsInv, InScript
  <2>4. PlaceOK(s, call'[t], Now(t)'.op)
    BY <2>1, <2>3, SameNow DEF PlaceOK, WritePoint, ReadPoint
  <2>5. call'[t].at \notin HalfPoint
    BY <2>3 DEF HalfPoint
  <2> QED
    BY <1>1, <2>1, <2>2, <2>3, <2>4, <2>5, SameStep
<1> QED
  BY <1>4, <1>5

LEMMA StreamWaits ==
    ASSUME StreamsInv, UNCHANGED program, NEW t \in Task,
           WaitForStream(t) \/ EndWaitForStream(t) \/ NotifyReceiver(t) \/ NotifySender(t)
           \/ ResumeFromStream(t) \/ TryToReceive(t) \/ LookAfterWait(t)
    PROVE  StreamInv' /\ s'.out = s.out
<1>0. BufferOK(s) /\ DOMAIN s = BufferFields /\ PlaceOK(s, call[t], Now(t).op)
      /\ SameBytes(s, s) /\ {"size", "at"} \subseteq DOMAIN call[t]
  BY DEF StreamsInv, StreamInv, BufferOK, SameBytes, Fits
<1>1. \A w : SameBytes(s, [s EXCEPT !.toReceive = w]) /\ SameBytes(s, [s EXCEPT !.toSend = w])
  BY <1>0 DEF SameBytes, BufferFields
<1>2. PICK partly, taken : Partly(partly) /\ LengthOf(taken) /\ InOrderIn(s, partly, taken, Sizes(program))
  BY DEF StreamsInv, StreamInv
<1>3. ASSUME Now(t).op = "xStreamBufferReceive", call[t].at # "readData" PROVE BytesFor(s, prvBytesInBuffer(s))
  <2>1. \A u \in Task : call[u].at # "readData"
    BY <1>3, OneReader DEF StreamsInv, StreamInv, PlaceOK
  <2>2. partly \in BOOLEAN /\ taken = 0
    BY <1>2, <2>1 DEF Partly, LengthOf
  <2> QED
    BY <1>0, <1>2, <2>2, AvailableOK
<1>4. CASE WaitForStream(t) \/ EndWaitForStream(t)
  <2> DEFINE at == IF call[t].at = "sendWait" THEN "sendWoken"
                   ELSE IF call[t].at = "sendWoken" THEN "sendCheck"
                   ELSE IF call[t].at = "receiveWait" THEN "receiveWoken" ELSE "receiveCheck"
  <2>1. /\ call[t].at \in {"sendWait", "sendWoken", "receiveWait", "receiveWoken"}
        /\ call' = Goto(t, at) /\ s' = s
    BY <1>4 DEF WaitForStream, EndWaitForStream, Runs
  <2>2. /\ \A u \in Task \ {t} : call'[u] = call[u]
        /\ "size" \in DOMAIN call'[t] /\ call'[t].n = call[t].n
        /\ call'[t].at = at /\ call'[t].size = call[t].size
    BY <2>1, InvSized, GotoPlace
  <2>3. PlaceOK(s, call'[t], Now(t)'.op)
    BY <1>0, <2>1, <2>2, SameNow DEF PlaceOK, WritePoint, ReadPoint
  <2>4. call[t].at \notin HalfPoint /\ call'[t].at \notin HalfPoint
    BY <2>1, <2>2 DEF HalfPoint
  <2> QED
    BY <1>0, <2>1, <2>2, <2>3, <2>4, SameStep
<1>5. CASE NotifyReceiver(t) \/ NotifySender(t) \/ ResumeFromStream(t)
  <2>1. /\ call[t].at \notin HalfPoint
        /\ call' = Goto(t, "streamDone") \/ call' = Return(t, TRUE, "none")
        /\ s' = s \/ s' = [s EXCEPT !.toReceive = NULL] \/ s' = [s EXCEPT !.toSend = NULL]
    BY <1>5 DEF NotifyReceiver, NotifySender, ResumeFromStream, Runs, HalfPoint
  <2>2. /\ \A u \in Task \ {t} : call'[u] = call[u]
        /\ "size" \in DOMAIN call'[t] /\ call'[t].at \in {"streamDone", "call"}
    <3>1. CASE call' = Goto(t, "streamDone")
      BY <3>1, InvSized, GotoPlace
    <3>2. CASE call' = Return(t, TRUE, "none")
      BY <3>2, InvSized, ReturnPlace
    <3> QED
      BY <2>1, <3>1, <3>2
  <2>3. PlaceOK(s, call'[t], Now(t)'.op) /\ call'[t].at \notin HalfPoint
    BY <2>2, NoPlace DEF StreamPoint, WritePoint, ReadPoint, HalfPoint
  <2>4. SameBytes(s, s')
    BY <1>0, <1>1, <2>1
  <2> QED
    BY <2>1, <2>2, <2>3, <2>4, SameStep
<1>6. CASE TryToReceive(t) \/ LookAfterWait(t)
  <2>1. /\ call[t].at \notin HalfPoint /\ call[t].at # "readData" /\ Now(t).op = "xStreamBufferReceive"
        /\ call' = Goto(t, "receiveWait") \/ call' = Local(t, "read", prvBytesInBuffer(s))
        /\ s' = s \/ \E w : s' = [s EXCEPT !.toReceive = w]
    BY <1>0, <1>6 DEF TryToReceive, LookAfterWait, Calls, Runs, PlaceOK, ReadPoint, HalfPoint
  <2>2. /\ \A u \in Task \ {t} : call'[u] = call[u]
        /\ "size" \in DOMAIN call'[t] /\ call'[t].n = call[t].n
        /\ \/ call'[t].at = "receiveWait"
           \/ call'[t].at = "read" /\ call'[t].size = prvBytesInBuffer(s)
    BY <2>1, GotoPlace, InvSized, LocalPlace
  <2>3. PlaceOK(s, call'[t], Now(t)'.op)
    BY <1>3, <2>1, <2>2, SameNow DEF PlaceOK, WritePoint, ReadPoint
  <2>4. SameBytes(s, s')
    BY <1>0, <1>1, <2>1
  <2>5. call'[t].at \notin HalfPoint
    BY <2>2 DEF HalfPoint
  <2> QED
    BY <2>1, <2>2, <2>3, <2>4, <2>5, SameStep
<1> QED
  BY <1>4, <1>5, <1>6

LEMMA SenderWrites ==
    ASSUME StreamsInv, UNCHANGED program, NEW t \in Task, WriteToStream(t) \/ WriteMessageData(t)
    PROVE  StreamInv' /\ s'.out = s.out
<1>0. BufferOK(s) /\ PlaceOK(s, call[t], Now(t).op) /\ s.message \in BOOLEAN /\ SameBytes(s, s)
  BY DEF StreamsInv, StreamInv, BufferOK, SameBytes
<1>1. PICK partly, taken : Partly(partly) /\ LengthOf(taken) /\ InOrderIn(s, partly, taken, Sizes(program))
  BY DEF StreamsInv, StreamInv
<1>2. Now(t).op = "xStreamBufferSend"
  BY <1>0 DEF WriteToStream, WriteMessageData, Runs, PlaceOK, WritePoint
<1>3. Now(t).v \in Nat /\ (s.message => Now(t).v \in Sizes(program)) /\ \A u \in Task \ {t} : Now(u).op # "xStreamBufferSend"
  BY <1>2, OneWriter
<1>4. \A u \in Task \ {t} : call[u].at # "writeData"
  BY <1>3 DEF StreamsInv, StreamInv, PlaceOK
<1>5. partly = (call[t].at = "writeData") /\ taken \in Nat /\ call[t].at # "readData"
  BY <1>1, <1>2, <1>4 DEF Partly, LengthOf, WriteToStream, WriteMessageData, Runs
<1>6. CASE WriteToStream(t)
  <2> DEFINE space == IF call[t].size = 0 THEN xStreamBufferSpacesAvailable(s) ELSE call[t].size
             count == Writable(s, Now(t).v, space)
  <2>1. call[t].at = "write" /\ SpaceFor(s, call[t].size) /\ partly = FALSE
    BY <1>0, <1>5, <1>6 DEF WriteToStream, Runs, PlaceOK, WritePoint
  <2>2. space \in Nat /\ space <= xStreamBufferSpacesAvailable(s)
    <3>1. xStreamBufferSpacesAvailable(s) \in Nat
      BY <1>0, SpaceAndBytes DEF BufferOK, StreamOK
    <3> QED
      BY <2>1, <3>1 DEF SpaceFor
  <2>3. IF count = 0 THEN call' = Return(t, FALSE, "timeout") /\ s' = s
        ELSE IF s.message
        THEN s' = prvWriteBytesToBuffer(s, <<count>>) /\ call' = Local(t, "writeData", count)
        ELSE s' = Write(s, count) /\ call' = Local(t, "sent", count)
    BY <1>6 DEF WriteToStream
  <2> HIDE DEF space
  <2>4. /\ count \in Nat /\ (~s.message => count <= space)
        /\ s.message /\ count # 0 => count + 1 <= space /\ count = Now(t).v
    BY <1>0, <1>3, <2>2 DEF Writable, Smaller
  <2> HIDE DEF count
  <2>5. CASE count = 0
    <3>1. call' = Return(t, FALSE, "timeout") /\ s' = s
      BY <2>3, <2>5
    <3>2. PlaceOK(s, call'[t], Now(t)'.op) /\ call'[t].at \notin HalfPoint /\ call[t].at \notin HalfPoint
      BY <2>1, <3>1, InvSized, ReturnPlace, NoPlace DEF StreamPoint, WritePoint, ReadPoint, HalfPoint
    <3> QED
      BY <1>0, <2>1, <3>1, <3>2, InvSized, ReturnPlace, SameStep
  <2>6. CASE count # 0 /\ s.message
    <3>1. s' = prvWriteBytesToBuffer(s, <<count>>) /\ call' = Local(t, "writeData", count)
      BY <2>3, <2>6
    <3>2. count \in Nat \ {0} /\ count + 1 <= xStreamBufferSpacesAvailable(s)
      <4>1. xStreamBufferSpacesAvailable(s) \in Nat
        BY <1>0, SpaceAndBytes DEF BufferOK, StreamOK
      <4> QED
        BY <2>2, <2>4, <2>6, <4>1
    <3>7. count \in Sizes(program)
      BY <1>3, <2>4, <2>6
    <3>3. /\ BufferOK(s') /\ InOrderIn(s', TRUE, taken, Sizes(program)) /\ s'.out = s.out
          /\ DataFor(s', count) /\ LeavesBytes(s, s')
      <4>1. InOrderIn(s, FALSE, taken, Sizes(program))
        BY <1>1, <2>1
      <4>2. CanFrame(s, count, taken, Sizes(program))
        BY <1>0, <1>5, <2>6, <3>2, <3>7, <4>1 DEF CanFrame
      <4> QED
        BY <3>1, <4>2, LengthOK
    <3>4. s'.message = s.message
      BY <1>0, <3>1 DEF prvWriteBytesToBuffer, BufferOK, BufferFields
    <3>5. /\ \A u \in Task \ {t} : call'[u] = call[u]
          /\ "size" \in DOMAIN call'[t] /\ call'[t].n = call[t].n
          /\ call'[t].at = "writeData" /\ call'[t].size = count
      BY <3>1, InvSized, LocalPlace
    <3>6. PlaceOK(s', call'[t], Now(t)'.op)
      BY <1>2, <3>3, <3>5, SameNow DEF PlaceOK, WritePoint, ReadPoint
    <3> QED
      BY <1>1, <1>3, <1>5, <3>3, <3>4, <3>5, <3>6, WriterStep
  <2>7. CASE count # 0 /\ ~s.message
    <3>1. s' = Write(s, count) /\ call' = Local(t, "sent", count)
      BY <2>3, <2>7
    <3>2. count <= xStreamBufferSpacesAvailable(s)
      <4>1. xStreamBufferSpacesAvailable(s) \in Nat
        BY <1>0, SpaceAndBytes DEF BufferOK, StreamOK
      <4> QED
        BY <2>2, <2>4, <2>7, <4>1
    <3>3. /\ BufferOK(s') /\ InOrderIn(s', FALSE, taken, Sizes(program)) /\ s'.out = s.out /\ s'.message = s.message
          /\ LeavesBytes(s, s')
      <4>1. PICK z \in BOOLEAN : z = FALSE
        OBVIOUS
      <4>2. InOrderIn(s, z, taken, Sizes(program))
        BY <1>1, <2>1, <4>1
      <4>3. z <=> s.message
        BY <2>7, <4>1
      <4>4. CanWrite(s, count, z, taken, Sizes(program))
        BY <1>0, <1>5, <2>4, <2>7, <3>2, <4>2, <4>3 DEF CanWrite
      <4>5. Wrote(s, s', taken, Sizes(program))
        BY <3>1, <4>4, WriteOK
      <4> QED
        BY <4>5 DEF Wrote
    <3>4. /\ \A u \in Task \ {t} : call'[u] = call[u]
          /\ "size" \in DOMAIN call'[t] /\ call'[t].at = "sent"
      BY <3>1, InvSized, LocalPlace
    <3>5. PlaceOK(s', call'[t], Now(t)'.op) /\ call'[t].at # "writeData" /\ call'[t].at # "readData"
      BY <3>4, NoPlace DEF StreamPoint, WritePoint, ReadPoint, HalfPoint
    <3> QED
      BY <1>1, <1>3, <1>5, <3>3, <3>4, <3>5, WriterStep
  <2> QED
    BY <2>5, <2>6, <2>7
<1>7. CASE WriteMessageData(t)
  <2> DEFINE size == call[t].size
  <2>1. call[t].at = "writeData" /\ s' = Write(s, size) /\ call' = Goto(t, "sent")
    BY <1>7 DEF WriteMessageData, Runs
  <2>2. DataFor(s, size) /\ partly = TRUE
    BY <1>0, <1>5, <2>1 DEF PlaceOK
  <2> HIDE DEF size
  <2>3. s.message /\ size \in Nat /\ size # 0 /\ size <= xStreamBufferSpacesAvailable(s)
        /\ Content(s)[prvBytesInBuffer(s)] = size /\ prvBytesInBuffer(s) # 0
    BY <2>2 DEF DataFor
  <2>7. partly \in BOOLEAN /\ (partly <=> s.message) /\ InOrderIn(s, partly, taken, Sizes(program))
    BY <1>1, <2>2, <2>3 DEF Partly
  <2>4. /\ BufferOK(s') /\ InOrderIn(s', FALSE, taken, Sizes(program)) /\ s'.out = s.out /\ s'.message = s.message
        /\ LeavesBytes(s, s')
    <3>1. CanWrite(s, size, partly, taken, Sizes(program))
      BY <1>0, <1>5, <2>3, <2>7 DEF CanWrite
    <3>2. Wrote(s, s', taken, Sizes(program))
      BY <2>1, <3>1, WriteOK
    <3> QED
      BY <3>2 DEF Wrote
  <2>5. /\ \A u \in Task \ {t} : call'[u] = call[u]
        /\ "size" \in DOMAIN call'[t] /\ call'[t].at = "sent"
    BY <2>1, InvSized, GotoPlace
  <2>6. PlaceOK(s', call'[t], Now(t)'.op) /\ call'[t].at # "writeData" /\ call'[t].at # "readData"
    BY <2>5, NoPlace DEF StreamPoint, WritePoint, ReadPoint, HalfPoint
  <2> QED
    BY <1>1, <1>3, <1>5, <2>4, <2>5, <2>6, WriterStep
<1> QED
  BY <1>6, <1>7

\* What prvReadMessageFromBuffer finds that it may read: bytes, or the message
\* whose length it has read.
LEMMA TakesOK ==
    ASSUME NEW b, BufferOK(b), NEW partly \in BOOLEAN, NEW Z, InOrderIn(b, partly, 0, Z),
           NEW room \in Nat, NEW available, BytesFor(b, available),
           NEW m, m = Readable(b, room, available)
    PROVE  /\ ~b.message => m \in Nat /\ m <= prvBytesInBuffer(b)
           /\ b.message /\ available > 1 =>
                /\ prvBytesInBuffer(b) > 1 /\ b.buf[b.tail] = Content(b)[1] /\ Content(b)[1] \in Z
                /\ Content(b)[1] \in Nat \ {0}
                /\ m = IF Content(b)[1] > room THEN 0 ELSE Content(b)[1]
<1> DEFINE n == prvBytesInBuffer(b)
<1>1. n \in Nat /\ b.message \in BOOLEAN /\ available \in Nat /\ available <= n
  BY SpaceAndBytes DEF BufferOK, StreamOK, BytesFor
<1>2. CASE ~b.message
  <2>1. m = Smaller(available, room)
    BY <1>2 DEF Readable
  <2> HIDE DEF n
  <2>2. m \in Nat /\ m <= n
    BY <1>1, <2>1 DEF Smaller
  <2> QED
    BY <1>2, <2>2 DEF n
<1>3. CASE b.message /\ available > 1
  <2> DEFINE c1 == Content(b)[1]
  <2>1. n > 1 /\ c1 < available
    BY <1>1, <1>3 DEF BytesFor
  <2>2. c1 \in Nat \ {0} /\ c1 \in Z /\ b.buf[b.tail] = c1
    BY <1>3, <2>1, FirstMessage
  <2> HIDE DEF c1
  <2>3. m = IF c1 > room THEN 0 ELSE Smaller(available - 1, c1)
    BY <1>3, <2>2 DEF Readable
  <2>4. m = IF c1 > room THEN 0 ELSE c1
    BY <1>1, <2>1, <2>2, <2>3 DEF Smaller
  <2> QED
    BY <1>3, <2>1, <2>2, <2>4 DEF c1
<1> QED
  BY <1>1, <1>2, <1>3

LEMMA ReaderReads ==
    ASSUME StreamsInv, UNCHANGED program, NEW t \in Task, ReadFromStream(t) \/ ReadMessageData(t)
    PROVE  StreamInv' /\ InOrderOut
<1>0. /\ BufferOK(s) /\ PlaceOK(s, call[t], Now(t).op) /\ s.message \in BOOLEAN /\ SameBytes(s, s)
      /\ s.out \in Nat
  BY DEF StreamsInv, StreamInv, BufferOK, SameBytes
<1>1. PICK partly, taken : Partly(partly) /\ LengthOf(taken) /\ InOrderIn(s, partly, taken, Sizes(program))
  BY DEF StreamsInv, StreamInv
<1>2. k.cur = t /\ Now(t).op = "xStreamBufferReceive"
  BY <1>0 DEF ReadFromStream, ReadMessageData, Runs, PlaceOK
<1>3. /\ Now(t).v \in Nat /\ \A u \in Task \ {t} : Now(u).op # "xStreamBufferReceive"
      /\ s.message => \A size \in Sizes(program) : size <= Now(t).v
  BY <1>2, OneReader
<1>4. partly \in BOOLEAN /\ (partly => s.message)
  <2>1. ASSUME NEW u \in Task, call[u].at = "writeData" PROVE s.message
    BY <2>1 DEF StreamsInv, StreamInv, PlaceOK, DataFor
  <2> QED
    BY <1>1, <2>1 DEF Partly
<1>5. \A u \in Task \ {t} : call[u].at # "readData"
  BY <1>3 DEF StreamsInv, StreamInv, PlaceOK
\* The call ends or goes on to sbRECEIVE_COMPLETED.
<1>6. ASSUME (\E ok, got : call' = Return(t, ok, got)) \/ call' = Goto(t, "received")
      PROVE  /\ \A u \in Task \ {t} : call'[u] = call[u]
             /\ "size" \in DOMAIN call'[t]
             /\ \A b : PlaceOK(b, call'[t], Now(t)'.op)
             /\ call'[t].at \notin HalfPoint /\ call'[t].at # "writeData" /\ call'[t].at # "readData"
  <2>1. /\ \A u \in Task \ {t} : call'[u] = call[u]
        /\ "size" \in DOMAIN call'[t] /\ call'[t].at \in {"call", "received"}
    <3>1. CASE call' = Goto(t, "received")
      BY <3>1, InvSized, GotoPlace
    <3>2. ASSUME NEW ok, NEW got, call' = Return(t, ok, got)
          PROVE  /\ \A u \in Task \ {t} : call'[u] = call[u]
                 /\ "size" \in DOMAIN call'[t] /\ call'[t].at = "call"
      BY <3>2, InvSized, ReturnPlace
    <3> QED
      BY <1>6, <3>1, <3>2
  <2> QED
    BY <2>1, NoPlace DEF StreamPoint, WritePoint, ReadPoint, HalfPoint
<1>7. CASE ReadFromStream(t)
  <2> DEFINE size == call[t].size
             count == Readable(s, Now(t).v, size)
  <2>1. call[t].at = "read" /\ BytesFor(s, size)
    BY <1>0, <1>7 DEF ReadFromStream, Runs, PlaceOK
  <2>2. taken = 0
    BY <1>1, <1>5, <2>1 DEF LengthOf
  <2>3. /\ ~s.message => count \in Nat /\ count <= prvBytesInBuffer(s)
        /\ s.message /\ size > 1 =>
             /\ prvBytesInBuffer(s) > 1 /\ s.buf[s.tail] = Content(s)[1] /\ Content(s)[1] \in Sizes(program)
             /\ Content(s)[1] \in Nat \ {0}
             /\ count = IF Content(s)[1] > Now(t).v THEN 0 ELSE Content(s)[1]
    BY <1>0, <1>1, <1>3, <1>4, <2>1, <2>2, TakesOK
  <2>4. IF size <= (IF s.message THEN 1 ELSE 0) THEN call' = Return(t, FALSE, "timeout") /\ s' = s
        ELSE IF s.message
        THEN /\ s' = AfterLength(s)
             /\ call' = IF s.buf[s.tail] > Now(t).v THEN Local(t, "putBack", s.tail) ELSE Local(t, "readData", count)
        ELSE s' = Read(s, count) /\ call' = EndRead(t, count)
    BY <1>7 DEF ReadFromStream, LengthBytes
  <2>5. size \in Nat
    BY <2>1 DEF BytesFor
  <2>12. call[t].at \notin HalfPoint
    BY <2>1 DEF HalfPoint
  <2> HIDE DEF count, size
  <2>6. CASE s' = s /\ \E ok, got : call' = Return(t, ok, got)
    BY <1>0, <1>6, <2>6, <2>12, SameStep DEF InOrderOut
  <2>7. CASE size <= (IF s.message THEN 1 ELSE 0)
    BY <2>4, <2>6, <2>7
  <2>8. CASE s.message /\ size > 1
    <3> DEFINE m == Content(s)[1]
    <3>1. m \in Nat \ {0} /\ m <= Now(t).v /\ ~(m > Now(t).v) /\ prvBytesInBuffer(s) > 1
      BY <1>3, <2>3, <2>8
    <3>2. count = m /\ ~(s.buf[s.tail] > Now(t).v)
      BY <2>3, <2>8, <3>1
    <3>3. s' = prvReadBytesFromBuffer(s, 1) /\ call' = Local(t, "readData", m)
      <4>1. ~(size <= (IF s.message THEN 1 ELSE 0))
        BY <2>5, <2>8
      <4>2. s' = AfterLength(s) /\ call' = Local(t, "readData", count)
        BY <2>4, <2>8, <3>2, <4>1, Zenon
      <4>3. AfterLength(s) = prvReadBytesFromBuffer(s, 1)
        BY <2>8, Zenon DEF AfterLength
      <4> QED
        BY <3>2, <4>2, <4>3, Zenon
    <3> HIDE DEF m
    <3>4. /\ BufferOK(s') /\ InOrderIn(s', partly, m, Sizes(program)) /\ s'.out = s.out
          /\ RestFor(s', m) /\ LeavesSpace(s, s', partly)
      <4>1. CanTake(s, partly, Sizes(program))
        BY <1>0, <1>1, <1>4, <2>2, <2>8, <3>1 DEF CanTake
      <4>2. m = Content(s)[1]
        BY DEF m
      <4> QED
        BY <3>3, <4>1, <4>2, LengthTaken
    <3>8. s'.message = s.message
      BY <1>0, <3>3 DEF prvReadBytesFromBuffer, BufferOK, BufferFields
    <3>5. /\ \A u \in Task \ {t} : call'[u] = call[u]
          /\ "size" \in DOMAIN call'[t] /\ call'[t].n = call[t].n
          /\ call'[t].at = "readData" /\ call'[t].size = m
      BY <3>3, InvSized, LocalPlace
    <3>6. PlaceOK(s', call'[t], Now(t)'.op)
      BY <1>2, <3>4, <3>5, SameNow DEF PlaceOK, WritePoint, ReadPoint
    <3>7. StreamInv'
      BY <1>1, <1>3, <2>1, <3>1, <3>4, <3>5, <3>6, <3>8, ReaderStep
    <3> QED
      BY <3>4, <3>7 DEF InOrderOut
  <2>9. CASE ~s.message /\ size > 0
    <3>1. s' = Read(s, count) /\ call' = EndRead(t, count)
      <4>1. ~(size <= (IF s.message THEN 1 ELSE 0))
        BY <2>5, <2>9
      <4> QED
        BY <2>4, <2>9, <4>1, Zenon
    <3>2. CASE count = 0
      <4>1. s' = s /\ call' = Return(t, FALSE, "none")
        BY <3>1, <3>2, Zenon DEF Read, EndRead
      <4> QED
        BY <2>6, <4>1
    <3>3. CASE count # 0
      <4>1. count \in Nat \ {0} /\ count <= prvBytesInBuffer(s) /\ call' = Goto(t, "received")
        BY <2>3, <2>9, <3>1, <3>3 DEF EndRead
      <4>2. /\ BufferOK(s') /\ InOrderIn(s', partly, 0, Sizes(program)) /\ s'.message = s.message
            /\ s'.out = s.out + count /\ LeavesSpace(s, s', partly)
            /\ Peek(s, count) = [i \in 1 .. count |-> s.out + i]
        <5>1. CanRead(s, count, partly, taken, Sizes(program))
          BY <1>0, <1>1, <1>4, <2>2, <2>9, <4>1 DEF CanRead
        <5>2. ReadFrom(s, s', count, partly, Sizes(program))
          BY <3>1, <5>1, TakenOK
        <5> QED
          BY <5>2 DEF ReadFrom
      <4>3. StreamInv'
        BY <1>1, <1>3, <1>6, <2>1, <4>1, <4>2, ReaderStep
      <4>4. s'.out - s.out = count
        BY <1>0, <4>1, <4>2
      <4>5. BytesRead(count) = Peek(s, count)
        BY <2>9 DEF BytesRead, AfterLength
      <4> QED
        BY <4>2, <4>3, <4>4, <4>5 DEF InOrderOut
    <3> QED
      BY <3>2, <3>3
  <2> QED
    BY <1>0, <2>5, <2>7, <2>8, <2>9
<1>8. CASE ReadMessageData(t)
  <2> DEFINE m == call[t].size
  <2>1. /\ Runs(t, "readData") /\ call[t].at = "readData" /\ s' = Read(s, m) /\ call' = EndRead(t, m)
    BY <1>8 DEF ReadMessageData, Runs
  <2>2. RestFor(s, m) /\ taken = m
    BY <1>0, <1>1, <2>1 DEF PlaceOK, LengthOf
  <2> HIDE DEF m
  <2>3. s.message /\ m \in Nat \ {0} /\ prvBytesInBuffer(s) # 0
    BY <2>2 DEF RestFor
  <2>4. call' = Goto(t, "received")
    BY <2>1, <2>3 DEF EndRead
  <2>5. /\ BufferOK(s') /\ InOrderIn(s', partly, 0, Sizes(program)) /\ s'.message = s.message
        /\ s'.out = s.out + m /\ LeavesSpace(s, s', partly)
        /\ Peek(s, m) = [i \in 1 .. m |-> s.out + i]
    <3>1. InOrderIn(s, partly, m, Sizes(program)) /\ m \in Nat
      BY <1>1, <2>2, <2>3
    <3>2. CanRead(s, m, partly, m, Sizes(program))
      BY <1>0, <1>4, <2>3, <3>1 DEF CanRead
    <3>3. ReadFrom(s, s', m, partly, Sizes(program))
      BY <2>1, <3>2, TakenOK
    <3> QED
      BY <3>3 DEF ReadFrom
  <2>6. StreamInv'
    BY <1>1, <1>3, <1>6, <2>1, <2>4, <2>5, ReaderStep
  <2>7. s'.out - s.out = m
    BY <1>0, <2>3, <2>5
  <2>8. BytesRead(m) = Peek(s, m)
    BY <2>1 DEF BytesRead
  <2> QED
    BY <2>5, <2>6, <2>7, <2>8 DEF InOrderOut
<1> QED
  BY <1>7, <1>8

\* xStreamBufferReset
LEMMA StreamResets ==
    ASSUME StreamsInv, UNCHANGED program, NEW t \in Task, xStreamBufferReset(t)
    PROVE  StreamInv' /\ InOrderOut
<1>0. BufferOK(s) /\ PlaceOK(s, call[t], Now(t).op) /\ SameBytes(s, s)
  BY DEF StreamsInv, StreamInv, BufferOK, SameBytes
<1>1. call[t].at = "call" /\ Now(t).op = "xStreamBufferReset" /\ call' = Return(t, TRUE, "none")
      /\ InOrderOut
  BY DEF xStreamBufferReset, Calls, Runs, InOrderOut
<1>2. /\ \A u \in Task \ {t} : call'[u] = call[u]
      /\ "size" \in DOMAIN call'[t] /\ call'[t].at = "call"
  BY <1>1, InvSized, ReturnPlace
<1>3. /\ \A b : PlaceOK(b, call'[t], Now(t)'.op)
      /\ call'[t].at \notin HalfPoint /\ call'[t].at # "writeData" /\ call'[t].at # "readData"
      /\ call[t].at \notin HalfPoint
  BY <1>1, <1>2, NoPlace DEF StreamPoint, WritePoint, ReadPoint, HalfPoint
<1>4. CASE s' = s
  BY <1>0, <1>1, <1>2, <1>3, <1>4, SameStep
<1>5. CASE s' # s
  <2>1. s' = [prvInitialiseNewStreamBuffer(s.length, s.trigger, s.message) EXCEPT
                 !.in = s.in, !.out = s.in]
    BY <1>5 DEF xStreamBufferReset
  <2>2. /\ DOMAIN s' = BufferFields /\ s'.length = s.length /\ s'.head = 0 /\ s'.tail = 0
        /\ DOMAIN s'.buf = 0 .. s'.length - 1 /\ s'.message = s.message /\ s'.in = s.in /\ s'.out = s'.in
    BY <2>1 DEF prvInitialiseNewStreamBuffer, BufferFields
  <2>3. s.length \in Nat \ {0} /\ s.message \in BOOLEAN /\ s.in \in Nat
    BY <1>0 DEF BufferOK, StreamOK
  <2>4. /\ BufferOK(s') /\ InOrderIn(s', FALSE, 0, Sizes(program))
        /\ xStreamBufferSpacesAvailable(s') = s.length - 1
    BY <2>2, <2>3, EmptyOK
  <2>5. LeavesSpace(s, s', FALSE)
    <3>1. /\ xStreamBufferSpacesAvailable(s) = s.length - 1 - prvBytesInBuffer(s)
          /\ prvBytesInBuffer(s) \in 0 .. s.length - 1
      BY <1>0, SpaceAndBytes DEF BufferOK
    <3> QED
      BY <2>3, <2>4, <3>1 DEF SpaceFor, LeavesSpace
  <2>6. \A u \in Task : call[u].at # "writeData"
    <3> SUFFICES ASSUME NEW u \in Task, call[u].at = "writeData" PROVE FALSE
      OBVIOUS
    <3>1. Now(u).op = "xStreamBufferSend"
      BY DEF StreamsInv, StreamInv, PlaceOK
    <3>2. t = u
      BY <1>1, <3>1, OneWriter
    <3> QED
      BY <1>1, <3>2
  <2>7. \A u \in Task \ {t} : call'[u] = call[u] /\ Now(u).op # "xStreamBufferReceive"
    BY <1>1, <1>2, OneReader
  <2>8. Partly(FALSE)
    BY <2>6 DEF Partly
  <2>9. StreamInv'
    BY <1>1, <1>2, <1>3, <2>2, <2>4, <2>5, <2>6, <2>7, <2>8, ReaderStep DEF HalfPoint
  <2> QED
    BY <1>1, <2>9
<1> QED
  BY <1>1, <1>4, <1>5

LEMMA StreamCallOK ==
    ASSUME StreamsInv, UNCHANGED program, NEW t \in Task, StreamStep(t)
    PROVE  StreamInv' /\ InOrderOut
<1>1. CASE TryToSend(t) \/ CheckSendTime(t)
  BY <1>1, SenderWaits DEF InOrderOut
<1>2. CASE WaitForStream(t) \/ EndWaitForStream(t) \/ NotifyReceiver(t) \/ NotifySender(t)
           \/ ResumeFromStream(t) \/ TryToReceive(t) \/ LookAfterWait(t)
  BY <1>2, StreamWaits DEF InOrderOut
<1>3. CASE WriteToStream(t) \/ WriteMessageData(t)
  BY <1>3, SenderWrites DEF InOrderOut
<1>4. CASE ReadFromStream(t) \/ ReadMessageData(t)
  BY <1>4, ReaderReads
<1>5. CASE xStreamBufferReset(t)
  BY <1>5, StreamResets
<1>6. CASE PutLengthBack(t)
  <2>1. call[t].at = "putBack" /\ PlaceOK(s, call[t], Now(t).op)
    BY <1>6 DEF PutLengthBack, Runs, StreamsInv, StreamInv
  <2> QED
    BY <2>1 DEF PlaceOK
<1> QED
  BY <1>1, <1>2, <1>3, <1>4, <1>5, <1>6 DEF StreamStep

\* Interrupt handlers that write or read, whole messages at once.
LEMMA HandlerWrites ==
    ASSUME StreamsInv, UNCHANGED <<program, call>>, Handled(program, "xStreamBufferSendFromISR"),
           NEW v \in Nat, s.message => v \in Sizes(program), StreamSendFromISR(v)
    PROVE  StreamInv' /\ s'.out = s.out
<1>0. BufferOK(s) /\ s.message \in BOOLEAN
  BY DEF StreamsInv, StreamInv, BufferOK
<1>1. \A u \in Task : Now(u).op # "xStreamBufferSend"
  BY OneWriter
<1>2. \A u \in Task : call[u].at # "writeData"
  BY <1>1 DEF StreamsInv, StreamInv, PlaceOK
<1>3. PICK taken : LengthOf(taken) /\ InOrderIn(s, FALSE, taken, Sizes(program))
  BY <1>2 DEF StreamsInv, StreamInv, Partly
<1>13. taken \in Nat
  BY <1>3 DEF LengthOf
<1> DEFINE space == xStreamBufferSpacesAvailable(s)
           count == Writable(s, v, space)
           framed == IF s.message THEN prvWriteBytesToBuffer(s, <<count>>) ELSE s
           written == Write(framed, count)
           wakes == prvBytesInBuffer(written) >= s.trigger
<1>4. count > 0 /\ s' = [written EXCEPT !.toReceive = IF wakes THEN NULL ELSE @]
  BY DEF StreamSendFromISR
<1>5. space \in Nat
  BY <1>0, SpaceAndBytes DEF BufferOK, StreamOK
<1>6. count \in Nat \ {0} /\ (~s.message => count <= space) /\ (s.message => count + 1 <= space /\ count = v)
  <2> HIDE DEF space
  <2> QED
    BY <1>0, <1>4, <1>5 DEF Writable, Smaller
<1> HIDE DEF count, wakes
<1>7. /\ BufferOK(written) /\ InOrderIn(written, FALSE, taken, Sizes(program)) /\ written.out = s.out
      /\ written.message = s.message /\ LeavesBytes(s, written)
  <2>1. CASE s.message
    <3>1. framed = prvWriteBytesToBuffer(s, <<count>>)
      BY <2>1
    <3> HIDE DEF framed
    <3>6. count \in Sizes(program)
      BY <1>6, <2>1
    <3>2. /\ BufferOK(framed) /\ InOrderIn(framed, TRUE, taken, Sizes(program)) /\ framed.out = s.out
          /\ DataFor(framed, count) /\ LeavesBytes(s, framed)
      <4>1. count + 1 <= xStreamBufferSpacesAvailable(s)
        BY <1>6, <2>1
      <4> HIDE DEF space
      <4>2. CanFrame(s, count, taken, Sizes(program))
        BY <1>0, <1>3, <1>6, <1>13, <2>1, <3>6, <4>1 DEF CanFrame
      <4> QED
        BY <3>1, <4>2, LengthOK
    <3>3. framed.message = s.message
      BY <1>0, <3>1 DEF prvWriteBytesToBuffer, BufferOK, BufferFields
    <3>4. /\ framed.message /\ count \in Nat /\ count # 0 /\ count <= xStreamBufferSpacesAvailable(framed)
          /\ Content(framed)[prvBytesInBuffer(framed)] = count /\ prvBytesInBuffer(framed) # 0
      BY <3>2 DEF DataFor
    <3>5. /\ BufferOK(written) /\ InOrderIn(written, FALSE, taken, Sizes(program)) /\ written.out = framed.out
          /\ written.message = framed.message /\ LeavesBytes(framed, written)
      <4>1. PICK z \in BOOLEAN : z = TRUE
        OBVIOUS
      <4>2. InOrderIn(framed, z, taken, Sizes(program)) /\ (z <=> framed.message)
        BY <3>2, <3>4, <4>1
      <4>3. CanWrite(framed, count, z, taken, Sizes(program))
        BY <1>13, <3>2, <3>4, <4>2 DEF CanWrite
      <4>4. Wrote(framed, written, taken, Sizes(program))
        BY <4>3, WriteOK
      <4> QED
        BY <4>4 DEF Wrote
    <3>7. LeavesBytes(s, written)
      BY <3>2, <3>5 DEF LeavesBytes
    <3> QED
      BY <3>2, <3>3, <3>5, <3>7
  <2>2. CASE ~s.message
    <3>1. framed = s
      BY <2>2
    <3> HIDE DEF framed
    <3>2. PICK z \in BOOLEAN : z = FALSE
      OBVIOUS
    <3>3. InOrderIn(s, z, taken, Sizes(program)) /\ (z <=> s.message)
      BY <1>3, <2>2, <3>2
    <3>4. count \in Nat /\ count <= xStreamBufferSpacesAvailable(s) /\ written = Write(s, count)
      BY <1>6, <2>2, <3>1
    <3> HIDE DEF written, space
    <3>5. CanWrite(s, count, z, taken, Sizes(program))
      BY <1>0, <1>13, <2>2, <3>3, <3>4 DEF CanWrite
    <3>6. Wrote(s, written, taken, Sizes(program))
      BY <3>4, <3>5, WriteOK
    <3> QED
      BY <3>6 DEF Wrote
  <2> QED
    BY <2>1, <2>2
<1> HIDE DEF written
<1>8. SameBytes(written, s')
  BY <1>4, <1>7 DEF SameBytes, BufferOK, BufferFields
<1>9. BufferOK(s') /\ InOrderIn(s', FALSE, taken, Sizes(program)) /\ LeavesBytes(s, s')
  BY <1>7, <1>8, SameBytesOK, SameCounts DEF LeavesBytes
<1>10. s'.message = s.message /\ s'.out = s.out
  BY <1>7, <1>8 DEF SameBytes, BufferFields
<1>11. PICK x : x \notin Task
  BY NullAssumption
<1>12. \A u \in Task \ {x} : call'[u] = call[u] /\ Now(u).op # "xStreamBufferSend"
  BY <1>1
<1> QED
  BY <1>3, <1>9, <1>10, <1>11, <1>12, WriterStep

LEMMA HandlerReads ==
    ASSUME StreamsInv, UNCHANGED <<program, call>>, Handled(program, "xStreamBufferReceiveFromISR"),
           NEW v \in Nat, StreamReceiveFromISR(v)
    PROVE  StreamInv' /\ InOrderOut
<1>0. BufferOK(s) /\ s.message \in BOOLEAN
  BY DEF StreamsInv, StreamInv, BufferOK
<1>2. \A u \in Task : Now(u).op # "xStreamBufferReceive"
  BY OneReader
<1>15. \A u \in Task : call[u].at # "readData"
  BY <1>2 DEF StreamsInv, StreamInv, PlaceOK
<1>1. PICK partly : Partly(partly) /\ InOrderIn(s, partly, 0, Sizes(program))
  BY <1>15 DEF StreamsInv, StreamInv, LengthOf
<1>3. partly \in BOOLEAN /\ (partly => s.message)
  <2>1. ASSUME NEW u \in Task, call[u].at = "writeData" PROVE s.message
    BY <2>1 DEF StreamsInv, StreamInv, PlaceOK, DataFor
  <2> QED
    BY <1>1, <2>1 DEF Partly
<1> DEFINE available == prvBytesInBuffer(s)
           count == IF available <= LengthBytes THEN 0 ELSE Readable(s, v, available)
           framed == AfterLength(s)
           taken == Read(framed, count)
<1>4. count > 0 /\ s' = [taken EXCEPT !.toSend = NULL]
  BY DEF StreamReceiveFromISR
<1>5. BytesFor(s, available) /\ available \in Nat /\ ~(available <= LengthBytes) /\ count = Readable(s, v, available)
  BY <1>0, <1>1, <1>3, <1>4, AvailableOK, SpaceAndBytes DEF BufferOK, StreamOK
<1> HIDE DEF count, available
<1>6. /\ ~s.message => count \in Nat /\ count <= prvBytesInBuffer(s)
      /\ s.message /\ available > 1 =>
            /\ prvBytesInBuffer(s) > 1 /\ Content(s)[1] \in Nat \ {0}
            /\ count = IF Content(s)[1] > v THEN 0 ELSE Content(s)[1]
  BY <1>0, <1>1, <1>3, <1>5, TakesOK
<1> HIDE DEF taken
<1>7. /\ BufferOK(taken) /\ InOrderIn(taken, partly, 0, Sizes(program)) /\ taken.message = s.message
      /\ taken.out = s.out + count /\ LeavesSpace(s, taken, partly) /\ count \in Nat \ {0}
      /\ Peek(framed, count) = [i \in 1 .. count |-> s.out + i]
  <2>1. CASE s.message
    <3>1. available > 1
      BY <1>5, <2>1 DEF LengthBytes
    <3>2. count = Content(s)[1] /\ count \in Nat \ {0} /\ prvBytesInBuffer(s) > 1
      BY <1>4, <1>6, <2>1, <3>1
    <3>3. framed = prvReadBytesFromBuffer(s, 1)
      BY <2>1 DEF AfterLength
    <3> HIDE DEF framed
    <3>4. /\ BufferOK(framed) /\ InOrderIn(framed, partly, count, Sizes(program)) /\ framed.out = s.out
          /\ framed.message = s.message /\ RestFor(framed, count) /\ LeavesSpace(s, framed, partly)
      <4>1. prvBytesInBuffer(s) > 1 /\ count = Content(s)[1] /\ framed = prvReadBytesFromBuffer(s, 1)
        BY <3>2, <3>3
      <4>2. CanTake(s, partly, Sizes(program))
        BY <1>0, <1>1, <1>3, <2>1, <4>1 DEF CanTake
      <4> QED
        BY <4>1, <4>2, LengthTaken
    <3>5. prvBytesInBuffer(framed) # 0
      BY <3>4 DEF RestFor
    <3>6. /\ BufferOK(taken) /\ InOrderIn(taken, partly, 0, Sizes(program)) /\ taken.message = framed.message
          /\ taken.out = framed.out + count /\ LeavesSpace(framed, taken, partly)
          /\ Peek(framed, count) = [i \in 1 .. count |-> framed.out + i]
      <4>1. taken = Read(framed, count) /\ framed.message /\ count \in Nat
        BY <2>1, <3>2, <3>4 DEF taken
      <4>2. CanRead(framed, count, partly, count, Sizes(program))
        BY <1>3, <3>2, <3>4, <3>5, <4>1 DEF CanRead
      <4>3. ReadFrom(framed, taken, count, partly, Sizes(program))
        BY <4>1, <4>2, TakenOK
      <4> QED
        BY <4>3 DEF ReadFrom
    <3>7. LeavesSpace(s, taken, partly)
      BY <3>4, <3>6 DEF LeavesSpace
    <3> QED
      BY <3>2, <3>4, <3>6, <3>7
  <2>2. CASE ~s.message
    <3>1. framed = s
      BY <2>2 DEF AfterLength
    <3> HIDE DEF framed
    <3>2. count \in Nat \ {0} /\ count <= prvBytesInBuffer(s)
      BY <1>4, <1>6, <2>2
    <3> QED
      <4>1. CanRead(s, count, partly, 0, Sizes(program))
        BY <1>0, <1>1, <1>3, <2>2, <3>2 DEF CanRead
      <4>2. taken = Read(s, count)
        BY <3>1 DEF taken
      <4>3. ReadFrom(s, taken, count, partly, Sizes(program))
        BY <4>1, <4>2, TakenOK
      <4> QED
        BY <3>1, <3>2, <4>3 DEF ReadFrom
  <2> QED
    BY <1>0, <2>1, <2>2
<1>8. SameBytes(taken, s')
  BY <1>4, <1>7 DEF SameBytes, BufferOK, BufferFields
<1>9. /\ BufferOK(s') /\ InOrderIn(s', partly, 0, Sizes(program))
      /\ LeavesSpace(s, s', partly)
  BY <1>7, <1>8, SameBytesOK, SameCounts DEF LeavesSpace
<1>10. s'.message = s.message /\ s'.out = s.out + count
  BY <1>7, <1>8 DEF SameBytes, BufferFields
<1>11. InOrderOut
  <2>1. s'.out - s.out = count
    BY <1>0, <1>7, <1>10 DEF BufferOK
  <2>2. BytesRead(count) = Peek(framed, count)
    BY <1>15 DEF BytesRead, Runs
  <2> QED
    BY <1>7, <2>1, <2>2 DEF InOrderOut
<1>12. PICK x : x \notin Task
  BY NullAssumption
<1>13. \A u \in Task \ {x} : call'[u] = call[u] /\ Now(u).op # "xStreamBufferReceive"
  BY <1>2
<1>14. StreamInv'
  BY <1>1, <1>9, <1>10, <1>12, <1>13, ReaderStep
<1> QED
  BY <1>11, <1>14

\* The other steps leave the calls of the stream where they are, but for a
\* task that is created anew.
AsideFor(t) ==
    /\ "size" \in DOMAIN call'[t]
    /\ \/ call'[t].at \notin StreamPoint /\ (call[t].at \in HalfPoint => Creates(program, t))
       \/ call'[t].at = call[t].at /\ call'[t].size = call[t].size /\ call'[t].n = call[t].n
StreamsAside == \A t \in Task : AsideFor(t)

LEMMA OneAside ==
    ASSUME Sized, NEW t \in Task, \A u \in Task \ {t} : call'[u] = call[u],
           "size" \in DOMAIN call'[t], call'[t].at \notin StreamPoint, call[t].at \notin HalfPoint
    PROVE  StreamsAside
  BY DEF Sized, StreamsAside, AsideFor

LEMMA GotoAside ==
    ASSUME Sized, NEW t \in Task, NEW at, call' = Goto(t, at),
           at \notin StreamPoint, call[t].at \notin HalfPoint
    PROVE  StreamsAside
  BY GotoPlace, OneAside

LEMMA ReturnAside ==
    ASSUME Sized, NEW t \in Task, NEW ok, NEW got, call' = Return(t, ok, got),
           call[t].at \notin HalfPoint
    PROVE  StreamsAside
<1>1. "call" \notin StreamPoint
  BY DEF StreamPoint, WritePoint, ReadPoint, HalfPoint
<1> QED
  BY <1>1, ReturnPlace, OneAside

LEMMA QueueAside ==
    ASSUME Sized, NEW t \in Task, QueueStep(t)
    PROVE  StreamsAside
<1> USE DEF StreamPoint, WritePoint, ReadPoint, HalfPoint
<1>0. /\ {"size", "at"} \subseteq DOMAIN call[t] /\ DOMAIN call = Task
      /\ call[t].at \notin HalfPoint
  BY DEF Sized, Fits, InScript, QueueStep, TakeAgain, ReadCommandTime, TryQueue,
         SuspendForQueue, LockQueue, BlockOnQueue, UnlockTx, UnlockRx, ResumeFromQueue, LateForQueue,
         DisinheritLate, xQueueGiveMutexRecursive, ResetQueue, Calls, Runs
<1>1. CASE TakeAgain(t) \/ DisinheritLate(t) \/ xQueueGiveMutexRecursive(t) \/ ResetQueue(t)
  BY <1>0, <1>1, ReturnAside DEF TakeAgain, DisinheritLate, xQueueGiveMutexRecursive, ResetQueue
<1>2. CASE ReadCommandTime(t)
  <2>1. /\ \A u \in Task \ {t} : call'[u] = call[u]
        /\ "size" \in DOMAIN call'[t] /\ call'[t].at = "command"
    BY <1>0, <1>2 DEF ReadCommandTime
  <2> QED
    BY <1>0, <2>1, OneAside
<1>3. CASE TryQueue(t)
  <2>1. \/ \E ok, got : call' = Return(t, ok, got)
        \/ \E left, since : call' = [call EXCEPT ![t].at = "suspend", ![t].left = left,
                                                ![t].since = since]
    BY <1>3 DEF TryQueue
  <2>2. CASE \E left, since : call' = [call EXCEPT ![t].at = "suspend", ![t].left = left,
                                                  ![t].since = since]
    <3>1. /\ \A u \in Task \ {t} : call'[u] = call[u]
          /\ "size" \in DOMAIN call'[t] /\ call'[t].at = "suspend"
      BY <1>0, <2>2
    <3> QED
      BY <1>0, <3>1, OneAside
  <2> QED
    BY <1>0, <2>1, <2>2, ReturnAside
<1>4. CASE SuspendForQueue(t) \/ LockQueue(t) \/ UnlockTx(t) \/ UnlockRx(t)
  BY <1>0, <1>4, GotoAside DEF SuspendForQueue, LockQueue, UnlockTx, UnlockRx
<1>5. CASE BlockOnQueue(t)
  <2> DEFINE check == xTaskCheckForTimeOut(k, call[t].since, call[t].left)
             mutex == Now(t).op \in TakeOp /\ q[X(t)].type = "mutex"
             inherits == Inherits(k, IF mutex THEN q[X(t)].holder ELSE NULL)
             Take(path) ==
                 call' = [call EXCEPT ![t].at = "unlockTx", ![t].left = check.left,
                                      ![t].since = check.since, ![t].path = path,
                                      ![t].inherited = IF path = "blocked" /\ mutex
                                                       THEN inherits ELSE @]
  <2>1. Take("blocked") \/ Take("retry") \/ Take("late")
    BY <1>5 DEF BlockOnQueue
  <2> HIDE DEF check, mutex, inherits
  <2>2. ASSUME NEW path, Take(path) PROVE StreamsAside
    <3>1. /\ \A u \in Task \ {t} : call'[u] = call[u]
          /\ "size" \in DOMAIN call'[t] /\ call'[t].at = "unlockTx"
      BY <1>0, <2>2
    <3> QED
      BY <1>0, <3>1, OneAside
  <2> QED
    BY <2>1, <2>2
<1>6. CASE ResumeFromQueue(t) \/ LateForQueue(t)
  <2>1. \/ \E at \in {"again", "late", "disinherit"} : call' = Goto(t, at)
        \/ \E ok, got : call' = Return(t, ok, got)
    BY <1>6 DEF ResumeFromQueue, LateForQueue
  <2> QED
    BY <1>0, <2>1, GotoAside, ReturnAside
<1> QED
  BY <1>1, <1>2, <1>3, <1>4, <1>5, <1>6 DEF QueueStep

LEMMA ControlAside ==
    ASSUME Sized, NEW t \in Task, ControlStep(t)
    PROVE  StreamsAside
<1> USE DEF StreamPoint, WritePoint, ReadPoint, HalfPoint
<1>0. /\ {"size", "at"} \subseteq DOMAIN call[t] /\ DOMAIN call = Task /\ FitsAt(Now(t), call[t].at)
      /\ call[t].at \notin HalfPoint
  BY DEF Sized, Fits, InScript, ControlStep, SuspendForDelay, vTaskDelay, vTaskDelayUntil,
         ResumeFromDelay, EndDelay, Suspend, ResetUnblockTime, Resume, SetPriority, Delete, AllocateStack,
         AllocateTcb, FreeStack, ResumeFromCreate, AddTask, Malloc, Free, ResumeFromHeap, Notify,
         AwaitNotification, TakeNotification, Calls, Runs
<1>1. CASE SuspendForDelay(t)
  BY <1>0, <1>1, GotoAside, ReturnAside DEF SuspendForDelay
<1>2. CASE vTaskDelay(t) \/ ResumeFromDelay(t) \/ Suspend(t) \/ FreeStack(t) \/ Malloc(t) \/ Free(t)
           \/ AwaitNotification(t) \/ AllocateStack(t) \/ AllocateTcb(t)
  BY <1>0, <1>2, GotoAside
     DEF vTaskDelay, ResumeFromDelay, Suspend, FreeStack, Malloc, Free, AwaitNotification,
         AllocateStack, AllocateTcb
<1>3. CASE vTaskDelayUntil(t)
  <2>1. /\ \A u \in Task \ {t} : call'[u] = call[u]
        /\ "size" \in DOMAIN call'[t] /\ call'[t].at = "awake"
    BY <1>0, <1>3 DEF vTaskDelayUntil
  <2> QED
    BY <1>0, <2>1, OneAside
<1>4. CASE EndDelay(t) \/ ResetUnblockTime(t) \/ Resume(t) \/ SetPriority(t) \/ Delete(t) \/ Notify(t)
           \/ ResumeFromHeap(t) \/ TakeNotification(t)
  <2>1. \E ok, got : call' = Return(t, ok, got)
    BY <1>4 DEF EndDelay, ResetUnblockTime, Resume, SetPriority, Delete, Notify, ResumeFromHeap, TakeNotification
  <2> QED
    BY <1>0, <2>1, ReturnAside
<1>5. CASE AddTask(t)
  <2> DEFINE x == Now(t).x
  <2>1. Now(t).op = "xTaskCreate"
    BY <1>0, <1>5 DEF AddTask, Runs, FitsAt, CreatePoint
  <2>2. Creates(program, x)
    BY <2>1 DEF Creates, Sized, InScript, Now, ScriptOf
  <2>3. \A u \in Task : "size" \in DOMAIN call[u]
    BY DEF Sized
  <2>4. "size" \in DOMAIN Fresh /\ Fresh.at = "call"
    BY DEF Fresh
  <2>5. \A u \in Task : \/ call'[u] = call[u]
                        \/ /\ u = t \/ u = x
                           /\ "size" \in DOMAIN call'[u] /\ call'[u].at = "call"
    <3> DEFINE y == Return(t, TRUE, "pdPASS")
    <3>1. /\ DOMAIN y = Task /\ \A u \in Task \ {t} : y[u] = call[u]
          /\ "size" \in DOMAIN y[t] /\ y[t].at = "call"
      BY <1>0 DEF Return, Fresh
    <3>2. call' = [y EXCEPT ![x] = Fresh]
      BY <1>5 DEF AddTask
    <3> HIDE DEF x, y
    <3> QED
      BY <2>4, <3>1, <3>2
  <2> HIDE DEF x
  <2> QED
    BY <1>0, <2>2, <2>3, <2>5 DEF StreamsAside, AsideFor
<1>6. CASE ResumeFromCreate(t)
  <2>1. \/ \E at \in {"stack2", "add", "noTcb"} : call' = Goto(t, at)
        \/ call' = Return(t, FALSE, "noMemory")
    BY <1>6 DEF ResumeFromCreate
  <2> QED
    BY <1>0, <2>1, GotoAside, ReturnAside
<1> QED
  BY <1>1, <1>2, <1>3, <1>4, <1>5, <1>6 DEF ControlStep

LEMMA GroupAside ==
    ASSUME Sized, NEW t \in Task, GroupStep(t)
    PROVE  StreamsAside
<1> USE DEF StreamPoint, WritePoint, ReadPoint, HalfPoint
<1>0. /\ {"size", "at"} \subseteq DOMAIN call[t] /\ DOMAIN call = Task
      /\ call[t].at \notin HalfPoint
  BY DEF Sized, Fits, InScript, GroupStep, EnterGroup, LeaveGroup, ReadEventItem,
         LateForBits, xEventGroupClearBits, ResumeFromSet, xEventGroupSetBits, vEventGroupDelete, Calls, Runs
<1>1. CASE EnterGroup(t)
  <2>1. /\ \A u \in Task \ {t} : call'[u] = call[u]
        /\ "size" \in DOMAIN call'[t] /\ call'[t].at = "leave"
    BY <1>0, <1>1 DEF EnterGroup, Entered
  <2> QED
    BY <1>0, <2>1, OneAside
<1>2. CASE LeaveGroup(t) \/ ReadEventItem(t) \/ LateForBits(t) \/ xEventGroupClearBits(t) \/ ResumeFromSet(t)
           \/ xEventGroupSetBits(t) \/ vEventGroupDelete(t)
  <2>1. \/ \E at \in {"told", "lateBits", "setBits"} : call' = Goto(t, at)
        \/ \E ok, got : call' = Return(t, ok, got)
    BY <1>2 DEF LeaveGroup, ReadEventItem, LateForBits, xEventGroupClearBits, ResumeFromSet,
                xEventGroupSetBits, vEventGroupDelete
  <2> QED
    BY <1>0, <2>1, GotoAside, ReturnAside
<1> QED
  BY <1>1, <1>2 DEF GroupStep

LEMMA TimerAside ==
    ASSUME Sized, NEW t \in Task, TimerStep(t)
    PROVE  StreamsAside
<1> USE DEF StreamPoint, WritePoint, ReadPoint, HalfPoint
<1>0. /\ {"size", "at"} \subseteq DOMAIN call[t] /\ DOMAIN call = Task
      /\ call[t].at \notin HalfPoint
  BY DEF Sized, Fits, InScript, TimerStep, ExpireOrBlock, ResumeDaemon,
         prvProcessExpiredTimer, ReceiveCommand, ProcessCommand, Calls, Runs
<1>1. CASE ExpireOrBlock(t)
  <2>1. \A u \in Task \ {t} : call'[u] = call[u]
    BY <1>0, <1>1 DEF ExpireOrBlock
  <2>2. "size" \in DOMAIN call'[t] /\ call'[t].at \in {"unlockTx", "sampled"}
    BY <1>0, <1>1 DEF ExpireOrBlock
  <2> QED
    BY <1>0, <2>1, <2>2, OneAside
<1>2. CASE ResumeDaemon(t) \/ ProcessCommand(t)
  <2>1. \E at \in {"expire", "again"} : call' = Goto(t, at)
    BY <1>2 DEF ResumeDaemon, ProcessCommand
  <2> QED
    BY <1>0, <2>1, GotoAside
<1>3. CASE prvProcessExpiredTimer(t)
  <2>1. /\ \A u \in Task \ {t} : call'[u] = call[u]
        /\ "size" \in DOMAIN call'[t] /\ call'[t].at = "again"
    BY <1>0, <1>3 DEF prvProcessExpiredTimer
  <2> QED
    BY <1>0, <2>1, OneAside
<1>4. CASE ReceiveCommand(t)
  <2>1. call' = Goto(t, "command received") \/ call' = [call EXCEPT ![t] = Fresh]
    BY <1>4 DEF ReceiveCommand
  <2>2. CASE call' = [call EXCEPT ![t] = Fresh]
    <3>1. /\ \A u \in Task \ {t} : call'[u] = call[u]
          /\ "size" \in DOMAIN call'[t] /\ call'[t].at = "call"
      BY <1>0, <2>2 DEF Fresh
    <3> QED
      BY <1>0, <3>1, OneAside
  <2> QED
    BY <1>0, <2>1, <2>2, GotoAside
<1> QED
  BY <1>1, <1>2, <1>3, <1>4 DEF TimerStep

LEMMA OthersAside ==
    ASSUME Sized, IdleStep \/ xPortSysTickHandler \/ UNCHANGED call
    PROVE  StreamsAside
<1> USE DEF StreamPoint, WritePoint, ReadPoint, HalfPoint
<1>0. /\ Idle \in Task /\ {"size", "at"} \subseteq DOMAIN call[Idle] /\ DOMAIN call = Task
      /\ \A t \in Task : {"size", "at", "n"} \subseteq DOMAIN call[t]
  BY PriorityAssumption DEF Sized, Fits, InScript
<1>1. CASE CleanUp
  <2>1. /\ \A u \in Task \ {Idle} : call'[u] = call[u]
        /\ "size" \in DOMAIN call'[Idle] /\ call'[Idle].at = "freeStack" /\ call[Idle].at \notin HalfPoint
    BY <1>0, <1>1 DEF CleanUp, Runs
  <2> QED
    BY <1>0, <2>1, OneAside
<1>2. CASE FreeDead \/ ResumeFromFree
  <2>1. /\ call[Idle].at \notin HalfPoint
        /\ \/ \E at \in {"freedStack", "freedTcb", "freeTcb"} : call' = Goto(Idle, at)
           \/ call' = [call EXCEPT ![Idle] = Fresh]
    BY <1>2 DEF FreeDead, ResumeFromFree, Runs
  <2>2. CASE call' = [call EXCEPT ![Idle] = Fresh]
    <3>1. /\ \A u \in Task \ {Idle} : call'[u] = call[u]
          /\ "size" \in DOMAIN call'[Idle] /\ call'[Idle].at = "call"
      BY <1>0, <2>2 DEF Fresh
    <3> QED
      BY <1>0, <2>1, <3>1, OneAside
  <2> QED
    BY <1>0, <2>1, <2>2, GotoAside
<1>3. CASE UNCHANGED call
  BY <1>0, <1>3 DEF StreamsAside, AsideFor
<1>4. CASE xPortSysTickHandler
  <2>1. \A t \in Task : /\ "size" \in DOMAIN call'[t] /\ call'[t].at = call[t].at
                        /\ call'[t].n = call[t].n /\ call'[t].size = call[t].size
    BY <1>0, <1>4 DEF xPortSysTickHandler
  <2> QED
    BY <2>1 DEF StreamsAside, AsideFor
<1> QED
  BY <1>1, <1>2, <1>3, <1>4 DEF IdleStep, IdleYield

LEMMA AsideOK ==
    ASSUME StreamsInv, StreamsAside, UNCHANGED <<program, s>>
    PROVE  StreamInv'
<1>1. ASSUME NEW t \in Task PROVE "size" \in DOMAIN call'[t] /\ PlaceOK(s, call'[t], Now(t)'.op)
  <2>1. CASE call'[t].at \notin StreamPoint
    BY <2>1, NoPlace DEF StreamsAside, AsideFor
  <2>2. CASE call'[t].at = call[t].at /\ call'[t].size = call[t].size /\ call'[t].n = call[t].n
    <3>1. Now(t)' = Now(t) /\ PlaceOK(s, call[t], Now(t).op)
      BY <2>2, SameNow DEF StreamsInv, StreamInv
    <3> QED
      BY <2>2, <3>1 DEF StreamsAside, AsideFor, PlaceOK
  <2> QED
    BY <2>1, <2>2 DEF StreamsAside, AsideFor
<1>2. ASSUME NEW t \in Task, call[t].at \in HalfPoint \/ call'[t].at \in HalfPoint
      PROVE  call'[t].at = call[t].at /\ call'[t].size = call[t].size
  <2>1. call[t].at \in HalfPoint => ~Creates(program, t)
    <3>1. CASE call[t].at = "writeData"
      <4>1. Now(t).op = "xStreamBufferSend" /\ s.message
        BY <3>1 DEF StreamsInv, StreamInv, PlaceOK, DataFor
      <4> QED
        BY <4>1, OneWriter
    <3>2. CASE call[t].at = "readData"
      <4>1. Now(t).op = "xStreamBufferReceive" /\ s.message
        BY <3>2 DEF StreamsInv, StreamInv, PlaceOK, RestFor
      <4> QED
        BY <4>1, OneReader
    <3> QED
      BY <3>1, <3>2 DEF HalfPoint
  <2>2. HalfPoint \subseteq StreamPoint
    BY DEF StreamPoint
  <2> QED
    BY <1>2, <2>1, <2>2 DEF StreamsAside, AsideFor
<1>3. PICK partly, taken : Partly(partly) /\ LengthOf(taken) /\ InOrderIn(s, partly, taken, Sizes(program))
  BY DEF StreamsInv, StreamInv
<1>4. Partly(partly)'
  BY <1>2, <1>3 DEF Partly, HalfPoint
<1>5. LengthOf(taken)'
  <2>1. \A t \in Task : call'[t].at = "readData" <=> call[t].at = "readData"
    BY <1>2 DEF HalfPoint
  <2>2. \A t \in Task : call'[t].at = "readData" => call'[t].size = call[t].size
    BY <1>2 DEF HalfPoint
  <2> QED
    BY <1>3, <2>1, <2>2 DEF LengthOf
<1>6. InOrderIn(s', partly, taken, Sizes(program)') /\ BufferOK(s')
  BY <1>3 DEF StreamsInv, StreamInv
<1>7. s'.message = App[program'].stream.message
  BY DEF StreamsInv, StreamInv
<1> QED
  BY <1>1, <1>4, <1>5, <1>6, <1>7 DEF StreamInv

LEMMA SizedInit == Init => Sized /\ s = App[program].stream /\ \A t \in Task : call[t].at = "call"
<1> SUFFICES ASSUME Init PROVE Sized /\ s = App[program].stream /\ \A t \in Task : call[t].at = "call"
  OBVIOUS
<1>1. program \in Program /\ InScript /\ Fits
  BY ScriptInit, FitsInit
<1>2. s = App[program].stream /\ \A t \in Task : call[t] = Fresh
  BY DEF Init, CallInit, StreamInit
<1>3. \A t \in Task : "size" \in DOMAIN call[t] /\ call[t].at = "call"
  BY <1>2 DEF Fresh
<1> QED
  BY <1>1, <1>2, <1>3 DEF Sized

\* A step is one of the stream, of a handler, or leaves the stream alone.
LEMMA StepKinds ==
    ASSUME Sized, [Next]_vars
    PROVE  \/ \E t \in Task : StreamStep(t)
           \/ Interrupt
           \/ StreamsAside /\ UNCHANGED s
<1>5. ASSUME \/ (\E t \in Task : QueueStep(t) \/ ControlStep(t) \/ GroupStep(t) \/ TimerStep(t))
             \/ IdleStep \/ xPortSysTickHandler \/ UNCHANGED call
      PROVE  StreamsAside
  BY <1>5, QueueAside, ControlAside, GroupAside, TimerAside, OthersAside
<1>6. CASE UNCHANGED vars \/ xPortPendSVHandler
  <2>1. UNCHANGED <<call, s>>
    BY <1>6 DEF vars, xPortPendSVHandler
  <2> QED
    BY <1>5, <2>1
<1>7. CASE xPortSysTickHandler \/ QueueCall \/ ControlCall \/ GroupCall \/ TimerCall \/ IdleLoop
  <2>1. UNCHANGED s
    BY <1>7 DEF xPortSysTickHandler, QueueCall, ControlCall, GroupCall, TimerCall, IdleLoop
  <2>2. StreamsAside
    BY <1>5, <1>7 DEF QueueCall, ControlCall, GroupCall, TimerCall, IdleLoop
  <2> QED
    BY <2>1, <2>2
<1>8. CASE StreamCall
  BY <1>8 DEF StreamCall
<1> QED
  BY <1>6, <1>7, <1>8 DEF Next

LEMMA HandlerStreams ==
    ASSUME StreamsInv, Interrupt
    PROVE  StreamInv' /\ InOrderOut
<1>1. PICK c \in App[program].handlers : Handler(c)
  BY DEF Interrupt
<1>2. UNCHANGED <<program, call>>
  BY DEF Interrupt
<1>3. CASE c.op = "xStreamBufferSendFromISR" /\ StreamSendFromISR(c.v)
  <2>1. c.v \in Nat /\ Handled(program, "xStreamBufferSendFromISR")
    BY <1>3, StreamAssumption DEF StreamsInv, Handled, StreamOpFromISR
  <2>2. c.v \in Sizes(program)
    BY <1>3 DEF Sizes, Written
  <2> QED
    BY <1>2, <1>3, <2>1, <2>2, HandlerWrites DEF InOrderOut
<1>4. CASE c.op = "xStreamBufferReceiveFromISR" /\ StreamReceiveFromISR(c.v)
  <2>1. c.v \in Nat /\ Handled(program, "xStreamBufferReceiveFromISR")
    BY <1>4, StreamAssumption DEF StreamsInv, Handled, StreamOpFromISR
  <2> QED
    BY <1>2, <1>4, <2>1, HandlerReads
<1>5. CASE UNCHANGED s
  <2>1. StreamInv'
    BY <1>2, <1>5, InvSized, OthersAside, AsideOK
  <2> QED
    BY <1>5, <2>1 DEF InOrderOut
<1> QED
  BY <1>1, <1>3, <1>4, <1>5 DEF Handler

LEMMA StreamsNext == StreamsInv /\ [Next]_vars => StreamsInv' /\ InOrderOut
<1> SUFFICES ASSUME StreamsInv, [Next]_vars PROVE StreamsInv' /\ InOrderOut
  OBVIOUS
<1>1. program' \in Program /\ InScript' /\ Fits' /\ UNCHANGED program
  BY ScriptStep, FitsNext DEF StreamsInv
<1>9. RoomForMessages(program)'
  BY <1>1 DEF StreamsInv
<1>2. CASE \E t \in Task : StreamStep(t)
  BY <1>1, <1>2, <1>9, StreamCallOK DEF StreamsInv
<1>3. CASE Interrupt
  BY <1>1, <1>3, <1>9, HandlerStreams DEF StreamsInv
<1>4. CASE StreamsAside /\ UNCHANGED s
  <2>1. StreamInv'
    BY <1>1, <1>4, AsideOK
  <2> QED
    BY <1>1, <1>4, <1>9, <2>1 DEF StreamsInv, InOrderOut
<1>5. Sized
  BY InvSized
<1> QED
  BY <1>2, <1>3, <1>4, <1>5, StepKinds

LEMMA StreamsInit == Init /\ RoomForMessages(program) => StreamsInv
<1> SUFFICES ASSUME Init, RoomForMessages(program) PROVE StreamsInv
  OBVIOUS
<1>1. Sized /\ s = App[program].stream /\ \A t \in Task : call[t].at = "call"
  BY SizedInit
<1>4. /\ s.length \in Nat \ {0} /\ s.message \in BOOLEAN
      /\ s = prvInitialiseNewStreamBuffer(s.length, s.trigger, s.message)
  BY <1>1, StreamAssumption DEF LegalStream, Sized
<1> DEFINE b == prvInitialiseNewStreamBuffer(s.length, s.trigger, s.message)
<1>5. /\ DOMAIN b = BufferFields /\ b.length = s.length /\ b.head = 0 /\ b.tail = 0
      /\ DOMAIN b.buf = 0 .. b.length - 1 /\ b.in = 0 /\ b.out = 0
  BY DEF prvInitialiseNewStreamBuffer, BufferFields
<1> HIDE DEF b
<1>6. BufferOK(s) /\ InOrderIn(s, FALSE, 0, Sizes(program))
  <2>1. s = b
    BY <1>4 DEF b
  <2>2. /\ DOMAIN s = BufferFields /\ s.head = 0 /\ s.tail = 0
        /\ DOMAIN s.buf = 0 .. s.length - 1 /\ s.in \in Nat /\ s.out = s.in
    BY <1>5, <2>1
  <2> QED
    BY <1>4, <2>2, EmptyOK
<1>8. \A t \in Task : PlaceOK(s, call[t], Now(t).op) /\ call[t].at \notin HalfPoint
  BY <1>1, NoPlace DEF StreamPoint, WritePoint, ReadPoint, HalfPoint
<1>9. Partly(FALSE) /\ LengthOf(0)
  BY <1>8 DEF Partly, LengthOf, HalfPoint
<1> QED
  BY <1>1, <1>6, <1>8, <1>9 DEF StreamsInv, StreamInv, Sized

\* One writer and one reader at a time, as stream_buffer.h:34 asks for, tasks
\* or interrupt handlers, wherever they are in their calls: a reader gets the
\* bytes that were written, and whole messages, in order and each once.  Only
\* a task that alone writes and reads may reset the buffer, and a task that
\* reads messages has room for each of them: its step that puts the length of
\* a longer one back is the one that breaks the order (LongMessageStays).
THEOREM StreamsInOrder == Spec => StreamInOrder
<1> DEFINE J == program \in Program /\ (RoomForMessages(program) => StreamsInv)
<1>1. Init => J
  BY StreamsInit, SizedInit DEF Sized
<1>2. J /\ [Next]_vars => J'
  <2> SUFFICES ASSUME J, [Next]_vars PROVE J'
    OBVIOUS
  <2>1. UNCHANGED program
    BY DEF Next, vars, xPortSysTickHandler, Interrupt, xPortPendSVHandler, QueueCall, ControlCall,
           GroupCall, TimerCall, StreamCall, IdleLoop
  <2>2. CASE RoomForMessages(program)
    BY <2>1, <2>2, StreamsNext
  <2>3. CASE ~RoomForMessages(program)
    BY <2>1, <2>3
  <2> QED
    BY <2>2, <2>3
<1>3. J /\ [Next]_vars => [RoomForMessages(program) => ReadInOrder]_vars
  <2> SUFFICES ASSUME J, [Next]_vars, RoomForMessages(program), s'.out > s.out,
                      ~Calls(k.cur, "xStreamBufferReset")
               PROVE  BytesRead(s'.out - s.out) = [i \in 1 .. s'.out - s.out |-> s.out + i]
    BY DEF ReadInOrder
  <2>1. InOrderOut
    BY StreamsNext
  <2>2. s'.out # s.out
    <3>1. s.out \in Nat
      BY DEF StreamsInv, StreamInv, BufferOK
    <3> QED
      BY <3>1
  <2> QED
    BY <2>1, <2>2 DEF InOrderOut
<1> QED
  BY <1>1, <1>2, <1>3, PTL DEF Spec, StreamInOrder

\* Whatever the room of the reader is: the indexes stay in the buffer.
IndexesOK(b) ==
    /\ DOMAIN b = BufferFields /\ StreamOK(b) /\ b.message \in BOOLEAN /\ b.in \in Nat
    /\ \A i \in DOMAIN b.buf : b.buf[i] \in Nat
SizePoint == WritePoint \cup HalfPoint \cup {"read", "putBack"}
SizeOK(c, op, L) ==
    /\ "size" \in DOMAIN c
    /\ c.at \in StreamPoint => op \in StreamOp
    /\ c.at \in SizePoint => c.size \in 0 .. L - 1
InRing == IndexesOK(s) /\ \A t \in Task : SizeOK(call[t], Now(t).op, s.length)

LEMMA WritesRing ==
    ASSUME NEW b, IndexesOK(b), NEW m \in Nat, m < b.length,
           NEW bytes \in Seq(Nat), Len(bytes) = m, NEW c, c = prvWriteBytesToBuffer(b, bytes)
    PROVE  IndexesOK(c) /\ c.length = b.length
<1>1. PICK L \in Nat \ {0}, head \in Nat :
          /\ b.length = L /\ b.head = head /\ head < L /\ m < L
          /\ b.tail \in 0 .. L - 1 /\ DOMAIN b.buf = 0 .. L - 1
  BY DEF IndexesOK, StreamOK
<1>2. /\ DOMAIN c = BufferFields /\ c.length = L /\ c.tail = b.tail /\ c.message = b.message /\ c.in = b.in
      /\ c.head = IF head + m >= L THEN head + m - L ELSE head + m
      /\ DOMAIN c.buf = 0 .. L - 1
      /\ \A i \in 0 .. L - 1 :
            c.buf[i] = IF Slot(i + L - head, L) < m THEN bytes[Slot(i + L - head, L) + 1] ELSE b.buf[i]
  BY <1>1 DEF IndexesOK, BufferFields, prvWriteBytesToBuffer, Slot
<1>3. ASSUME NEW i \in 0 .. L - 1 PROVE c.buf[i] \in Nat
  <2> DEFINE d == Slot(i + L - head, L)
  <2>1. d \in Nat
    BY <1>1, Slots
  <2> HIDE DEF d
  <2>2. c.buf[i] = IF d < m THEN bytes[d + 1] ELSE b.buf[i]
    BY <1>2 DEF d
  <2>3. d < m => bytes[d + 1] \in Nat
    BY <2>1
  <2>4. b.buf[i] \in Nat
    BY <1>1 DEF IndexesOK
  <2> QED
    BY <2>2, <2>3, <2>4
<1>4. StreamOK(c)
  BY <1>1, <1>2 DEF StreamOK, BufferFields
<1> QED
  BY <1>1, <1>2, <1>3, <1>4 DEF IndexesOK

LEMMA WriteRing ==
    ASSUME NEW b, IndexesOK(b), NEW m \in Nat, m < b.length, NEW c, c = Write(b, m)
    PROVE  IndexesOK(c) /\ c.length = b.length
<1> DEFINE bytes == Numbered(b, m)
           d == prvWriteBytesToBuffer(b, bytes)
<1>1. bytes \in Seq(Nat) /\ Len(bytes) = m
  BY DEF Numbered, IndexesOK
<1> HIDE DEF bytes
<1>2. IndexesOK(d) /\ d.length = b.length
  BY <1>1, WritesRing
<1> HIDE DEF d
<1>3. c = [d EXCEPT !.in = d.in + m]
  BY DEF Write, d, bytes
<1>4. /\ DOMAIN c = BufferFields /\ c.in = d.in + m /\ c.length = d.length /\ c.head = d.head /\ c.tail = d.tail
      /\ c.buf = d.buf /\ c.message = d.message
  BY <1>2, <1>3 DEF IndexesOK, BufferFields
<1> HIDE DEF d
<1> QED
  BY <1>2, <1>4 DEF IndexesOK, StreamOK, BufferFields

\* A buffer like b, with another tail and another count of what is read.
LEMMA TailRing ==
    ASSUME NEW b, IndexesOK(b), NEW c, DOMAIN c = BufferFields, c.tail \in 0 .. b.length - 1,
           \A f \in BufferFields \ {"tail", "out", "toSend", "toReceive"} : c[f] = b[f]
    PROVE  IndexesOK(c) /\ c.length = b.length
<1>1. /\ c.length = b.length /\ c.head = b.head /\ c.buf = b.buf /\ c.message = b.message /\ c.in = b.in
  BY DEF BufferFields
<1> QED
  BY <1>1 DEF IndexesOK, StreamOK, BufferFields

LEMMA ReadsRing ==
    ASSUME NEW b, IndexesOK(b), NEW m \in Nat, m < b.length, NEW c, c = prvReadBytesFromBuffer(b, m)
    PROVE  IndexesOK(c) /\ c.length = b.length
<1>1. PICK L \in Nat \ {0}, tail \in Nat : b.length = L /\ b.tail = tail /\ tail < L /\ m < L
  BY DEF IndexesOK, StreamOK
<1>2. /\ DOMAIN c = BufferFields /\ c.tail = IF tail + m >= L THEN tail + m - L ELSE tail + m
      /\ \A f \in BufferFields \ {"tail"} : c[f] = b[f]
  BY <1>1 DEF IndexesOK, BufferFields, prvReadBytesFromBuffer
<1> QED
  BY <1>1, <1>2, TailRing

LEMMA ReadRing ==
    ASSUME NEW b, IndexesOK(b), NEW m \in Nat, m < b.length, NEW c, c = Read(b, m)
    PROVE  IndexesOK(c) /\ c.length = b.length
<1> DEFINE d == prvReadBytesFromBuffer(b, m)
<1>1. IndexesOK(d) /\ d.length = b.length
  BY ReadsRing
<1>2. c = b \/ c = [d EXCEPT !.out = d.out + m]
  BY DEF Read
<1> HIDE DEF d
<1>3. CASE c = [d EXCEPT !.out = d.out + m]
  <2>1. DOMAIN c = BufferFields /\ \A f \in BufferFields \ {"out"} : c[f] = d[f]
    BY <1>1, <1>3 DEF IndexesOK
  <2>2. d.tail \in 0 .. d.length - 1 /\ c.tail = d.tail
    BY <1>1, <2>1 DEF IndexesOK, StreamOK, BufferFields
  <2> QED
    BY <1>1, <2>1, <2>2, TailRing
<1> QED
  BY <1>2, <1>3

\* What is written leaves a byte free; what is read is there.
LEMMA SizesFit ==
    ASSUME NEW b, IndexesOK(b), NEW v \in Nat, NEW a \in 0 .. b.length - 1
    PROVE  /\ xStreamBufferSpacesAvailable(b) \in 0 .. b.length - 1
           /\ prvBytesInBuffer(b) \in 0 .. b.length - 1
           /\ Writable(b, v, a) \in 0 .. b.length - 1
           /\ Writable(b, v, a) # 0 => 1 < b.length
           /\ a # 0 => Readable(b, v, a) \in 0 .. b.length - 1
<1>1. b.length \in Nat \ {0} /\ b.buf[b.tail] \in Nat
  BY DEF IndexesOK, StreamOK
<1>2. Writable(b, v, a) \in 0 .. b.length - 1 /\ (Writable(b, v, a) # 0 => 1 < b.length)
  BY <1>1 DEF Writable, Smaller
<1>3. a # 0 => Readable(b, v, a) \in 0 .. b.length - 1
  BY <1>1 DEF Readable, Smaller
<1> QED
  BY <1>1, <1>2, <1>3, SpaceAndBytes DEF IndexesOK

\* What a step of a task does with its call and what stays in the ring.
RingCall(t, c) == /\ \A u \in Task \ {t} : c[u] = call[u]
                  /\ SizeOK(c[t], Now(t)'.op, s.length)

LEMMA RingGoto ==
    ASSUME Sized, InRing, UNCHANGED program, NEW t \in Task, NEW at, call' = Goto(t, at),
           \/ at \notin StreamPoint
           \/ Now(t).op \in StreamOp /\ (at \in SizePoint => call[t].size \in 0 .. s.length - 1)
    PROVE  RingCall(t, call')
<1>1. SizePoint \subseteq StreamPoint
  BY DEF SizePoint, StreamPoint
<1> QED
  BY <1>1, GotoPlace, SameNow DEF RingCall, SizeOK

LEMMA RingLocal ==
    ASSUME Sized, InRing, UNCHANGED program, NEW t \in Task, NEW at, NEW size, call' = Local(t, at, size),
           \/ at \notin StreamPoint
           \/ Now(t).op \in StreamOp /\ size \in 0 .. s.length - 1
    PROVE  RingCall(t, call')
<1>1. SizePoint \subseteq StreamPoint
  BY DEF SizePoint, StreamPoint
<1> QED
  BY <1>1, LocalPlace, SameNow DEF RingCall, SizeOK

LEMMA RingReturn ==
    ASSUME Sized, NEW t \in Task, NEW ok, NEW got, call' = Return(t, ok, got)
    PROVE  RingCall(t, call')
<1>1. "call" \notin StreamPoint /\ "call" \notin SizePoint
  BY DEF StreamPoint, SizePoint, WritePoint, ReadPoint, HalfPoint
<1> QED
  BY <1>1, ReturnPlace DEF RingCall, SizeOK

\* Where the step of a task starts.
LEMMA RingNow ==
    ASSUME Sized, InRing, NEW t \in Task
    PROVE  /\ IndexesOK(s) /\ DOMAIN s = BufferFields /\ s.length \in Nat \ {0}
           /\ DOMAIN call = Task /\ {"size", "at", "n"} \subseteq DOMAIN call[t]
           /\ call[t].at \in StreamPoint => Now(t).op \in StreamOp
           /\ call[t].at \in SizePoint => call[t].size \in 0 .. s.length - 1
           /\ Now(t).op \in StreamOp => Now(t).v \in Nat
<1>1. Now(t).op \in StreamOp => Now(t).v \in Nat
  BY StreamAssumption DEF Sized, InScript, Now, ScriptOf
<1> QED
  BY <1>1 DEF InRing, IndexesOK, StreamOK, SizeOK, Sized, InScript, Fits

LEMMA WaitersRing ==
    ASSUME IndexesOK(s), \/ s' = s
                         \/ \E w : s' = [s EXCEPT !.toSend = w] \/ s' = [s EXCEPT !.toReceive = w]
    PROVE  IndexesOK(s') /\ s'.length = s.length
<1>1. DOMAIN s' = BufferFields /\ \A f \in BufferFields \ {"toSend", "toReceive"} : s'[f] = s[f]
  BY DEF IndexesOK
<1>2. s'.tail \in 0 .. s.length - 1
  BY <1>1 DEF IndexesOK, StreamOK, BufferFields
<1> QED
  BY <1>1, <1>2, TailRing

LEMMA RingStep ==
    ASSUME Sized, InRing, UNCHANGED program, NEW t \in Task, RingCall(t, call'),
           IndexesOK(s'), s'.length = s.length
    PROVE  InRing'
<1>1. ASSUME NEW u \in Task \ {t} PROVE SizeOK(call'[u], Now(u)'.op, s'.length)
  <2>1. Now(u)' = Now(u) /\ call'[u] = call[u]
    BY DEF RingCall, Now, ScriptOf
  <2> QED
    BY <2>1 DEF InRing
<1> QED
  BY <1>1 DEF InRing, RingCall

\* Steps that write.
LEMMA WriterRing ==
    ASSUME Sized, InRing, UNCHANGED program, NEW t \in Task,
           TryToSend(t) \/ CheckSendTime(t) \/ WriteToStream(t) \/ WriteMessageData(t)
    PROVE  InRing'
<1> USE DEF StreamPoint, WritePoint, ReadPoint, HalfPoint, SizePoint
<1>0. /\ IndexesOK(s) /\ s.length \in Nat \ {0} /\ {"size", "at", "n"} \subseteq DOMAIN call[t]
      /\ call[t].at \in StreamPoint => Now(t).op \in StreamOp
      /\ call[t].at \in SizePoint => call[t].size \in 0 .. s.length - 1
      /\ Now(t).op \in StreamOp => Now(t).v \in Nat /\ DOMAIN call = Task
  BY RingNow
<1> DEFINE space == xStreamBufferSpacesAvailable(s)
           free == IF call[t].size = 0 THEN space ELSE call[t].size
           count == Writable(s, Now(t).v, free)
<1>1. space \in 0 .. s.length - 1
  BY <1>0, SizesFit
<1> HIDE DEF space
<1>2. CASE TryToSend(t)
  <2> DEFINE timed == IF call[t].at = "call"
                      THEN [call EXCEPT ![t].left = Now(t).ticks,
                                        ![t].since = vTaskInternalSetTimeOutState(k)] ELSE call
  <2>1. Now(t).op \in StreamOp
    BY <1>0, <1>2 DEF TryToSend, Calls, Runs, StreamOp
  <2>2. /\ DOMAIN timed = Task /\ {"at", "size", "n"} \subseteq DOMAIN timed[t]
        /\ timed[t].n = call[t].n /\ \A u \in Task \ {t} : timed[u] = call[u]
    BY <1>0 DEF Sized, InScript
  <2>3. \/ call' = Local(t, "write", 0) /\ s' = s
        \/ call' = Local(t, "write", space) /\ s' = s
        \/ /\ call' = [timed EXCEPT ![t].at = "sendWait", ![t].size = space]
           /\ s' = [s EXCEPT !.toSend = t]
    BY <1>2 DEF TryToSend, space
  <2> HIDE DEF timed
  <2>4. ASSUME call' = [timed EXCEPT ![t].at = "sendWait", ![t].size = space] PROVE RingCall(t, call')
    <3>1. /\ \A u \in Task \ {t} : call'[u] = call[u]
          /\ "size" \in DOMAIN call'[t] /\ call'[t].n = call[t].n
          /\ call'[t].at = "sendWait" /\ call'[t].size = space
      BY <2>2, <2>4
    <3>2. Now(t)' = Now(t)
      BY <3>1, SameNow
    <3>3. SizeOK(call'[t], Now(t)'.op, s.length)
      BY <1>1, <2>1, <3>1, <3>2 DEF SizeOK
    <3> QED
      BY <3>1, <3>3 DEF RingCall
  <2>7. 0 \in 0 .. s.length - 1
    BY <1>0
  <2>8. ASSUME NEW size \in {0, space}, call' = Local(t, "write", size) PROVE RingCall(t, call')
    BY <1>1, <2>1, <2>7, <2>8, RingLocal
  <2>5. RingCall(t, call')
    <3>1. 0 \in {0, space} /\ space \in {0, space}
      OBVIOUS
    <3>2. CASE call' = Local(t, "write", 0)
      BY <2>8, <3>1, <3>2
    <3>3. CASE call' = Local(t, "write", space)
      BY <2>8, <3>1, <3>3
    <3> QED
      BY ONLY <2>3, <2>4, <3>2, <3>3
  <2>6. IndexesOK(s') /\ s'.length = s.length
    BY <1>0, <2>3, WaitersRing
  <2> QED
    BY <2>5, <2>6, RingStep
<1>3. CASE CheckSendTime(t)
  <2> DEFINE check == xTaskCheckForTimeOut(k, call[t].since, call[t].left)
  <2>1. call[t].at = "sendCheck"
    BY <1>3 DEF CheckSendTime, Runs
  <2>2. /\ call' = [call EXCEPT ![t].at = IF check.out THEN "write" ELSE "sendAgain",
                                ![t].left = check.left, ![t].since = check.since]
        /\ s' = [s EXCEPT !.toSend = NULL]
    BY <1>3 DEF CheckSendTime
  <2> HIDE DEF check
  <2>3. /\ \A u \in Task \ {t} : call'[u] = call[u]
        /\ "size" \in DOMAIN call'[t] /\ call'[t].n = call[t].n
        /\ call'[t].at \in {"write", "sendAgain"} /\ call'[t].size = call[t].size
    BY <1>0, <2>2 DEF Sized, InScript
  <2>4. RingCall(t, call')
    BY <1>0, <2>1, <2>3, SameNow DEF RingCall, SizeOK
  <2>5. IndexesOK(s') /\ s'.length = s.length
    BY <1>0, <2>2, WaitersRing
  <2> QED
    BY <2>4, <2>5, RingStep
<1>4. CASE WriteToStream(t)
  <2>1. call[t].at = "write" /\ Now(t).op \in StreamOp /\ Now(t).v \in Nat /\ free \in 0 .. s.length - 1
    BY <1>0, <1>1, <1>4 DEF WriteToStream, Runs
  <2>2. \/ call' = Return(t, FALSE, "timeout") /\ s' = s
        \/ count # 0 /\ s' = prvWriteBytesToBuffer(s, <<count>>) /\ call' = Local(t, "writeData", count)
        \/ count # 0 /\ s' = Write(s, count) /\ call' = Local(t, "sent", count)
    BY <1>4 DEF WriteToStream, space
  <2> HIDE DEF free
  <2>3. count \in 0 .. s.length - 1 /\ (count # 0 => 1 < s.length)
    BY <1>0, <2>1, SizesFit
  <2> HIDE DEF count
  <2>4. RingCall(t, call')
    BY <2>1, <2>2, <2>3, RingLocal, RingReturn
  <2>5. CASE count # 0 /\ s' = prvWriteBytesToBuffer(s, <<count>>)
    <3>1. <<count>> \in Seq(Nat) /\ Len(<<count>>) = 1
      BY <1>0, <2>3
    <3> QED
      BY <1>0, <2>3, <2>4, <2>5, <3>1, WritesRing, RingStep
  <2>6. CASE s' = Write(s, count)
    BY <1>0, <2>3, <2>4, <2>6, WriteRing, RingStep
  <2> QED
    BY <1>0, <2>2, <2>4, <2>5, <2>6, RingStep
<1>5. CASE WriteMessageData(t)
  <2>1. call[t].at = "writeData" /\ s' = Write(s, call[t].size) /\ call' = Goto(t, "sent")
    BY <1>5 DEF WriteMessageData, Runs
  <2>2. IndexesOK(s') /\ s'.length = s.length
    BY <1>0, <2>1, WriteRing
  <2>3. RingCall(t, call')
    BY <2>1, RingGoto
  <2> QED
    BY <2>2, <2>3, RingStep
<1> QED
  BY <1>2, <1>3, <1>4, <1>5

\* Steps that wait and tell.
LEMMA WaitRing ==
    ASSUME Sized, InRing, UNCHANGED program, NEW t \in Task,
           WaitForStream(t) \/ EndWaitForStream(t) \/ NotifyReceiver(t) \/ NotifySender(t)
           \/ ResumeFromStream(t) \/ TryToReceive(t) \/ LookAfterWait(t)
    PROVE  InRing'
<1> USE DEF StreamPoint, WritePoint, ReadPoint, HalfPoint, SizePoint
<1>0. /\ IndexesOK(s) /\ s.length \in Nat \ {0}
      /\ call[t].at \in StreamPoint => Now(t).op \in StreamOp
      /\ call[t].at \in SizePoint => call[t].size \in 0 .. s.length - 1
  BY RingNow
<1>1. prvBytesInBuffer(s) \in 0 .. s.length - 1
  BY <1>0, SpaceAndBytes DEF IndexesOK
<1>2. CASE WaitForStream(t) \/ EndWaitForStream(t)
  <2>1. /\ s' = s /\ call[t].at \in {"sendWait", "receiveWait", "sendWoken", "receiveWoken"}
        /\ call' = Goto(t, IF call[t].at = "sendWait" THEN "sendWoken"
                           ELSE IF call[t].at = "receiveWait" THEN "receiveWoken"
                           ELSE IF call[t].at = "sendWoken" THEN "sendCheck" ELSE "receiveCheck")
    BY <1>2 DEF WaitForStream, EndWaitForStream, Runs
  <2>2. RingCall(t, call')
    BY <1>0, <2>1, RingGoto
  <2> QED
    BY <1>0, <2>1, <2>2, RingStep
<1>3. CASE NotifyReceiver(t) \/ NotifySender(t) \/ ResumeFromStream(t)
  <2>1. /\ call' = Goto(t, "streamDone") \/ call' = Return(t, TRUE, "none")
        /\ s' = s \/ s' = [s EXCEPT !.toReceive = NULL] \/ s' = [s EXCEPT !.toSend = NULL]
    BY <1>3 DEF NotifyReceiver, NotifySender, ResumeFromStream
  <2>2. RingCall(t, call')
    BY <2>1, RingGoto, RingReturn
  <2>3. IndexesOK(s') /\ s'.length = s.length
    BY <1>0, <2>1, WaitersRing
  <2> QED
    BY <2>2, <2>3, RingStep
<1>4. CASE TryToReceive(t) \/ LookAfterWait(t)
  <2>1. /\ Now(t).op \in StreamOp
        /\ call' = Goto(t, "receiveWait") \/ call' = Local(t, "read", prvBytesInBuffer(s))
        /\ s' = s \/ \E w : s' = [s EXCEPT !.toReceive = w]
    BY <1>0, <1>4 DEF TryToReceive, LookAfterWait, Calls, Runs, StreamOp
  <2>2. RingCall(t, call')
    BY <1>1, <2>1, RingGoto, RingLocal
  <2>3. IndexesOK(s') /\ s'.length = s.length
    BY <1>0, <2>1, WaitersRing
  <2> QED
    BY <2>2, <2>3, RingStep
<1> QED
  BY <1>2, <1>3, <1>4

\* Steps that read, put the length back or empty the buffer.
LEMMA ReaderRing ==
    ASSUME Sized, InRing, UNCHANGED program, NEW t \in Task,
           ReadFromStream(t) \/ ReadMessageData(t) \/ PutLengthBack(t) \/ xStreamBufferReset(t)
    PROVE  InRing'
<1> USE DEF StreamPoint, WritePoint, ReadPoint, HalfPoint, SizePoint
<1>0. /\ IndexesOK(s) /\ s.length \in Nat \ {0} /\ DOMAIN s = BufferFields
      /\ call[t].at \in StreamPoint => Now(t).op \in StreamOp
      /\ call[t].at \in SizePoint => call[t].size \in 0 .. s.length - 1
      /\ Now(t).op \in StreamOp => Now(t).v \in Nat
  BY RingNow
<1>1. \A size : EndRead(t, size) = Return(t, FALSE, "none") \/ EndRead(t, size) = Goto(t, "received")
  BY DEF EndRead
<1>2. CASE ReadFromStream(t)
  <2> DEFINE count == Readable(s, Now(t).v, call[t].size)
  <2>1. /\ call[t].at = "read" /\ Now(t).op \in StreamOp /\ Now(t).v \in Nat
        /\ call[t].size \in 0 .. s.length - 1
    BY <1>0, <1>2 DEF ReadFromStream, Runs
  <2>2. \/ call' = Return(t, FALSE, "timeout") /\ s' = s
        \/ /\ call[t].size # 0
           /\ \/ /\ s' = AfterLength(s) /\ s.message /\ call[t].size > 1
                 /\ call' = Local(t, "putBack", s.tail) \/ call' = Local(t, "readData", count)
              \/ s' = Read(s, count) /\ call' = EndRead(t, count)
    <3>1. IF call[t].size <= (IF s.message THEN 1 ELSE 0) THEN call' = Return(t, FALSE, "timeout") /\ s' = s
          ELSE IF s.message
          THEN /\ s' = AfterLength(s)
               /\ call' = IF s.buf[s.tail] > Now(t).v THEN Local(t, "putBack", s.tail)
                          ELSE Local(t, "readData", count)
          ELSE s' = Read(s, count) /\ call' = EndRead(t, count)
      BY <1>2 DEF ReadFromStream, LengthBytes
    <3> HIDE DEF count
    <3>2. CASE call[t].size <= (IF s.message THEN 1 ELSE 0)
      BY <3>1, <3>2
    <3>3. CASE ~(call[t].size <= (IF s.message THEN 1 ELSE 0)) /\ s.message
      <4>1. call[t].size # 0 /\ call[t].size > 1
        BY <1>0, <2>1, <3>3
      <4>2. /\ s' = AfterLength(s)
            /\ call' = Local(t, "putBack", s.tail) \/ call' = Local(t, "readData", count)
        BY <3>1, <3>3, Zenon
      <4> QED
        BY <3>3, <4>1, <4>2
    <3>4. CASE ~(call[t].size <= (IF s.message THEN 1 ELSE 0)) /\ ~s.message
      <4>1. call[t].size # 0
        BY <1>0, <2>1, <3>4
      <4>2. s' = Read(s, count) /\ call' = EndRead(t, count)
        BY <3>1, <3>4, Zenon
      <4> QED
        BY <4>1, <4>2
    <3> QED
      BY <3>2, <3>3, <3>4
  <2>3. call[t].size # 0 => count \in 0 .. s.length - 1
    BY <1>0, <2>1, SizesFit
  <2> HIDE DEF count
  <2>4. s.tail \in 0 .. s.length - 1
    BY <1>0 DEF IndexesOK, StreamOK
  <2>5. CASE call' = Return(t, FALSE, "timeout") /\ s' = s
    BY <1>0, <2>5, RingReturn, RingStep
  <2>6. CASE /\ call[t].size > 1 /\ s' = AfterLength(s) /\ s.message
             /\ call' = Local(t, "putBack", s.tail) \/ call' = Local(t, "readData", count)
    <3>1. s' = prvReadBytesFromBuffer(s, 1) /\ 1 < s.length
      <4>1. AfterLength(s) = prvReadBytesFromBuffer(s, 1)
        BY <2>6, Zenon DEF AfterLength
      <4> QED
        BY <1>0, <2>1, <2>6, <4>1
    <3>2. IndexesOK(s') /\ s'.length = s.length
      BY <1>0, <3>1, ReadsRing
    <3>3. RingCall(t, call')
      BY <2>1, <2>3, <2>4, <2>6, RingLocal
    <3> QED
      BY <3>2, <3>3, RingStep
  <2>7. CASE call[t].size # 0 /\ s' = Read(s, count) /\ call' = EndRead(t, count)
    <3>1. IndexesOK(s') /\ s'.length = s.length
      BY <1>0, <2>3, <2>7, ReadRing
    <3>2. RingCall(t, call')
      BY <1>1, <2>7, RingGoto, RingReturn
    <3> QED
      BY <3>1, <3>2, RingStep
  <2> QED
    BY <2>2, <2>5, <2>6, <2>7
<1>3. CASE ReadMessageData(t)
  <2>1. call[t].at = "readData" /\ s' = Read(s, call[t].size) /\ call' = EndRead(t, call[t].size)
    BY <1>3 DEF ReadMessageData, Runs
  <2>2. IndexesOK(s') /\ s'.length = s.length
    BY <1>0, <2>1, ReadRing
  <2>3. RingCall(t, call')
    BY <1>1, <2>1, RingGoto, RingReturn
  <2> QED
    BY <2>2, <2>3, RingStep
<1>4. CASE PutLengthBack(t)
  <2>1. /\ call[t].at = "putBack" /\ s' = [s EXCEPT !.tail = call[t].size]
        /\ call' = Return(t, FALSE, "none")
    BY <1>4 DEF PutLengthBack, Runs
  <2>2. IndexesOK(s') /\ s'.length = s.length
    <3>1. /\ DOMAIN s' = BufferFields /\ s'.tail = call[t].size
          /\ \A f \in BufferFields \ {"tail"} : s'[f] = s[f]
      BY <1>0, <2>1 DEF BufferFields
    <3> QED
      BY <1>0, <2>1, <3>1, TailRing
  <2> QED
    BY <2>1, <2>2, RingReturn, RingStep
<1>5. CASE xStreamBufferReset(t)
  <2> DEFINE b == prvInitialiseNewStreamBuffer(s.length, s.trigger, s.message)
  <2>1. /\ s' = s \/ s' = [b EXCEPT !.in = s.in, !.out = s.in]
        /\ call' = Return(t, TRUE, "none")
    BY <1>5 DEF xStreamBufferReset
  <2>2. /\ DOMAIN b = BufferFields /\ b.length = s.length /\ b.head = 0 /\ b.tail = 0
        /\ b.message = s.message /\ b.buf = [i \in 0 .. s.length - 1 |-> 0]
    BY DEF prvInitialiseNewStreamBuffer, BufferFields
  <2> HIDE DEF b
  <2>3. CASE s' = [b EXCEPT !.in = s.in, !.out = s.in]
    <3>1. /\ DOMAIN s' = BufferFields /\ s'.length = s.length /\ s'.head = 0 /\ s'.tail = 0
          /\ s'.message = s.message /\ s'.buf = [i \in 0 .. s.length - 1 |-> 0] /\ s'.in = s.in
      BY <2>2, <2>3 DEF BufferFields
    <3>2. IndexesOK(s')
      BY <1>0, <3>1 DEF IndexesOK, StreamOK, BufferFields
    <3> QED
      BY <2>1, <3>1, <3>2, RingReturn, RingStep
  <2> QED
    BY <1>0, <2>1, <2>3, RingReturn, RingStep
<1> QED
  BY <1>2, <1>3, <1>4, <1>5

\* Interrupt handlers.
LEMMA HandlerRing ==
    ASSUME Sized, InRing, UNCHANGED <<program, call>>, NEW v \in Nat,
           StreamSendFromISR(v) \/ StreamReceiveFromISR(v)
    PROVE  IndexesOK(s') /\ s'.length = s.length
<1>0. IndexesOK(s) /\ s.length \in Nat \ {0} /\ DOMAIN s = BufferFields
  BY DEF InRing, IndexesOK, StreamOK
<1>1. CASE StreamSendFromISR(v)
  <2> DEFINE space == xStreamBufferSpacesAvailable(s)
             count == Writable(s, v, space)
             framed == IF s.message THEN prvWriteBytesToBuffer(s, <<count>>) ELSE s
             written == Write(framed, count)
  <2>1. count > 0 /\ \E w : s' = [written EXCEPT !.toReceive = w]
    BY <1>1 DEF StreamSendFromISR
  <2>2. space \in 0 .. s.length - 1
    BY <1>0, SizesFit
  <2>3. count \in 0 .. s.length - 1 /\ 1 < s.length
    <3> HIDE DEF space
    <3> QED
      BY <1>0, <2>1, <2>2, SizesFit
  <2> HIDE DEF count
  <2>4. IndexesOK(framed) /\ framed.length = s.length
    <3>1. <<count>> \in Seq(Nat) /\ Len(<<count>>) = 1
      BY <1>0, <2>3
    <3> QED
      BY <1>0, <2>3, <3>1, WritesRing
  <2> HIDE DEF framed
  <2>5. IndexesOK(written) /\ written.length = s.length
    BY <1>0, <2>3, <2>4, WriteRing
  <2> HIDE DEF written
  <2>6. DOMAIN s' = BufferFields /\ \A f \in BufferFields \ {"toReceive"} : s'[f] = written[f]
    BY <2>1, <2>5 DEF IndexesOK
  <2>7. s'.tail \in 0 .. written.length - 1
    BY <2>5, <2>6 DEF IndexesOK, StreamOK, BufferFields
  <2> QED
    BY <2>5, <2>6, <2>7, TailRing
<1>2. CASE StreamReceiveFromISR(v)
  <2> DEFINE available == prvBytesInBuffer(s)
             count == IF available <= LengthBytes THEN 0 ELSE Readable(s, v, available)
             framed == AfterLength(s)
             rest == Read(framed, count)
  <2>1. count > 0 /\ s' = [rest EXCEPT !.toSend = NULL]
    BY <1>2 DEF StreamReceiveFromISR
  <2>2. available \in 0 .. s.length - 1
    BY <1>0, SizesFit
  <2>3. available > LengthBytes /\ count = Readable(s, v, available)
    <3> HIDE DEF available
    <3> QED
      BY <2>1, <2>2 DEF LengthBytes
  <2>4. available # 0 /\ (s.message => 1 < s.length)
    <3> HIDE DEF available
    <3> QED
      BY <1>0, <2>2, <2>3 DEF LengthBytes
  <2> HIDE DEF available
  <2>5. count \in 0 .. s.length - 1
    BY <1>0, <2>2, <2>3, <2>4, SizesFit
  <2> HIDE DEF count
  <2>6. IndexesOK(framed) /\ framed.length = s.length
    BY <1>0, <2>4, ReadsRing DEF AfterLength
  <2> HIDE DEF framed
  <2>7. IndexesOK(rest) /\ rest.length = s.length
    BY <1>0, <2>5, <2>6, ReadRing
  <2> HIDE DEF rest
  <2>8. DOMAIN s' = BufferFields /\ \A f \in BufferFields \ {"toSend"} : s'[f] = rest[f]
    BY <2>1, <2>7 DEF IndexesOK
  <2>9. s'.tail \in 0 .. rest.length - 1
    BY <2>7, <2>8 DEF IndexesOK, StreamOK, BufferFields
  <2> QED
    BY <2>7, <2>8, <2>9, TailRing
<1> QED
  BY <1>1, <1>2

LEMMA RingNext == Sized /\ InRing /\ [Next]_vars => Sized' /\ InRing'
<1> SUFFICES ASSUME Sized, InRing, [Next]_vars PROVE Sized' /\ InRing'
  OBVIOUS
<1>1. program' \in Program /\ InScript' /\ Fits' /\ UNCHANGED program
  BY ScriptStep, FitsNext DEF Sized
<1>2. ASSUME NEW t \in Task, StreamStep(t) PROVE InRing'
  BY <1>1, <1>2, WriterRing, WaitRing, ReaderRing DEF StreamStep
<1>3. ASSUME StreamsAside, IndexesOK(s'), s'.length = s.length PROVE InRing'
  <2> SUFFICES ASSUME NEW t \in Task PROVE SizeOK(call'[t], Now(t)'.op, s.length)
    BY <1>3 DEF InRing
  <2>1. CASE call'[t].at \notin StreamPoint
    <3>1. SizePoint \subseteq StreamPoint
      BY DEF SizePoint, StreamPoint
    <3> QED
      BY <1>3, <2>1, <3>1 DEF StreamsAside, AsideFor, SizeOK
  <2>2. CASE call'[t].at = call[t].at /\ call'[t].size = call[t].size /\ call'[t].n = call[t].n
    <3>1. Now(t)' = Now(t) /\ "size" \in DOMAIN call'[t] /\ SizeOK(call[t], Now(t).op, s.length)
      BY <1>1, <1>3, <2>2, SameNow DEF StreamsAside, AsideFor, InRing
    <3> QED
      BY <2>2, <3>1 DEF SizeOK
  <2> QED
    BY <1>3, <2>1, <2>2 DEF StreamsAside, AsideFor
<1>4. ASSUME Interrupt PROVE InRing'
  <2>1. PICK c \in App[program].handlers : Handler(c)
    BY <1>4 DEF Interrupt
  <2>2. UNCHANGED <<program, call>>
    BY <1>4 DEF Interrupt
  <2>3. StreamsAside
    BY <2>2, OthersAside
  <2>4. ASSUME StreamSendFromISR(c.v) \/ StreamReceiveFromISR(c.v), c.op \in StreamOpFromISR
        PROVE  IndexesOK(s') /\ s'.length = s.length
    <3>1. c.v \in Nat
      BY <2>4, StreamAssumption DEF Sized
    <3> QED
      BY <2>2, <2>4, <3>1, HandlerRing
  <2>5. \/ UNCHANGED s
        \/ c.op \in StreamOpFromISR /\ (StreamSendFromISR(c.v) \/ StreamReceiveFromISR(c.v))
    BY <2>1 DEF Handler, StreamOpFromISR
  <2>6. UNCHANGED s => IndexesOK(s') /\ s'.length = s.length
    BY DEF InRing
  <2>7. IndexesOK(s') /\ s'.length = s.length
    BY <2>4, <2>5, <2>6
  <2> QED
    BY <1>3, <2>3, <2>7
<1>5. ASSUME StreamsAside, UNCHANGED s PROVE InRing'
  <2>1. IndexesOK(s') /\ s'.length = s.length
    BY <1>5 DEF InRing
  <2> QED
    BY <1>3, <1>5, <2>1
<1>6. InRing'
  BY <1>2, <1>4, <1>5, StepKinds
<1>7. \A t \in Task : "size" \in DOMAIN call'[t]
  BY <1>6 DEF InRing, SizeOK
<1> QED
  BY <1>1, <1>6, <1>7 DEF Sized

LEMMA RingInit == Init => Sized /\ InRing
<1> SUFFICES ASSUME Init PROVE Sized /\ InRing
  OBVIOUS
<1>1. Sized /\ s = App[program].stream /\ \A t \in Task : call[t].at = "call"
  BY SizedInit
<1>2. /\ s.length \in Nat \ {0} /\ s.message \in BOOLEAN
      /\ s = prvInitialiseNewStreamBuffer(s.length, s.trigger, s.message)
  BY <1>1, StreamAssumption DEF LegalStream, Sized
<1> DEFINE b == prvInitialiseNewStreamBuffer(s.length, s.trigger, s.message)
<1>3. /\ DOMAIN b = BufferFields /\ b.head = 0 /\ b.tail = 0 /\ b.in = 0
      /\ b.buf = [i \in 0 .. s.length - 1 |-> 0]
  BY DEF prvInitialiseNewStreamBuffer, BufferFields
<1> HIDE DEF b
<1>4. s = b
  BY <1>2 DEF b
<1>5. IndexesOK(s)
  BY <1>2, <1>3, <1>4 DEF IndexesOK, StreamOK, BufferFields
<1>6. \A t \in Task : SizeOK(call[t], Now(t).op, s.length)
  <2>1. "call" \notin StreamPoint /\ "call" \notin SizePoint
    BY DEF StreamPoint, SizePoint, WritePoint, ReadPoint, HalfPoint
  <2> QED
    BY <1>1, <2>1 DEF Sized, SizeOK
<1> QED
  BY <1>1, <1>5, <1>6 DEF InRing

----------------------------------------------------------------------------
(* The lists of list.c                                                      *)

\* A list that has the task t once more, or once less, than the list l.
Added(l, t, m) ==
    /\ m \in Seq(Task)
    /\ \A u \in Task : Contains(m, u) => u = t \/ Contains(l, u)
    /\ Unique(l) /\ ~Contains(l, t) => Unique(m)
Dropped(l, t, m) ==
    /\ m \in Seq(Task)
    /\ \A u \in Task : Contains(m, u) => Contains(l, u)
    /\ Unique(l) => Unique(m) /\ ~Contains(m, t)
    /\ \A value : Sorted(l, value) => Sorted(m, value)

LEMMA RemoveOneOf ==
    ASSUME NEW S, NEW f \in Seq(S), NEW n \in 1 .. Len(f)
    PROVE  /\ RemoveAt(f, n) \in Seq(S)
           /\ Len(RemoveAt(f, n)) = Len(f) - 1
           /\ \A i \in 1 .. (Len(f) - 1) : RemoveAt(f, n)[i] = IF i < n THEN f[i] ELSE f[i + 1]
<1> DEFINE a == SubSeq(f, 1, n - 1)
           c == SubSeq(f, n + 1, Len(f))
<1>1. a \in Seq(S) /\ Len(a) = n - 1 /\ \A i \in 1 .. (n - 1) : a[i] = f[i]
  BY SubSeqProperties
<1>2. c \in Seq(S) /\ Len(c) = Len(f) - n /\ \A i \in 1 .. (Len(f) - n) : c[i] = f[n + 1 + i - 1]
  BY SubSeqProperties
<1> HIDE DEF a, c
<1>3. RemoveAt(f, n) = a \o c
  BY DEF RemoveAt, a, c
<1>7. a \in Seq(S) /\ c \in Seq(S)
  BY <1>1, <1>2
<1>4. a \o c \in Seq(S) /\ Len(a \o c) = Len(a) + Len(c)
  BY ONLY <1>7, ConcatProperties
<1>5. \A i \in 1 .. (Len(a) + Len(c)) : (a \o c)[i] = IF i <= Len(a) THEN a[i] ELSE c[i - Len(a)]
  BY ONLY <1>7, ConcatProperties
<1>6. ASSUME NEW i \in 1 .. (Len(f) - 1)
      PROVE  (a \o c)[i] = IF i < n THEN f[i] ELSE f[i + 1]
  <2> DEFINE e == (a \o c)[i]
  <2>1. e = IF i <= Len(a) THEN a[i] ELSE c[i - Len(a)]
    BY <1>1, <1>2, <1>5
  <2> HIDE DEF e
  <2>2. CASE i < n
    BY <1>1, <2>1, <2>2 DEF e
  <2>3. CASE i >= n
    <3>1. i - (n - 1) \in 1 .. (Len(f) - n) /\ ~(i <= n - 1) /\ ~(i < n)
          /\ n + 1 + (i - (n - 1)) - 1 = i + 1
      BY <2>3
    <3>2. e = c[i - (n - 1)]
      BY <1>1, <2>1, <3>1
    <3> QED
      BY <1>2, <3>1, <3>2 DEF e
  <2>4. i < n \/ i >= n
    OBVIOUS
  <2> QED
    BY <2>2, <2>3, <2>4, Zenon
<1> QED
  BY <1>1, <1>2, <1>3, <1>4, <1>6

LEMMA RemovedIsDropped ==
    ASSUME NEW l \in Seq(Task), NEW n \in 1 .. Len(l)
    PROVE  Dropped(l, l[n], RemoveAt(l, n))
<1> DEFINE m == RemoveAt(l, n)
           t == l[n]
<1>1. /\ m \in Seq(Task) /\ Len(m) = Len(l) - 1
      /\ \A i \in 1 .. Len(l) - 1 : m[i] = IF i < n THEN l[i] ELSE l[i + 1]
  BY RemoveOneOf
<1>2. PICK place \in [1 .. Len(l) - 1 -> 1 .. Len(l)] :
          \A i \in 1 .. Len(l) - 1 : place[i] = IF i < n THEN i ELSE i + 1
  <2> DEFINE place == [i \in 1 .. Len(l) - 1 |-> IF i < n THEN i ELSE i + 1]
  <2>1. \A i \in 1 .. Len(l) - 1 : i \in 1 .. Len(l) /\ i + 1 \in 1 .. Len(l)
    OBVIOUS
  <2>2. place \in [1 .. Len(l) - 1 -> 1 .. Len(l)]
    BY <2>1
  <2> QED
    BY <2>2
<1> HIDE DEF m
<1>3. \A i \in DOMAIN m : m[i] = l[place[i]] /\ place[i] \in DOMAIN l /\ place[i] # n
  BY <1>1, <1>2
<1>4. \A i, j \in DOMAIN m : place[i] = place[j] => i = j
  <2> TAKE i, j \in DOMAIN m
  <2>1. i \in 1 .. Len(l) - 1 /\ j \in 1 .. Len(l) - 1
    BY <1>1
  <2>2. (IF i < n THEN i ELSE i + 1) = (IF j < n THEN j ELSE j + 1) => i = j
    BY <2>1
  <2> QED
    BY <1>2, <2>1, <2>2
<1>5. DOMAIN m = 1 .. Len(m) /\ DOMAIN l = 1 .. Len(l) /\ n \in DOMAIN l
  BY <1>1
<1>6. \A u \in Task : Contains(m, u) => Contains(l, u)
  BY <1>3, <1>5 DEF Contains
<1>7. Unique(l) => Unique(m)
  BY <1>3, <1>4 DEF Unique
<1>8. Unique(l) => ~Contains(m, t)
  BY <1>3, <1>5 DEF Unique, Contains
<1>9. \A i, j \in DOMAIN m : i < j => place[i] < place[j]
  <2> TAKE i, j \in DOMAIN m
  <2>1. i \in 1 .. Len(l) - 1 /\ j \in 1 .. Len(l) - 1
    BY <1>1
  <2> QED
    BY <1>2, <2>1
<1>10. \A value : Sorted(l, value) => Sorted(m, value)
  BY <1>3, <1>9 DEF Sorted
<1> QED
  BY <1>1, <1>6, <1>7, <1>8, <1>10 DEF Dropped, m

LEMMA InsertOneOf ==
    ASSUME NEW S, NEW f \in Seq(S), NEW n \in 1 .. Len(f), NEW e \in S
    PROVE  /\ InsertAt(f, n, e) \in Seq(S)
           /\ Len(InsertAt(f, n, e)) = Len(f) + 1
           /\ \A i \in 1 .. (Len(f) + 1) :
                  InsertAt(f, n, e)[i] = IF i < n THEN f[i] ELSE IF i = n THEN e ELSE f[i - 1]
<1> DEFINE a == SubSeq(f, 1, n - 1)
           c == SubSeq(f, n, Len(f))
           b == a \o <<e>>
<1>1. a \in Seq(S) /\ Len(a) = n - 1 /\ \A i \in 1 .. (n - 1) : a[i] = f[i]
  BY SubSeqProperties
<1>2. c \in Seq(S) /\ Len(c) = Len(f) + 1 - n /\ \A i \in 1 .. (Len(f) + 1 - n) : c[i] = f[n + i - 1]
  BY SubSeqProperties
<1> HIDE DEF a, c
<1>3. b \in Seq(S) /\ Len(b) = n /\ \A i \in 1 .. n : b[i] = IF i < n THEN f[i] ELSE e
  BY <1>1, ConcatProperties
<1>8. InsertAt(f, n, e) = b \o c
  BY DEF InsertAt, a, c
<1> HIDE DEF b
<1>7. b \in Seq(S) /\ c \in Seq(S)
  BY <1>2, <1>3
<1>4. b \o c \in Seq(S) /\ Len(b \o c) = Len(b) + Len(c)
  BY ONLY <1>7, ConcatProperties
<1>5. \A i \in 1 .. (Len(b) + Len(c)) : (b \o c)[i] = IF i <= Len(b) THEN b[i] ELSE c[i - Len(b)]
  BY ONLY <1>7, ConcatProperties
<1>6. ASSUME NEW i \in 1 .. (Len(f) + 1)
      PROVE  (b \o c)[i] = IF i < n THEN f[i] ELSE IF i = n THEN e ELSE f[i - 1]
  <2> DEFINE v == (b \o c)[i]
  <2>1. v = IF i <= Len(b) THEN b[i] ELSE c[i - Len(b)]
    BY <1>2, <1>3, <1>5
  <2> HIDE DEF v
  <2>2. CASE i <= n
    BY <1>3, <2>1, <2>2 DEF v
  <2>3. CASE i > n
    <3>1. i - n \in 1 .. (Len(f) + 1 - n) /\ ~(i <= n) /\ ~(i < n) /\ i # n
          /\ n + (i - n) - 1 = i - 1
      BY <2>3
    <3>2. v = c[i - n]
      BY <1>3, <2>1, <3>1
    <3> QED
      BY <1>2, <3>1, <3>2 DEF v
  <2>4. i <= n \/ i > n
    OBVIOUS
  <2> QED
    BY <2>2, <2>3, <2>4, Zenon
<1> QED
  BY <1>2, <1>3, <1>4, <1>6, <1>8

LEMMA InsertedIsAdded ==
    ASSUME NEW l \in Seq(Task), NEW n \in 1 .. Len(l), NEW t \in Task
    PROVE  Added(l, t, InsertAt(l, n, t))
<1> DEFINE m == InsertAt(l, n, t)
<1>1. /\ m \in Seq(Task) /\ Len(m) = Len(l) + 1
      /\ \A i \in 1 .. Len(l) + 1 : m[i] = IF i < n THEN l[i] ELSE IF i = n THEN t ELSE l[i - 1]
  BY InsertOneOf
<1> HIDE DEF m
<1>2. DOMAIN m = 1 .. Len(l) + 1 /\ DOMAIN l = 1 .. Len(l)
  BY <1>1
<1>3. \A i \in DOMAIN m : (i = n /\ m[i] = t) \/ (i # n /\ \E j \in DOMAIN l : m[i] = l[j] /\ j = IF i < n THEN i ELSE i - 1)
  <2> TAKE i \in DOMAIN m
  <2>1. CASE i < n
    BY <1>1, <1>2, <2>1
  <2>2. CASE i = n
    BY <1>1, <1>2, <2>2
  <2>3. CASE i > n
    <3>1. i - 1 \in DOMAIN l /\ m[i] = l[i - 1]
      BY <1>1, <1>2, <2>3
    <3> QED
      BY <1>2, <2>3, <3>1
  <2> QED
    BY <1>2, <2>1, <2>2, <2>3
<1>4. \A u \in Task : Contains(m, u) => u = t \/ Contains(l, u)
  BY <1>1, <1>2, <1>3 DEF Contains
<1>5. ASSUME Unique(l), ~Contains(l, t) PROVE Unique(m)
  <2> SUFFICES ASSUME NEW i \in DOMAIN m, NEW j \in DOMAIN m, m[i] = m[j] PROVE i = j
    BY DEF Unique
  <2>1. \A o \in DOMAIN l : l[o] # t
    BY <1>2, <1>5 DEF Contains
  <2>2. CASE i = n \/ j = n
    BY <1>3, <2>1, <2>2
  <2>3. CASE i # n /\ j # n
    <3>1. PICK o \in DOMAIN l : m[i] = l[o] /\ o = IF i < n THEN i ELSE i - 1
      BY <1>3, <2>3
    <3>2. PICK p \in DOMAIN l : m[j] = l[p] /\ p = IF j < n THEN j ELSE j - 1
      BY <1>3, <2>3
    <3>3. o = p
      BY <1>5, <3>1, <3>2 DEF Unique
    <3> QED
      BY <1>2, <2>3, <3>1, <3>2, <3>3
  <2> QED
    BY <2>2, <2>3
<1> QED
  BY <1>1, <1>4, <1>5 DEF Added, m

LEMMA AppendedIsAdded ==
    ASSUME NEW l \in Seq(Task), NEW t \in Task
    PROVE  Added(l, t, Append(l, t))
<1> DEFINE m == Append(l, t)
<1>1. m \in Seq(Task) /\ Len(m) = Len(l) + 1 /\ m[Len(l) + 1] = t /\ \A i \in 1 .. Len(l) : m[i] = l[i]
  OBVIOUS
<1> HIDE DEF m
<1>2. DOMAIN m = 1 .. Len(l) + 1 /\ DOMAIN l = 1 .. Len(l)
  BY <1>1
<1>3. \A u \in Task : Contains(m, u) => u = t \/ Contains(l, u)
  BY <1>1, <1>2 DEF Contains
<1>4. Unique(l) /\ ~Contains(l, t) => Unique(m)
  BY <1>1, <1>2 DEF Contains, Unique
<1> QED
  BY <1>1, <1>3, <1>4 DEF Added, m

\* vListInsert, at any place.
LEMMA ListInsertAdds ==
    ASSUME NEW l \in Seq(Task), NEW t \in Task, NEW value
    PROVE  Added(l, t, vListInsert(l, t, value))
<1> DEFINE I == {i \in 1 .. Len(l) : value[l[i]] > value[t]}
           p == IF I # {} THEN Min(I) ELSE 0
<1>1. p = 0 \/ p \in 1 .. Len(l)
  <2>1. I \in SUBSET Nat
    OBVIOUS
  <2>2. I # {} => Min(I) \in I
    BY <2>1, LeastIs
  <2> QED
    BY <2>2
<1>2. vListInsert(l, t, value) = IF p = 0 THEN Append(l, t) ELSE InsertAt(l, p, t)
  BY DEF vListInsert, SelectInSeq
<1> HIDE DEF p
<1> QED
  BY <1>1, <1>2, InsertedIsAdded, AppendedIsAdded

\* vListInsert keeps the order.
LEMMA ListInsertSorts ==
    ASSUME NEW l \in Seq(Task), NEW t \in Task, NEW value \in [Task -> Int], Sorted(l, value)
    PROVE  Sorted(vListInsert(l, t, value), value)
<1> DEFINE I == {i \in 1 .. Len(l) : value[l[i]] > value[t]}
           p == IF I # {} THEN Min(I) ELSE 0
<1>1. IF p = 0 THEN I = {} ELSE p \in I /\ \A i \in I : p <= i
  <2>1. I \in SUBSET Nat
    OBVIOUS
  <2>2. I # {} => Min(I) \in I /\ \A i \in I : Min(I) <= i
    BY <2>1, LeastIs
  <2>3. Min(I) \in I => Min(I) # 0
    OBVIOUS
  <2> HIDE DEF I
  <2> QED
    BY ONLY <2>2, <2>3
<1>2. vListInsert(l, t, value) = IF p = 0 THEN Append(l, t) ELSE InsertAt(l, p, t)
  BY DEF vListInsert, SelectInSeq
<1>3. \A i \in 1 .. Len(l) : value[l[i]] \in Int /\ (i \in I <=> value[l[i]] > value[t])
  OBVIOUS
<1>4. value[t] \in Int
  OBVIOUS
<1>5. I \subseteq 1 .. Len(l)
  OBVIOUS
<1> HIDE DEF p, I
<1>6. ASSUME p = 0 PROVE Sorted(Append(l, t), value)
  <2> DEFINE m == Append(l, t)
  <2>1. Len(m) = Len(l) + 1 /\ DOMAIN m = 1 .. Len(l) + 1 /\ m[Len(l) + 1] = t /\ \A i \in 1 .. Len(l) : m[i] = l[i]
    OBVIOUS
  <2>2. \A i \in 1 .. Len(l) : value[l[i]] <= value[t]
    BY <1>1, <1>3, <1>4, <1>6
  <2> HIDE DEF m
  <2>3. \A i, j \in 1 .. Len(l) : i < j => value[l[i]] <= value[l[j]]
    BY DEF Sorted
  <2>4. ASSUME NEW i \in DOMAIN m, NEW j \in DOMAIN m, i < j PROVE value[m[i]] <= value[m[j]]
    <3>1. i \in 1 .. Len(l) /\ (j = Len(l) + 1 \/ j \in 1 .. Len(l))
      BY <2>1, <2>4
    <3> QED
      BY <2>1, <2>2, <2>3, <2>4, <3>1
  <2>5. Sorted(m, value)
    BY <2>4 DEF Sorted
  <2> QED
    BY <2>5 DEF m
<1>7. ASSUME p # 0 PROVE Sorted(InsertAt(l, p, t), value)
  <2> DEFINE m == InsertAt(l, p, t)
  <2>1. p \in 1 .. Len(l)
    BY <1>1, <1>5, <1>7
  <2>2. /\ m \in Seq(Task) /\ Len(m) = Len(l) + 1
        /\ \A i \in 1 .. Len(l) + 1 : m[i] = IF i < p THEN l[i] ELSE IF i = p THEN t ELSE l[i - 1]
    BY <2>1, InsertOneOf
  <2> HIDE DEF m
  <2>3. DOMAIN m = 1 .. Len(l) + 1
    BY <2>2
  <2>4. \A i, j \in 1 .. Len(l) : i < j => value[l[i]] <= value[l[j]]
    BY DEF Sorted
  <2>5. \A i \in 1 .. Len(l) : i < p => value[l[i]] <= value[t]
    <3> TAKE i \in 1 .. Len(l)
    <3>1. i < p => i \notin I
      BY <1>1, <1>7, <2>1
    <3> QED
      BY <1>3, <1>4, <3>1
  <2>6. value[l[p]] > value[t] /\ value[l[p]] \in Int
    BY <1>1, <1>3, <1>7, <2>1
  <2>7. \A i \in 1 .. Len(l) : i >= p => value[t] <= value[l[i]]
    <3> TAKE i \in 1 .. Len(l)
    <3>1. i = p \/ i > p => value[l[p]] <= value[l[i]]
      BY <1>3, <2>1, <2>4
    <3> QED
      BY <1>3, <1>4, <2>1, <2>6, <3>1
  <2>8. ASSUME NEW i \in DOMAIN m, NEW j \in DOMAIN m, i < j PROVE value[m[i]] <= value[m[j]]
    <3>1. i \in 1 .. Len(l) + 1 /\ j \in 1 .. Len(l) + 1
      BY <2>3
    <3>2. CASE j < p
      <4>1. i \in 1 .. Len(l) /\ j \in 1 .. Len(l) /\ i < p
        BY <2>1, <2>8, <3>1, <3>2
      <4>2. m[i] = l[i] /\ m[j] = l[j]
        BY <2>2, <3>1, <3>2, <4>1
      <4> QED
        BY <2>4, <2>8, <4>1, <4>2
    <3>3. CASE j = p
      <4>1. i \in 1 .. Len(l) /\ m[i] = l[i] /\ m[j] = t
        BY <2>1, <2>2, <2>8, <3>1, <3>3
      <4> QED
        BY <2>5, <2>8, <3>3, <4>1
    <3>4. CASE j > p
      <4>1. j - 1 \in 1 .. Len(l) /\ m[j] = l[j - 1]
        <5>1. j - 1 \in 1 .. Len(l) /\ ~(j < p) /\ j # p
          BY ONLY <2>1, <3>1, <3>4, l \in Seq(Task)
        <5> QED
          BY ONLY <2>2, <3>1, <5>1
      <4>2. CASE i < p
        <5>1. i \in 1 .. Len(l) /\ i < j - 1
          BY ONLY <2>1, <3>1, <3>4, <4>2, l \in Seq(Task)
        <5>2. m[i] = l[i]
          BY <2>2, <3>1, <4>2
        <5> QED
          BY ONLY <2>4, <4>1, <5>1, <5>2
      <4>3. CASE i = p
        <5>1. m[i] = t /\ j - 1 >= p
          BY <2>1, <2>2, <3>1, <3>4, <4>3
        <5> QED
          BY <2>7, <4>1, <5>1
      <4>4. CASE i > p
        <5>1. i - 1 \in 1 .. Len(l) /\ ~(i < p) /\ i # p /\ i - 1 < j - 1
          BY <2>1, <2>8, <3>1, <4>4
        <5>2. m[i] = l[i - 1]
          BY <2>2, <3>1, <5>1
        <5> QED
          BY <2>4, <4>1, <5>1, <5>2
      <4> QED
        BY <2>1, <3>1, <4>2, <4>3, <4>4
    <3> QED
      BY <2>1, <3>1, <3>2, <3>3, <3>4
  <2>9. Sorted(m, value)
    BY <2>8 DEF Sorted
  <2> QED
    BY <2>9 DEF m
<1> QED
  BY <1>2, <1>6, <1>7

LEMMA TailDrops ==
    ASSUME NEW l \in Seq(Task), l # <<>>
    PROVE  Dropped(l, Head(l), Tail(l)) /\ Head(l) \in Task
<1> DEFINE m == Tail(l)
<1>1. m \in Seq(Task) /\ Len(m) = Len(l) - 1 /\ Head(l) = l[1] /\ Head(l) \in Task
      /\ \A i \in 1 .. Len(l) - 1 : m[i] = l[i + 1]
  OBVIOUS
<1> HIDE DEF m
<1>2. DOMAIN m = 1 .. Len(l) - 1 /\ DOMAIN l = 1 .. Len(l)
  BY <1>1
<1>3. \A u \in Task : Contains(m, u) => Contains(l, u)
  BY <1>1, <1>2 DEF Contains
<1>4. \A i \in DOMAIN m : i + 1 \in DOMAIN l /\ i + 1 # 1 /\ m[i] = l[i + 1]
  BY <1>1, <1>2
<1>5. \A i, j \in DOMAIN m : i + 1 = j + 1 => i = j
  BY <1>2
<1>6. 1 .. Len(m) = DOMAIN m /\ (Len(m) > 0 => 1 \in DOMAIN l)
  BY <1>1, <1>2
<1>7. Unique(l) => Unique(m)
  BY <1>4, <1>5 DEF Unique
<1>8. Unique(l) => ~Contains(m, l[1])
  BY <1>1, <1>2, <1>4, <1>6 DEF Unique, Contains
<1>9. \A i, j \in DOMAIN m : i < j => i + 1 < j + 1
  BY <1>2
<1>10. \A value : Sorted(l, value) => Sorted(m, value)
  BY <1>4, <1>9 DEF Sorted
<1> QED
  BY <1>1, <1>3, <1>7, <1>8, <1>10 DEF Dropped, m

\* The first place of a task in a list, as SelectInSeq finds it.
Place(l, t) == LET I == {i \in 1 .. Len(l) : l[i] = t} IN IF I # {} THEN Min(I) ELSE 0

LEMMA FirstPlace ==
    ASSUME NEW S, NEW l \in Seq(S), NEW t
    PROVE  IF Contains(l, t) THEN Place(l, t) \in 1 .. Len(l) /\ l[Place(l, t)] = t ELSE Place(l, t) = 0
<1> DEFINE I == {i \in 1 .. Len(l) : l[i] = t}
<1>1. I # {} => Min(I) \in I
  <2>1. I \in SUBSET Nat
    OBVIOUS
  <2> QED
    BY <2>1, LeastIs
<1>2. Contains(l, t) <=> I # {}
  BY DEF Contains
<1> QED
  BY <1>1, <1>2 DEF Place

LEMMA RemoveFirstDrops ==
    ASSUME NEW l \in Seq(Task), NEW t \in Task
    PROVE  Dropped(l, t, RemoveFirst(l, t))
<1> DEFINE p == Place(l, t)
<1>1. IF Contains(l, t) THEN p \in 1 .. Len(l) /\ l[p] = t ELSE p = 0
  BY FirstPlace
<1>2. RemoveFirst(l, t) = IF Contains(l, t) THEN RemoveAt(l, p) ELSE l
  BY Zenon DEF RemoveFirst, Contains, SelectInSeq, Place
<1> HIDE DEF p
<1>3. ~Contains(l, t) => Dropped(l, t, l)
  BY DEF Dropped
<1> QED
  BY <1>1, <1>2, <1>3, RemovedIsDropped

\* The ready lists.
ReadyList(l) ==
    DOMAIN l = {"items", "pxIndex"} /\ l.items \in Seq(Task) /\ l.pxIndex \in 0 .. Len(l.items)

LEMMA ListRemoveDrops ==
    ASSUME NEW l, ReadyList(l), NEW t \in Task
    PROVE  ReadyList(uxListRemove(l, t)) /\ Dropped(l.items, t, uxListRemove(l, t).items)
<1> DEFINE items == l.items
           p == Place(items, t)
           m == RemoveAt(items, p)
<1>1. items \in Seq(Task) /\ l.pxIndex \in 0 .. Len(items)
  BY DEF ReadyList
<1>2. IF Contains(items, t) THEN p \in 1 .. Len(items) /\ items[p] = t ELSE p = 0
  BY <1>1, FirstPlace
<1>3. uxListRemove(l, t) = IF p = 0 THEN l
                           ELSE [items |-> m, pxIndex |-> IF p <= l.pxIndex THEN l.pxIndex - 1 ELSE l.pxIndex]
  BY Zenon DEF uxListRemove, SelectInSeq, Place
<1> HIDE DEF items, p
<1>4. CASE p = 0
  BY <1>1, <1>2, <1>3, <1>4 DEF Dropped, items
<1>5. CASE p # 0
  <2>1. p \in 1 .. Len(items) /\ items[p] = t
    BY <1>2, <1>5
  <2>2. Dropped(items, t, m) /\ Len(m) = Len(items) - 1
    BY <1>1, <2>1, RemovedIsDropped, RemoveOneOf
  <2> HIDE DEF m
  <2>3. m \in Seq(Task) /\ Len(items) \in Nat /\ Len(m) \in Nat
    BY <1>1, <2>2 DEF Dropped
  <2>4. (IF p <= l.pxIndex THEN l.pxIndex - 1 ELSE l.pxIndex) \in 0 .. Len(m)
    BY <1>1, <2>1, <2>2, <2>3
  <2> QED
    BY <1>3, <1>5, <2>2, <2>3, <2>4 DEF ReadyList, items
<1> QED
  BY <1>4, <1>5

LEMMA ListInsertEndAdds ==
    ASSUME NEW l, ReadyList(l), NEW t \in Task
    PROVE  ReadyList(vListInsertEnd(l, t)) /\ Added(l.items, t, vListInsertEnd(l, t).items)
<1> DEFINE items == l.items
           a == Append(items, t)
           b == InsertAt(items, l.pxIndex, t)
<1>1. items \in Seq(Task) /\ l.pxIndex \in 0 .. Len(items) /\ DOMAIN l = {"items", "pxIndex"}
  BY DEF ReadyList
<1>2. /\ l.pxIndex = 0 => LET m == vListInsertEnd(l, t)
                          IN  DOMAIN m = {"items", "pxIndex"} /\ m.items = a /\ m.pxIndex = l.pxIndex
      /\ l.pxIndex # 0 => vListInsertEnd(l, t) = [items |-> b, pxIndex |-> l.pxIndex + 1]
  BY <1>1 DEF vListInsertEnd
<1>3. Added(items, t, a) /\ Len(a) \in Nat
  BY <1>1, AppendedIsAdded
<1>4. ASSUME l.pxIndex # 0 PROVE Added(items, t, b) /\ Len(b) = Len(items) + 1
  <2>1. l.pxIndex \in 1 .. Len(items)
    BY <1>1, <1>4
  <2> QED
    BY <1>1, <2>1, InsertedIsAdded, InsertOneOf
<1> HIDE DEF items, a, b
<1>5. CASE l.pxIndex = 0
  BY <1>2, <1>3, <1>5 DEF ReadyList, Added, items
<1>6. CASE l.pxIndex # 0
  <2>1. l.pxIndex + 1 \in 0 .. Len(b) /\ b \in Seq(Task)
    BY <1>1, <1>4, <1>6 DEF Added
  <2> QED
    BY <1>2, <1>4, <1>6, <2>1 DEF ReadyList, items
<1> QED
  BY <1>5, <1>6

\* A ready list, of whatever.
Circular(l) == DOMAIN l = {"items", "pxIndex"} /\ l.pxIndex \in 0 .. Len(l.items) /\ \E S : l.items \in Seq(S)

LEMMA CircularRemove ==
    ASSUME NEW l, Circular(l), NEW t
    PROVE  /\ Circular(uxListRemove(l, t))
           /\ \A u : u # t /\ Contains(l.items, u) => Contains(uxListRemove(l, t).items, u)
<1> DEFINE items == l.items
           p == Place(items, t)
           m == RemoveAt(items, p)
<1>1. PICK S : items \in Seq(S)
  BY DEF Circular
<1>2. l.pxIndex \in 0 .. Len(items) /\ DOMAIN l = {"items", "pxIndex"}
  BY DEF Circular
<1>3. IF Contains(items, t) THEN p \in 1 .. Len(items) /\ items[p] = t ELSE p = 0
  BY <1>1, FirstPlace
<1>4. uxListRemove(l, t) = IF p = 0 THEN l
                           ELSE [items |-> m, pxIndex |-> IF p <= l.pxIndex THEN l.pxIndex - 1 ELSE l.pxIndex]
  BY Zenon DEF uxListRemove, SelectInSeq, Place
<1> HIDE DEF items, p
<1>5. CASE p = 0
  BY <1>4, <1>5 DEF items
<1>6. CASE p # 0
  <2>1. p \in 1 .. Len(items) /\ items[p] = t
    BY <1>3, <1>6
  <2>2. /\ m \in Seq(S) /\ Len(m) = Len(items) - 1
        /\ \A i \in 1 .. Len(items) - 1 : m[i] = IF i < p THEN items[i] ELSE items[i + 1]
    BY <1>1, <2>1, RemoveOneOf
  <2> HIDE DEF m
  <2>3. Len(items) \in Nat
    BY <1>1
  <2>4. (IF p <= l.pxIndex THEN l.pxIndex - 1 ELSE l.pxIndex) \in 0 .. Len(m)
    BY <1>2, <2>1, <2>2, <2>3
  <2>5. ASSUME NEW u, u # t, Contains(items, u) PROVE Contains(m, u)
    <3>1. PICK i \in 1 .. Len(items) : items[i] = u
      BY <2>5 DEF Contains
    <3>2. CASE i < p
      <4>1. i \in 1 .. Len(items) - 1
        BY <2>1, <2>3, <3>2
      <4>2. m[i] = u
        BY <2>2, <3>1, <3>2, <4>1
      <4> QED
        BY <2>2, <4>1, <4>2 DEF Contains
    <3>3. CASE i > p
      <4>1. i - 1 \in 1 .. Len(items) - 1 /\ ~(i - 1 < p) /\ i - 1 + 1 = i
        BY <2>1, <2>3, <3>3
      <4>2. m[i - 1] = u
        BY <2>2, <3>1, <4>1
      <4> QED
        BY <2>2, <4>1, <4>2 DEF Contains
    <3>4. i # p
      BY <2>1, <2>5, <3>1
    <3> QED
      BY <2>1, <3>2, <3>3, <3>4
  <2>6. /\ DOMAIN uxListRemove(l, t) = {"items", "pxIndex"} /\ uxListRemove(l, t).items = m
        /\ uxListRemove(l, t).pxIndex \in 0 .. Len(m)
    BY <1>4, <1>6, <2>4
  <2> HIDE DEF uxListRemove
  <2> QED
    BY <2>2, <2>5, <2>6 DEF Circular, items
<1> QED
  BY <1>5, <1>6

LEMMA CircularInsert ==
    ASSUME NEW l, Circular(l), NEW t
    PROVE  /\ Circular(vListInsertEnd(l, t)) /\ Contains(vListInsertEnd(l, t).items, t)
           /\ \A u : Contains(l.items, u) => Contains(vListInsertEnd(l, t).items, u)
<1> DEFINE items == l.items
           n == l.pxIndex
           a == Append(items, t)
           b == InsertAt(items, n, t)
           y == vListInsertEnd(l, t)
<1>1. PICK R : items \in Seq(R)
  BY DEF Circular
<1> DEFINE S == R \cup {t}
<1>2. items \in Seq(S) /\ t \in S /\ Len(items) \in Nat
  BY <1>1
<1>3. n \in 0 .. Len(items) /\ DOMAIN l = {"items", "pxIndex"}
  BY DEF Circular
<1>4. /\ n = 0 => DOMAIN y = {"items", "pxIndex"} /\ y.items = a /\ y.pxIndex = n
      /\ n # 0 => DOMAIN y = {"items", "pxIndex"} /\ y.items = b /\ y.pxIndex = n + 1
  BY <1>3 DEF vListInsertEnd
<1> HIDE DEF S, items, n, y
<1>5. CASE n = 0
  <2>1. a \in Seq(S) /\ Len(a) = Len(items) + 1 /\ a[Len(a)] = t /\ \A i \in 1 .. Len(items) : a[i] = items[i]
    BY <1>2
  <2> HIDE DEF a
  <2>2. Len(a) \in 1 .. Len(a) /\ n \in 0 .. Len(a) /\ \A i \in 1 .. Len(items) : i \in 1 .. Len(a)
    BY <1>2, <1>5, <2>1
  <2>3. Contains(a, t) /\ \A u : Contains(items, u) => Contains(a, u)
    BY <2>1, <2>2 DEF Contains
  <2> QED
    BY <1>4, <1>5, <2>1, <2>2, <2>3 DEF Circular, y, items
<1>6. CASE n # 0
  <2>0. n \in 1 .. Len(items)
    BY <1>3, <1>6
  <2>1. /\ b \in Seq(S) /\ Len(b) = Len(items) + 1
        /\ \A i \in 1 .. Len(items) + 1 : b[i] = IF i < n THEN items[i] ELSE IF i = n THEN t ELSE items[i - 1]
    BY ONLY <1>2, <2>0, InsertOneOf
  <2> HIDE DEF b
  <2>2. n \in 1 .. Len(b) /\ n + 1 \in 0 .. Len(b) /\ b[n] = t
    BY <1>2, <2>0, <2>1
  <2>3. ASSUME NEW u, Contains(items, u) PROVE Contains(b, u)
    <3>1. PICK i \in 1 .. Len(items) : items[i] = u
      BY <2>3 DEF Contains
    <3>2. CASE i < n
      BY <1>2, <2>1, <3>1, <3>2 DEF Contains
    <3>3. CASE i >= n
      <4>1. i + 1 \in 1 .. Len(items) + 1 /\ ~(i + 1 < n) /\ i + 1 # n /\ i + 1 - 1 = i
        BY <1>2, <2>0, <3>3
      <4>2. b[i + 1] = u
        BY <2>1, <3>1, <4>1
      <4> QED
        BY <2>1, <4>1, <4>2 DEF Contains
    <3> QED
      BY <2>0, <3>2, <3>3
  <2>4. Contains(b, t)
    BY <2>2 DEF Contains
  <2> QED
    BY <1>4, <1>6, <2>1, <2>2, <2>3, <2>4 DEF Circular, y, items
<1> QED
  BY <1>5, <1>6

==============================================================================
