----------------------------- MODULE RtosStream -----------------------------
(***************************************************************************)
(* Stream and message buffers (stream_buffer.c): a ring of bytes between    *)
(* one writer and one reader, tasks or interrupt handlers.  s has           *)
(*   length, trigger   xLength (one more than it holds), xTriggerLevelBytes *)
(*   message           each write is a message, its length before it        *)
(*   head, tail, buf   xHead, xTail, pucBuffer                              *)
(*   toSend, toReceive xTaskWaitingToSend, xTaskWaitingToReceive            *)
(*   in, out           history: bytes written and read; bytes are numbered  *)
(***************************************************************************)
EXTENDS RtosCalls

VARIABLE s

StreamInit == s = App[program].stream

prvInitialiseNewStreamBuffer(length, trigger, message) ==
    [length |-> length, trigger |-> trigger, message |-> message, head |-> 0, tail |-> 0,
     buf |-> [i \in 0 .. length - 1 |-> 0], toSend |-> NULL, toReceive |-> NULL, in |-> 0, out |-> 0]

\* sbBYTES_TO_STORE_MESSAGE_LENGTH, which counts as one byte here.
LengthBytes == IF s.message THEN 1 ELSE 0
Smaller(a, b) == IF a < b THEN a ELSE b

xStreamBufferSpacesAvailable(b) ==
    LET space == b.length + b.tail - b.head - 1
    IN  IF space >= b.length THEN space - b.length ELSE space
prvBytesInBuffer(b) ==
    LET count == b.length + b.head - b.tail
    IN  IF count >= b.length THEN count - b.length ELSE count

\* The bytes are in the buffer before xHead says so.  Only the writer moves
\* xHead and only the reader xTail, so that a copy and the store after it are one
\* step for the other; xStreamBufferReset must not come between (LegalStream).
prvWriteBytesToBuffer_Late(b, bytes) ==
    [b EXCEPT !.buf = [i \in DOMAIN @ |->
                LET d == (i + b.length - b.head) % b.length
                IN  IF d < Len(bytes) THEN bytes[d + 1] ELSE @[i]],
              !.head = IF @ + Len(bytes) > b.length THEN @ + Len(bytes) - b.length ELSE @ + Len(bytes)]
prvWriteBytesToBuffer(b, bytes) ==
    [b EXCEPT !.buf = [i \in DOMAIN @ |->
                LET d == (i + b.length - b.head) % b.length
                IN  IF d < Len(bytes) THEN bytes[d + 1] ELSE @[i]],
              !.head = IF @ + Len(bytes) >= b.length THEN @ + Len(bytes) - b.length ELSE @ + Len(bytes)]
Peek(b, count) == [i \in 1 .. count |-> b.buf[(b.tail + i - 1) % b.length]]
prvReadBytesFromBuffer(b, count) ==
    [b EXCEPT !.tail = IF @ + count >= b.length THEN @ + count - b.length ELSE @ + count]

Numbered(b, count) == [i \in 1 .. count |-> b.in + i]

\* prvWriteMessageToBuffer: how much fits, all or nothing of a message.
Writable(b, size, space) ==
    IF space = 0 THEN 0
    ELSE IF ~b.message THEN Smaller(size, space)
    ELSE IF space >= size + 1 THEN size ELSE 0
Write(b, count) == [prvWriteBytesToBuffer(b, Numbered(b, count)) EXCEPT !.in = @ + count]

\* prvReadMessageFromBuffer reads the length of a message, then its data, and
\* puts the length back where the message is too long for the reader.
Readable(b, room, available) ==
    IF ~b.message THEN Smaller(available, room)
    ELSE IF b.buf[b.tail] > room THEN 0 ELSE Smaller(available - 1, b.buf[b.tail])
AfterLength(b) == IF b.message THEN prvReadBytesFromBuffer(b, 1) ELSE b
Read(b, count) ==
    IF count = 0 THEN b ELSE [prvReadBytesFromBuffer(b, count) EXCEPT !.out = @ + count]

----------------------------------------------------------------------------
(* xStreamBufferSend                                                        *)

Local(t, at, size) == [call EXCEPT ![t].at = at, ![t].size = size]

\* Reads the time and, in the first critical section of each round, the space.
TryToSend(t) ==
    LET c == Now(t)
        space == xStreamBufferSpacesAvailable(s)
        first == call[t].at = "call"
        timed == IF first THEN [call EXCEPT ![t].left = c.ticks,
                                            ![t].since = vTaskInternalSetTimeOutState(k)] ELSE call
    IN  /\ Calls(t, "xStreamBufferSend") \/ Runs(t, "sendAgain")
        /\ IF c.ticks = 0 THEN call' = Local(t, "write", 0) /\ UNCHANGED <<k, s>>
           ELSE IF space >= c.v + LengthBytes
           THEN call' = Local(t, "write", space) /\ UNCHANGED <<k, s>>
           ELSE /\ k' = configASSERT(xTaskNotifyStateClear(k), s.toSend = NULL)
                /\ s' = [s EXCEPT !.toSend = t]
                /\ call' = [timed EXCEPT ![t].at = "sendWait", ![t].size = space]

\* xTaskNotifyWait of the sender or of the receiver.
WaitForStream(t) ==
    /\ Runs(t, "sendWait") \/ Runs(t, "receiveWait")
    /\ k' = xTaskNotifyWait(k, IF call[t].at = "sendWait" THEN call[t].left ELSE Now(t).ticks)
    /\ call' = Goto(t, IF call[t].at = "sendWait" THEN "sendWoken" ELSE "receiveWoken")
    /\ UNCHANGED s
EndWaitForStream(t) ==
    /\ Runs(t, "sendWoken") \/ Runs(t, "receiveWoken")
    /\ k' = NotifyWaited(k)
    /\ call' = Goto(t, IF call[t].at = "sendWoken" THEN "sendCheck" ELSE "receiveCheck")
    /\ UNCHANGED s

CheckSendTime(t) ==
    LET check == xTaskCheckForTimeOut(k, call[t].since, call[t].left)
    IN  /\ Runs(t, "sendCheck")
        /\ s' = [s EXCEPT !.toSend = NULL]
        /\ call' = [call EXCEPT ![t].at = IF check.out THEN "write" ELSE "sendAgain",
                                ![t].left = check.left, ![t].since = check.since]
        /\ UNCHANGED k

\* With no space seen so far the space is read again; of a message the
\* length is written first.
WriteToStream(t) ==
    LET space == IF call[t].size = 0 THEN xStreamBufferSpacesAvailable(s) ELSE call[t].size
        count == Writable(s, Now(t).v, space)
    IN  /\ Runs(t, "write")
        /\ IF count = 0 THEN call' = Return(t, FALSE, "timeout") /\ UNCHANGED s
           ELSE IF s.message
           THEN s' = prvWriteBytesToBuffer(s, <<count>>) /\ call' = Local(t, "writeData", count)
           ELSE s' = Write(s, count) /\ call' = Local(t, "sent", count)
        /\ UNCHANGED k
WriteMessageData(t) ==
    /\ Runs(t, "writeData")
    /\ s' = Write(s, call[t].size)
    /\ call' = Goto(t, "sent")
    /\ UNCHANGED k

\* sbSEND_COMPLETED, when the trigger level is reached.
NotifyReceiver(t) ==
    /\ Runs(t, "sent")
    /\ IF prvBytesInBuffer(s) < s.trigger
       THEN call' = Return(t, TRUE, "none") /\ UNCHANGED <<k, s>>
       ELSE /\ k' = IF s.toReceive = NULL THEN vTaskSuspendAll(k)
                    ELSE xTaskGenericNotify(vTaskSuspendAll(k), s.toReceive, 0, "eNoAction")
            /\ s' = [s EXCEPT !.toReceive = NULL]
            /\ call' = Goto(t, "streamDone")

ResumeFromStream(t) ==
    /\ Runs(t, "streamDone")
    /\ k' = xTaskResumeAll(k).k
    /\ call' = Return(t, TRUE, "none")
    /\ UNCHANGED s

----------------------------------------------------------------------------
(* xStreamBufferReceive                                                     *)

TryToReceive(t) ==
    LET available == prvBytesInBuffer(s)
    IN  /\ Calls(t, "xStreamBufferReceive")
        /\ IF available <= LengthBytes /\ Now(t).ticks # 0
           THEN /\ k' = configASSERT(xTaskNotifyStateClear(k), s.toReceive = NULL)
                /\ s' = [s EXCEPT !.toReceive = t]
                /\ call' = Goto(t, "receiveWait")
           ELSE call' = Local(t, "read", available) /\ UNCHANGED <<k, s>>

LookAfterWait(t) ==
    /\ Runs(t, "receiveCheck")
    /\ s' = [s EXCEPT !.toReceive = NULL]
    /\ call' = Local(t, "read", prvBytesInBuffer(s))
    /\ UNCHANGED k

EndRead(t, count) == IF count = 0 THEN Return(t, FALSE, "none") ELSE Goto(t, "received")
ReadFromStream(t) ==
    LET count == Readable(s, Now(t).v, call[t].size)
    IN  /\ Runs(t, "read")
        /\ IF call[t].size <= LengthBytes THEN call' = Return(t, FALSE, "timeout") /\ UNCHANGED s
           ELSE IF s.message
           THEN /\ s' = AfterLength(s)
                /\ call' = IF s.buf[s.tail] > Now(t).v THEN Local(t, "putBack", s.tail)
                           ELSE Local(t, "readData", count)
           ELSE s' = Read(s, count) /\ call' = EndRead(t, count)
        /\ UNCHANGED k
ReadMessageData(t) ==
    /\ Runs(t, "readData")
    /\ s' = Read(s, call[t].size)
    /\ call' = EndRead(t, call[t].size)
    /\ UNCHANGED k
\* The tail is that of before the length, whatever was written meanwhile.
PutLengthBack(t) ==
    /\ Runs(t, "putBack")
    /\ s' = [s EXCEPT !.tail = call[t].size]
    /\ call' = Return(t, FALSE, "none")
    /\ UNCHANGED k

\* sbRECEIVE_COMPLETED
NotifySender(t) ==
    /\ Runs(t, "received")
    /\ k' = IF s.toSend = NULL THEN vTaskSuspendAll(k)
            ELSE xTaskGenericNotify(vTaskSuspendAll(k), s.toSend, 0, "eNoAction")
    /\ s' = [s EXCEPT !.toSend = NULL]
    /\ call' = Goto(t, "streamDone")

xStreamBufferReset(t) ==
    /\ Calls(t, "xStreamBufferReset")
    /\ s' = IF s.toReceive # NULL \/ s.toSend # NULL THEN s
            ELSE [prvInitialiseNewStreamBuffer(s.length, s.trigger, s.message) EXCEPT
                    !.in = s.in, !.out = s.in]
    /\ call' = Return(t, TRUE, "none")
    /\ UNCHANGED k

StreamStep(t) ==
    \/ TryToSend(t) \/ WaitForStream(t) \/ EndWaitForStream(t) \/ CheckSendTime(t)
    \/ WriteToStream(t) \/ WriteMessageData(t) \/ NotifyReceiver(t) \/ ResumeFromStream(t)
    \/ TryToReceive(t) \/ LookAfterWait(t) \/ ReadFromStream(t) \/ ReadMessageData(t) \/ PutLengthBack(t)
    \/ NotifySender(t) \/ xStreamBufferReset(t)

----------------------------------------------------------------------------
(* Calls of interrupt handlers                                              *)

NotifyWaiting(w) ==
    IF w = NULL THEN k ELSE xTaskGenericNotifyFromISR(k, w, 0, "eNoAction")

StreamSendFromISR(size) ==
    LET count == Writable(s, size, xStreamBufferSpacesAvailable(s))
        framed == IF s.message THEN prvWriteBytesToBuffer(s, <<count>>) ELSE s
        written == Write(framed, count)
        wakes == prvBytesInBuffer(written) >= s.trigger
    IN  /\ count > 0
        /\ k' = IF wakes THEN NotifyWaiting(s.toReceive) ELSE k
        /\ s' = [written EXCEPT !.toReceive = IF wakes THEN NULL ELSE @]

StreamReceiveFromISR(room) ==
    LET available == prvBytesInBuffer(s)
        count == IF available <= LengthBytes THEN 0 ELSE Readable(s, room, available)
    IN  /\ count > 0
        /\ k' = NotifyWaiting(s.toSend)
        /\ s' = [Read(AfterLength(s), count) EXCEPT !.toSend = NULL]

=============================================================================
