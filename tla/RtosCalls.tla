----------------------------- MODULE RtosCalls -----------------------------
(***************************************************************************)
(* Tasks that call the kernel, one after the other of the calls in their   *)
(* Script, for ever.  A call is split where interrupts or other tasks can  *)
(* come between: one step is a critical section (the interrupts that call  *)
(* the kernel are masked), the part of a call inside vTaskSuspendAll, or   *)
(* xTaskResumeAll.  The kernel's data are in k; call[t] is                 *)
(*   n, at     the position in the script and in the code of the call      *)
(*   left      what remains of xTicksToWait, once the call has started     *)
(*   since     its TimeOut_t                                               *)
(*   path      which branch the call took, until it matters no more        *)
(*   inherited xInheritanceOccurred                                        *)
(*   size      xSpace or xBytesAvailable of a stream buffer, a time read   *)
(*   last      *pxPreviousWakeTime of vTaskDelayUntil                      *)
(*   got       what the call before returned (of the idle task: the task   *)
(*             whose memory it frees)                                      *)
(*   age       history: the ticks of the clock since this call began       *)
(***************************************************************************)
EXTENDS RtosQueue

\* An application has the script of each task, the tasks that main creates with
\* their priorities, and what else of the kernel it uses (see the modules).
CONSTANTS
    Program,        \* names of applications
    App             \* [Program -> application]

VARIABLES
    k,              \* the kernel
    call,           \* where each task is
    program         \* which application this is (never changes)

callVars == <<k, call, program>>

\* The script of the idle task, and of a task that is never created.
Idling == <<[op |-> "prvIdleTask", ticks |-> 0]>>
ScriptOf(t) == App[program].script[t]
Now(t) == ScriptOf(t)[call[t].n]

NoTime == [overflows |-> 0, tick |-> 0]
Fresh == [n |-> 1, at |-> "call", left |-> 0, since |-> NoTime, path |-> "none",
          inherited |-> FALSE, size |-> 0, last |-> 0, got |-> "none", age |-> 0]

\* The running task is at this point of its call.
Runs(t, at) ==
    /\ k.cur = t
    /\ ~k.pendsv
    /\ ~k.halted
    /\ call[t].at = at

Calls(t, op) == Runs(t, "call") /\ Now(t).op = op

Goto(t, at) == [call EXCEPT ![t].at = at]

\* A call that fails may skip calls that depend on it; a loop goes back.
NextCall(t, ok) ==
    IF ~ok /\ "fail" \in DOMAIN Now(t) THEN Now(t).fail
    ELSE IF "next" \in DOMAIN Now(t) THEN Now(t).next
    ELSE (call[t].n % Len(ScriptOf(t))) + 1
Return(t, ok, got) ==
    [call EXCEPT ![t] = [Fresh EXCEPT !.n = NextCall(t, ok), !.got = got, !.last = call[t].last]]

----------------------------------------------------------------------------
(* The start                                                                *)

NoKernel ==
    [ready |-> [p \in Prio |-> vListInitialise], top |-> {},
     delayed |-> <<>>, overflow |-> <<>>, suspended |-> <<>>, dying |-> <<>>,
     events |-> [l \in EventList |-> <<>>],
     tick |-> 0, overflows |-> 0, next |-> portMAX_DELAY, pended |-> 0, susp |-> 0,
     yield |-> FALSE, cur |-> NULL, pendsv |-> FALSE, halted |-> FALSE,
     prio |-> [t \in Task |-> 0], base |-> [t \in Task |-> 0],
     held |-> [t \in Task |-> 0], wake |-> [t \in Task |-> 0],
     key |-> [t \in Task |-> configMAX_PRIORITIES], bits |-> [t \in Task |-> NoBits],
     note |-> [t \in Task |-> "NOT_WAITING"], value |-> [t \in Task |-> 0]]

\* Before the scheduler runs, the last of the most urgent tasks created is
\* the current one.
CreateFirst(k0, new) ==
    LET k1 == prvAddNewTaskToReadyList(k0, new.task, new.prio)
    IN  IF k0.cur = NULL \/ k0.prio[k0.cur] <= new.prio
        THEN [k1 EXCEPT !.cur = new.task] ELSE k1

vTaskStartScheduler(created) ==
    FoldLeft(CreateFirst, NoKernel, Append(created, [task |-> Idle, prio |-> 0]))

CallInit ==
    /\ program \in Program
    /\ k = vTaskStartScheduler(App[program].tasks)
    /\ call = [t \in Task |-> Fresh]

=============================================================================
