---------------------------- MODULE BoundedQueue ----------------------------
(***************************************************************************)
(* What a byte FIFO promises: bytes come out in the order they went in,     *)
(* each once; a put is all or nothing; a get delivers what there is; every  *)
(* call reports what it did.                                                *)
(***************************************************************************)
EXTENDS Integers, Sequences

CONSTANTS Byte, MaxLen, MaxCap, EOK, ERANGE, EFULL, EEMPTY, EWRONGARG, EUNKNOWN

VARIABLES
    queue,    \* the bytes put and not yet got
    cap,      \* how many fit
    ret,      \* the result of the last call
    out,      \* the bytes the last call delivered
    call      \* the last call

vars == <<queue, cap, ret, out, call>>

Refuse(code) == ret' = code /\ out' = <<>> /\ UNCHANGED <<queue, cap>>

Init ==
    /\ queue = <<>> /\ cap \in Nat \ {0}
    /\ ret = EOK /\ out = <<>> /\ call = "none"

Reset(n) ==
    /\ call' = "init"
    /\ \/ Refuse(EWRONGARG)
       \/ n > 0 /\ queue' = <<>> /\ cap' = n /\ ret' = EOK /\ out' = <<>>

Put(s) ==
    /\ call' = "put"
    /\ \/ Refuse(EUNKNOWN)
       \/ Len(s) > cap /\ Refuse(ERANGE)
       \/ Len(s) <= cap /\ Len(s) > cap - Len(queue) /\ Refuse(EFULL)
       \/ /\ Len(s) <= cap - Len(queue)
          /\ queue' = queue \o s
          /\ ret' = EOK /\ out' = <<>>
          /\ UNCHANGED cap

Get(n) ==
    /\ call' = "get"
    /\ \/ Refuse(EUNKNOWN)
       \/ n = 0 /\ Refuse(0)
       \/ n > 0 /\ queue = <<>> /\ Refuse(EEMPTY)
       \/ \E k \in 1..n :
             /\ k = IF n < Len(queue) THEN n ELSE Len(queue)
             /\ out' = SubSeq(queue, 1, k)
             /\ queue' = SubSeq(queue, k + 1, Len(queue))
             /\ ret' = k
             /\ UNCHANGED cap

Next ==
    \/ \E n \in 0..MaxCap : Reset(n)
    \/ \E k \in 0..MaxLen : \E s \in [1..k -> Byte] : Put(s)
    \/ \E n \in 0..MaxLen : Get(n)

Spec == Init /\ [][Next]_vars

=============================================================================
