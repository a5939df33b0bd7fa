---------------------------- MODULE MessageQueue ----------------------------
(* What queue.h promises of a queue: items are kept in the order they were   *)
(* sent to the back, those sent to the front come out first, each is taken   *)
(* once, and no more are kept than there is room for.                       *)
EXTENDS Naturals, Sequences

CONSTANT Item

VARIABLES
    items,      \* from the front to the back
    room        \* how many the queue was created for

vars == <<items, room>>

Init == items = <<>> /\ room \in Nat

SendToBack(v) == Len(items) < room /\ items' = Append(items, v)
SendToFront(v) == Len(items) < room /\ items' = <<v>> \o items

\* xQueueOverwrite, for queues of one item.
Overwrite(v) == room = 1 /\ items' = <<v>>

Take == items # <<>> /\ items' = Tail(items)

Reset == items' = <<>>

Next ==
    /\ UNCHANGED room
    /\ \/ \E v \in Item : SendToBack(v) \/ SendToFront(v) \/ Overwrite(v)
       \/ Take
       \/ Reset

Spec == Init /\ [][Next]_vars

=============================================================================
