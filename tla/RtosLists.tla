----------------------------- MODULE RtosLists -----------------------------
(* The FreeRTOS lists (list.c).  A ring of items hung on xListEnd is the     *)
(* sequence of the items from the head to the tail.  Only a ready list uses  *)
(* pxIndex: it is the position of the item pxIndex points to, 0 when that    *)
(* is xListEnd.  Delayed and event lists are plain sequences.                *)
EXTENDS Integers, Sequences, SequencesExt

vListInitialise == [items |-> <<>>, pxIndex |-> 0]

\* The new item becomes the last that listGET_OWNER_OF_NEXT_ENTRY reaches:
\* it goes just before pxIndex.
vListInsertEnd(l, x) ==
    IF l.pxIndex = 0 THEN [l EXCEPT !.items = Append(@, x)]
    ELSE [items |-> InsertAt(l.items, l.pxIndex, x), pxIndex |-> l.pxIndex + 1]

\* uxListRemove moves pxIndex back when it points to the removed item.
uxListRemove(l, x) ==
    LET p == SelectInSeq(l.items, LAMBDA y : y = x)
    IN  IF p = 0 THEN l
        ELSE [items |-> RemoveAt(l.items, p),
              pxIndex |-> IF p <= l.pxIndex THEN l.pxIndex - 1 ELSE l.pxIndex]

\* In the order of the items' values, behind those of the same value.
vListInsert(s, x, value) ==
    LET p == SelectInSeq(s, LAMBDA y : value[y] > value[x])
    IN  IF p = 0 THEN Append(s, x) ELSE InsertAt(s, p, x)

\* The position listGET_OWNER_OF_NEXT_ENTRY moves pxIndex to.
NextEntry(l) == (l.pxIndex % Len(l.items)) + 1

=============================================================================
