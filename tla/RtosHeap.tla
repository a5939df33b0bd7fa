------------------------------ MODULE RtosHeap ------------------------------
(***************************************************************************)
(* The memory of the kernel (heap_4.c) in units of portBYTE_ALIGNMENT: a    *)
(* header is one unit.  A heap h has the free blocks in the order of their  *)
(* addresses (xStart, pxEnd and pxNextFreeBlock), the allocated ones under  *)
(* the name of their owner, and xFreeBytesRemaining.                        *)
(***************************************************************************)
EXTENDS Integers, Sequences, SequencesExt

xHeapStructSize == 1
heapMINIMUM_BLOCK_SIZE == 2 * xHeapStructSize

prvHeapInit(units) ==
    [free |-> <<[at |-> 0, size |-> units]>>, used |-> {}, remaining |-> units]

BlockEnd(b) == b.at + b.size

\* How many free blocks come before an address (0: xStart does).
BlocksBelow(free, at) ==
    LET next == SelectInSeq(free, LAMBDA f : f.at >= at)
    IN  IF next = 0 THEN Len(free) ELSE next - 1

\* Joined with the block that ends where this begins, and with the one that
\* begins where this ends.
prvInsertBlockIntoFreeList_Left(free, b) ==
    LET n    == BlocksBelow(free, b.at)
        left == n > 0 /\ BlockEnd(free[n]) = b.at
    IN  IF left THEN [free EXCEPT ![n].size = @ + b.size]
        ELSE InsertAt(free, n + 1, b)
prvInsertBlockIntoFreeList(free, b) ==
    LET n     == BlocksBelow(free, b.at)
        left  == n > 0 /\ BlockEnd(free[n]) = b.at
        right == n < Len(free) /\ BlockEnd(b) = free[n + 1].at
        from  == IF left THEN free[n].at ELSE b.at
        upTo  == IF right THEN BlockEnd(free[n + 1]) ELSE BlockEnd(b)
    IN  SubSeq(free, 1, IF left THEN n - 1 ELSE n)
        \o <<[at |-> from, size |-> upTo - from]>>
        \o SubSeq(free, IF right THEN n + 2 ELSE n + 1, Len(free))

\* The first block large enough for the header too, split if what is left of
\* it is worth a block.
FirstFit(h, size) == SelectInSeq(h.free, LAMBDA f : f.size >= size)
pvPortMalloc(h, wanted, name) ==
    LET size   == wanted + xHeapStructSize
        i      == FirstFit(h, size)
        block  == h.free[i]
        others == RemoveAt(h.free, i)
        splits == block.size - size > heapMINIMUM_BLOCK_SIZE
        rest   == [at |-> block.at + size, size |-> block.size - size]
        given  == IF splits THEN size ELSE block.size
    IN  IF wanted = 0 \/ size > h.remaining \/ i = 0 THEN h
        ELSE [free |-> IF splits THEN prvInsertBlockIntoFreeList(others, rest) ELSE others,
              used |-> h.used \cup {[name |-> name, at |-> block.at, size |-> given]},
              remaining |-> h.remaining - given]

Allocated(h, name) == \E b \in h.used : b.name = name

\* A name of no block is static memory, which is not freed, or the NULL of a
\* pvPortMalloc that failed; nobody frees a block twice (asserted, heap_4.c:250).
vPortFree(h, name) ==
    LET b == CHOOSE b \in h.used : b.name = name
    IN  IF ~Allocated(h, name) THEN h
        ELSE [free |-> prvInsertBlockIntoFreeList(h.free, [at |-> b.at, size |-> b.size]),
              used |-> h.used \ {b}, remaining |-> h.remaining + b.size]

=============================================================================
