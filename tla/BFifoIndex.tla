----------------------------- MODULE BFifoIndex -----------------------------
(* The index arithmetic of the byte FIFO, src/src/sync.c.                   *)
EXTENDS Integers

\* The wrap of an index in a buffer of n bytes.
Wrap(i, n) == i % n

\* Equal indexes always taken for an empty fifo.
NumLeft_NoFlag(n, rd, wr, full) ==
    LET left == Wrap((n - wr) + rd, n)
    IN  IF left # 0 THEN left ELSE n

\* _sk_bfifo_numleft: the free bytes of a fifo with these indexes and flag.
NumLeft(n, rd, wr, full) ==
    LET left == Wrap((n - wr) + rd, n)
    IN  IF left # 0 THEN left ELSE IF full THEN 0 ELSE n

=============================================================================
