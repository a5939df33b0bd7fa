---------------------------- MODULE MCBFifoSpsc ----------------------------
(* The regimes of use of the byte fifo that the runs look at.               *)
EXTENDS BFifoSpsc

\* Safe: no lock but one byte never used, or the whole buffer under a lock.
Safe == {[who |-> "threads", slack |-> 1], [who |-> "exclusive", slack |-> 0]}

\* Lock-free, every byte used, and either side in a handler.
OneInHandler == {[who |-> "isrConsumer", slack |-> 0], [who |-> "isrProducer", slack |-> 0]}

=============================================================================
