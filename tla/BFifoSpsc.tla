------------------------------ MODULE BFifoSpsc ------------------------------
(***************************************************************************)
(* sk_bfifo_put by one producer beside sk_bfifo_get by one consumer, split   *)
(* at the accesses to what they share, in the order of the source.  (The     *)
(* byte stores between the two reads of rdidx in put may alias it, so the    *)
(* compiler reads it twice as well.)                                        *)
(*                                                                         *)
(* The bytes put are numbered 1, 2, 3, ... so that a byte lost, repeated or  *)
(* invented shows.                                                          *)
(***************************************************************************)
EXTENDS BFifoIndex, Sequences

CONSTANTS
    BufLen,      \* buflen
    MaxChunk,    \* bound on the length of a put and of a get
    MaxBytes,    \* bound on the bytes put in all
    Regimes      \* the regimes of use

ASSUME BufAssumption   == BufLen \in Nat \ {0} /\ MaxChunk \in Nat \ {0} /\ MaxBytes \in Nat

\* who: how put and get may interleave.
Ways == {"threads",        \* two tasks of a preemptive kernel
         "isrProducer",    \* put in a handler, get in main
         "isrConsumer",    \* get in a handler, put in main
         "exclusive"}      \* two tasks, each call under one sk_lock_t

\* slack: how many bytes of the buffer the producer leaves unused.
ASSUME RegimeAssumption == Regimes \subseteq [who : Ways, slack : 0..BufLen]

VARIABLES
    regime,                      \* chosen at the start
    buf, rdidx, wridx, isfull,   \* struct sk_bfifo
    ppc, plen, pi,               \* put: place, len, loop counter
    cpc, clen, ci,               \* get: place, len, loop counter
    sent,                        \* bytes whose put is complete
    freed,                       \* bytes whose slots get has given back
    got                          \* the bytes delivered, in order

pvars  == <<ppc, plen, pi, sent>>
cvars  == <<cpc, clen, ci, freed, got>>
shared == <<buf, rdidx, wridx, isfull>>
vars   == <<regime, shared, pvars, cvars>>

\* A handler runs to completion before main goes on; the lock keeps both out.
ProducerRuns == regime.who \in {"isrConsumer", "exclusive"} => cpc = "idle"
ConsumerRuns == regime.who \in {"isrProducer", "exclusive"} => ppc = "idle"

Slot(i) == Wrap(i, BufLen)
Left(full) == NumLeft(BufLen, rdidx, wridx, full)

-----------------------------------------------------------------------------
(* sk_bfifo_put *)

PStart(n) ==
    /\ ProducerRuns /\ ppc = "idle"
    /\ sent + n <= MaxBytes
    /\ (sent - freed) + n <= BufLen - regime.slack \/ regime.slack = 0
    /\ n <= BufLen
    /\ ppc' = "left" /\ plen' = n /\ pi' = 0
    /\ UNCHANGED <<shared, sent, cvars>>

\* Enough room, or SK_EFULL.
PDecide(left) == ppc' = IF left < plen THEN "idle" ELSE "copy"

\* rdidx is read; only equal indexes need the flag as well.
PLeft ==
    /\ ProducerRuns /\ ppc = "left"
    /\ IF rdidx = wridx THEN ppc' = "full" ELSE PDecide(Left(FALSE))
    /\ UNCHANGED <<shared, plen, pi, sent, cvars>>

PFull ==
    /\ ProducerRuns /\ ppc = "full"
    /\ PDecide(Left(isfull))
    /\ UNCHANGED <<shared, plen, pi, sent, cvars>>

PCopy_NoOffset ==
    /\ ProducerRuns /\ ppc = "copy"
    /\ buf' = [buf EXCEPT ![wridx] = sent + pi + 1]
    /\ pi' = pi + 1
    /\ ppc' = IF pi + 1 < plen THEN "copy" ELSE "compare"
    /\ UNCHANGED <<rdidx, wridx, isfull, plen, sent, cvars>>

PCopy ==
    /\ ProducerRuns /\ ppc = "copy"
    /\ buf' = [buf EXCEPT ![Slot(wridx + pi)] = sent + pi + 1]
    /\ pi' = pi + 1
    /\ ppc' = IF pi + 1 < plen THEN "copy" ELSE "compare"
    /\ UNCHANGED <<rdidx, wridx, isfull, plen, sent, cvars>>

NewWr == Slot(wridx + plen)

PCompare ==
    /\ ProducerRuns /\ ppc = "compare"
    /\ ppc' = IF NewWr = rdidx THEN "flag" ELSE "index"
    /\ UNCHANGED <<shared, plen, pi, sent, cvars>>

PFlag ==
    /\ ProducerRuns /\ ppc = "flag"
    /\ isfull' = TRUE
    /\ ppc' = "index"
    /\ UNCHANGED <<buf, rdidx, wridx, plen, pi, sent, cvars>>

PIndex ==
    /\ ProducerRuns /\ ppc = "index"
    /\ wridx' = NewWr
    /\ sent' = sent + plen
    /\ ppc' = "idle"
    /\ UNCHANGED <<buf, rdidx, isfull, plen, pi, cvars>>

-----------------------------------------------------------------------------
(* sk_bfifo_get *)

CStart(n) ==
    /\ ConsumerRuns /\ cpc = "idle"
    /\ cpc' = "used" /\ clen' = n /\ ci' = 0
    /\ UNCHANGED <<shared, pvars, freed, got>>

CDecide_NotTruncated(used) ==
    IF used = 0 THEN cpc' = "idle" /\ UNCHANGED clen
                ELSE cpc' = "copy" /\ UNCHANGED clen

CDecide_KeepsLast(used) ==
    IF used <= 1 THEN cpc' = "idle" /\ UNCHANGED clen
                 ELSE cpc' = "copy" /\ clen' = IF clen > used - 1 THEN used - 1 ELSE clen

\* SK_EEMPTY, or the length truncated to what there is.
CDecide(used) ==
    IF used = 0 THEN cpc' = "idle" /\ UNCHANGED clen
                ELSE cpc' = "copy" /\ clen' = IF clen > used THEN used ELSE clen

CUsed ==
    /\ ConsumerRuns /\ cpc = "used"
    /\ IF rdidx = wridx THEN cpc' = "full" /\ UNCHANGED clen
                        ELSE CDecide(BufLen - Left(FALSE))
    /\ UNCHANGED <<shared, pvars, ci, freed, got>>

CFull ==
    /\ ConsumerRuns /\ cpc = "full"
    /\ CDecide(BufLen - Left(isfull))
    /\ UNCHANGED <<shared, pvars, ci, freed, got>>

CCopy ==
    /\ ConsumerRuns /\ cpc = "copy"
    /\ got' = Append(got, buf[Slot(rdidx + ci)])
    /\ ci' = ci + 1
    /\ cpc' = IF ci + 1 < clen THEN "copy" ELSE "index"
    /\ UNCHANGED <<shared, pvars, clen, freed>>

CIndex ==
    /\ ConsumerRuns /\ cpc = "index"
    /\ rdidx' = Slot(rdidx + clen)
    /\ freed' = freed + clen
    /\ cpc' = "clear"
    /\ UNCHANGED <<buf, wridx, isfull, pvars, clen, ci, got>>

CClear_Forgotten ==
    /\ ConsumerRuns /\ cpc = "clear"
    /\ cpc' = "idle"
    /\ UNCHANGED <<shared, pvars, clen, ci, freed, got>>

CClear ==
    /\ ConsumerRuns /\ cpc = "clear"
    /\ isfull' = FALSE
    /\ cpc' = "idle"
    /\ UNCHANGED <<buf, rdidx, wridx, pvars, clen, ci, freed, got>>

-----------------------------------------------------------------------------

Init ==
    /\ regime \in Regimes
    /\ buf = [i \in 0..(BufLen - 1) |-> 0]
    /\ rdidx = 0 /\ wridx = 0 /\ isfull = FALSE
    /\ ppc = "idle" /\ plen = 0 /\ pi = 0
    /\ cpc = "idle" /\ clen = 0 /\ ci = 0
    /\ sent = 0 /\ freed = 0 /\ got = <<>>

Producer ==
    \/ \E n \in 1..MaxChunk : PStart(n)
    \/ PLeft \/ PFull \/ PCopy \/ PCompare \/ PFlag \/ PIndex

Consumer ==
    \/ \E n \in 1..MaxChunk : CStart(n)
    \/ CUsed \/ CFull \/ CCopy \/ CIndex \/ CClear

Next == (Producer \/ Consumer) /\ UNCHANGED regime

Spec == Init /\ [][Next]_vars

\* A put or a get once begun is carried through, and the consumer keeps asking.
FairSpec ==
    /\ Spec
    /\ WF_vars(Producer /\ UNCHANGED regime)
    /\ WF_vars(Consumer /\ UNCHANGED regime)

-----------------------------------------------------------------------------
(* Properties. *)

\* The consumer sees byte 1, then byte 2, and so on: none lost, none twice, and
\* none read from a slot the producer has not finished (sync.c:112, "first put
\* elements, only then update index").
InOrder == \A i \in 1..Len(got) : got[i] = i

\* Between calls the indexes and the flag account for every byte: what was put
\* and not yet got is what a get would find.
NoLoss ==
    ppc = "idle" /\ cpc = "idle" =>
        BufLen - Left(isfull) = sent - Len(got)

\* Without a lock, every byte whose put succeeded reaches the consumer.  (With
\* one, it does when the lock is granted in turn, which a spinlock does not
\* promise.)
Delivered ==
    \A k \in 1..MaxBytes :
        (regime.who = "threads" /\ sent >= k) ~> (Len(got) >= k)

=============================================================================
