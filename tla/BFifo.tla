-------------------------------- MODULE BFifo --------------------------------
(***************************************************************************)
(* The byte FIFO of src/src/sync.c, one call at a time.  BFifoSpsc is the    *)
(* same code split at its memory accesses.                                  *)
(*                                                                         *)
(* uint16_t does not wrap here: indexes stay below buflen, the sums are      *)
(* evaluated in 32 bits and the loop counter stops at len <= buflen.        *)
(***************************************************************************)
EXTENDS BFifoIndex, Sequences

CONSTANTS
    Byte,        \* the bytes put
    MaxBufLen,   \* bound on the buffers given to sk_bfifo_init
    MinPut,      \* bounds on the length of
    MaxLen,      \*   what is put and asked for
    NULL         \* the null pointer

ASSUME BoundsAssumption == MaxBufLen \in Nat \ {0} /\ MinPut \in Nat /\ MaxLen \in Nat

\* src/inc/errors.h
EOK == 0
EUNKNOWN == -1
EWRONGARG == -4
ERANGE == -6
EFULL == -7
EEMPTY == -8

VARIABLES
    buf, buflen, rdidx, wridx, isfull,    \* struct sk_bfifo
    ret,                                  \* what the last call returned
    out,                                  \* what it wrote to the caller's array
    call                                  \* which call it was

index == <<rdidx, wridx, isfull>>
vars  == <<buf, buflen, rdidx, wridx, isfull, ret, out, call>>

-----------------------------------------------------------------------------
(* What the indexes stand for. *)

Used == buflen - NumLeft(buflen, rdidx, wridx, isfull)

\* The bytes in the fifo, oldest first.
Contents == [i \in 1..Used |-> buf[Wrap(rdidx + (i - 1), buflen)]]

-----------------------------------------------------------------------------
(* The calls. *)

Refuse(code) == ret' = code /\ out' = <<>> /\ UNCHANGED <<buf, buflen, index>>

\* SK_BFIFO_INITIALIZER
Fresh(n) == buflen' = n /\ rdidx' = 0 /\ wridx' = 0 /\ isfull' = FALSE

\* sk_bfifo_init; NULL stands for either pointer.
Reinit(b, n) ==
    /\ call' = "init"
    /\ \/ (b = NULL \/ n = 0) /\ Refuse(EWRONGARG)
       \/ b # NULL /\ n # 0 /\ Fresh(n) /\ ret' = EOK /\ out' = <<>> /\ UNCHANGED buf

\* The slot loop of put: byte i of s goes to slot (wridx + i) % buflen.
Stored(s) ==
    [j \in DOMAIN buf |->
        IF j < buflen /\ Wrap(j - wridx, buflen) < Len(s)
        THEN s[Wrap(j - wridx, buflen) + 1] ELSE buf[j]]

\* The flag looks at the old write index.
PutIndex_OldWrite(len) ==
    /\ isfull' = (isfull \/ wridx = rdidx)
    /\ wridx' = Wrap(wridx + len, buflen)

\* The flag is never set.
PutIndex_NoFlag(len) ==
    /\ UNCHANGED isfull
    /\ wridx' = Wrap(wridx + len, buflen)

\* The new write index and the full flag.
PutIndex(len) ==
    /\ isfull' = (isfull \/ Wrap(wridx + len, buflen) = rdidx)
    /\ wridx' = Wrap(wridx + len, buflen)

\* sk_bfifo_put
Put(s) ==
    /\ call' = "put"
    /\ \/ s = NULL /\ Refuse(EUNKNOWN)
       \/ s # NULL /\ Len(s) > buflen /\ Refuse(ERANGE)
       \/ /\ s # NULL /\ Len(s) <= buflen
          /\ NumLeft(buflen, rdidx, wridx, isfull) < Len(s)
          /\ Refuse(EFULL)
       \/ /\ s # NULL /\ Len(s) <= buflen
          /\ NumLeft(buflen, rdidx, wridx, isfull) >= Len(s)
          /\ buf' = Stored(s)
          /\ PutIndex(Len(s))
          /\ ret' = EOK /\ out' = <<>>
          /\ UNCHANGED <<buflen, rdidx>>

GetIndex_KeepsFull(len) == rdidx' = Wrap(rdidx + len, buflen) /\ UNCHANGED isfull
GetIndex_NoWrap(len)    == rdidx' = rdidx + len /\ isfull' = FALSE

GetIndex(len) == rdidx' = Wrap(rdidx + len, buflen) /\ isfull' = FALSE

\* sk_bfifo_get
Get(b, n) ==
    /\ call' = "get"
    /\ \/ b = NULL /\ Refuse(EUNKNOWN)
       \/ b # NULL /\ n = 0 /\ Refuse(0)
       \/ b # NULL /\ n > 0 /\ Used = 0 /\ Refuse(EEMPTY)
       \/ /\ b # NULL /\ n > 0 /\ Used > 0
          /\ LET len == IF n > Used THEN Used ELSE n
             IN  /\ out' = [i \in 1..len |-> buf[Wrap(rdidx + (i - 1), buflen)]]
                 /\ GetIndex(len)
                 /\ ret' = len
          /\ UNCHANGED <<buf, buflen, wridx>>

-----------------------------------------------------------------------------

Pointer == {NULL, "buffer"}
Inputs  == (UNION {[1..k -> Byte] : k \in MinPut..MaxLen}) \cup {NULL}

Init ==
    /\ buf \in [0..(MaxBufLen - 1) -> Byte]
    /\ buflen \in 1..MaxBufLen
    /\ rdidx = 0 /\ wridx = 0 /\ isfull = FALSE
    /\ ret = EOK /\ out = <<>> /\ call = "none"

Next ==
    \/ \E b \in Pointer, n \in 0..MaxBufLen : Reinit(b, n)
    \/ \E s \in Inputs : Put(s)
    \/ \E b \in Pointer, n \in 0..MaxLen : Get(b, n)

Spec == Init /\ [][Next]_vars

-----------------------------------------------------------------------------
(* Properties. *)

\* The indexes stay inside the buffer, whatever is put, got and refused.
TypeOK ==
    /\ buf \in [0..(MaxBufLen - 1) -> Byte]
    /\ buflen \in 1..MaxBufLen
    /\ rdidx \in 0..(buflen - 1)
    /\ wridx \in 0..(buflen - 1)
    /\ isfull \in BOOLEAN
    /\ ret \in Int

\* Equal indexes mean full or empty and the flag tells which: it is never left
\* over from an earlier lap, when it would turn an empty fifo into a full one.
FullFlagAgrees == isfull => rdidx = wridx

ABS == INSTANCE BoundedQueue WITH queue <- Contents, cap <- buflen, MaxCap <- MaxBufLen

\* The ring, its two indexes and its flag are a bounded queue with all-or-
\* nothing puts and truncated gets (sync.c:106, 145), down to every result.
QueueSpec == ABS!Spec

\* The comment of sync.c:106, "Our buffer is all-or-nothing. We either put
\* array in it, or return error": a put adds its bytes or changes nothing.
AllOrNothing ==
    [][\A s \in Inputs : Put(s) =>
          Contents' = IF ret' = EOK THEN Contents \o s ELSE Contents]_vars

=============================================================================
