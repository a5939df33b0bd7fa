----------------------------- MODULE BFifoProofs -----------------------------
(* The index arithmetic of the byte FIFO, for buffers of every length, and  *)
(* what it gives the FIFO called one call at a time.                        *)
EXTENDS BFifo, SequenceTheorems, TLAPS

\* An index that went past the end at most once.
LEMMA WrapOnce ==
    ASSUME NEW n \in Nat \ {0}, NEW i \in 0..(n + n - 1)
    PROVE  Wrap(i, n) = IF i < n THEN i ELSE i - n
BY DEF Wrap

\* A wrapped index is inside the buffer.
LEMMA WrapRange ==
    ASSUME NEW n \in Nat \ {0}, NEW i \in Int
    PROVE  Wrap(i, n) \in 0..(n - 1)
BY DEF Wrap

\* The count of used bytes that the comment of sync.c:63-69 starts from.
UsedOf(n, rd, wr, full) ==
    IF wr > rd THEN wr - rd
    ELSE IF wr < rd THEN n + (wr - rd)
    ELSE IF full THEN n ELSE 0

\* "(prove this)", sync.c:71: the one formula with the remainder, corrected for
\* equal indexes, is buflen - used in every case, for every buffer length.
THEOREM NumLeftIsFree ==
    ASSUME NEW n \in Nat \ {0}, NEW rd \in 0..(n - 1), NEW wr \in 0..(n - 1),
           NEW full \in BOOLEAN
    PROVE  /\ NumLeft(n, rd, wr, full) = n - UsedOf(n, rd, wr, full)
           /\ NumLeft(n, rd, wr, full) \in 0..n
<1> DEFINE d == (n - wr) + rd
<1>1. d \in 1..(n + n - 1)
  OBVIOUS
<1>2. Wrap(d, n) = IF d < n THEN d ELSE d - n
  BY <1>1, WrapOnce
<1>3. CASE wr > rd
  <2>1. Wrap(d, n) = n - (wr - rd) /\ Wrap(d, n) # 0
    BY <1>2, <1>3
  <2> QED
    BY <1>3, <2>1 DEF NumLeft, UsedOf
<1>4. CASE wr < rd
  <2>1. Wrap(d, n) = rd - wr /\ Wrap(d, n) # 0
    BY <1>2, <1>4
  <2> QED
    BY <1>4, <2>1 DEF NumLeft, UsedOf
<1>5. CASE wr = rd
  <2>1. Wrap(d, n) = 0
    BY <1>2, <1>5
  <2> QED
    BY <1>5, <2>1 DEF NumLeft, UsedOf
<1> QED
  BY <1>3, <1>4, <1>5

-----------------------------------------------------------------------------

\* How many bytes a get takes out: no more than there are.
LEMMA UsedInRange == TypeOK => Used \in 0..buflen
BY NumLeftIsFree DEF TypeOK, Used

LEMMA SafeInit == Init => TypeOK /\ FullFlagAgrees
<1> SUFFICES ASSUME Init
             PROVE  TypeOK /\ FullFlagAgrees
  OBVIOUS
<1>1. buflen \in Nat \ {0}
  BY BoundsAssumption DEF Init
<1>2. 0 \in 0..(buflen - 1)
  BY <1>1
<1>3. rdidx \in 0..(buflen - 1) /\ wridx \in 0..(buflen - 1)
  BY <1>2 DEF Init
<1>4. ~isfull /\ isfull \in BOOLEAN
  BY DEF Init
<1>5. ret \in Int
  BY DEF Init, EOK
<1> QED
  BY <1>3, <1>4, <1>5 DEF Init, TypeOK, FullFlagAgrees

\* Bytes are stored in slots of the buffer only.
LEMMA StoredType ==
    ASSUME TypeOK, NEW s \in Inputs, s # NULL
    PROVE  Len(s) \in Nat /\ Stored(s) \in [0..(MaxBufLen - 1) -> Byte]
<1>1. PICK k \in MinPut..MaxLen : s \in [1..k -> Byte]
  <2>1. s \in UNION {[1..k -> Byte] : k \in MinPut..MaxLen}
    BY DEF Inputs
  <2> QED
    BY <2>1, Zenon
<1>2. k \in Nat
  BY BoundsAssumption
<1>3. Len(s) = k
  BY <1>1, <1>2
<1>4. ASSUME NEW j \in 0..(MaxBufLen - 1), Wrap(j - wridx, buflen) < Len(s)
      PROVE  s[Wrap(j - wridx, buflen) + 1] \in Byte
  <2>1. Wrap(j - wridx, buflen) \in 0..(buflen - 1)
    <3>1. buflen \in Nat \ {0} /\ j - wridx \in Int
      BY BoundsAssumption DEF TypeOK
    <3> QED
      BY <3>1, WrapRange
  <2>2. Wrap(j - wridx, buflen) + 1 \in 1..k
    BY <1>2, <1>3, <1>4, <2>1 DEF TypeOK
  <2> QED
    BY <1>1, <2>2
<1> QED
  BY <1>2, <1>3, <1>4 DEF Stored, TypeOK

LEMMA SafeStep == TypeOK /\ FullFlagAgrees /\ [Next]_vars => TypeOK' /\ FullFlagAgrees'
<1> SUFFICES ASSUME TypeOK, FullFlagAgrees, [Next]_vars
             PROVE  TypeOK' /\ FullFlagAgrees'
  OBVIOUS
<1> buflen \in Nat \ {0} /\ rdidx \in Nat /\ wridx \in Nat
  BY BoundsAssumption DEF TypeOK
<1>1. ASSUME NEW code \in Int, Refuse(code)
      PROVE  TypeOK' /\ FullFlagAgrees'
  BY <1>1 DEF Refuse, TypeOK, FullFlagAgrees, index
<1>2. ASSUME NEW b \in Pointer, NEW n \in 0..MaxBufLen, Reinit(b, n)
      PROVE  TypeOK' /\ FullFlagAgrees'
  <2>1. CASE Refuse(EWRONGARG)
    BY <1>1, <2>1 DEF EWRONGARG
  <2>2. CASE n # 0 /\ Fresh(n) /\ ret' = EOK /\ UNCHANGED buf
    <3>1. ~isfull' /\ isfull' \in BOOLEAN
      BY <2>2 DEF Fresh
    <3>2. buflen' = n /\ n \in 1..MaxBufLen /\ rdidx' = 0 /\ wridx' = 0
      BY <2>2, BoundsAssumption DEF Fresh
    <3>3. buf' \in [0..(MaxBufLen - 1) -> Byte] /\ ret' \in Int
      BY <2>2 DEF TypeOK, EOK
    <3>4. rdidx' \in 0..(buflen' - 1) /\ wridx' \in 0..(buflen' - 1)
      <4>1. 0 \in 0..(n - 1)
        BY <3>2, BoundsAssumption
      <4> QED
        BY <3>2, <4>1
    <3> QED
      BY <3>1, <3>2, <3>3, <3>4 DEF TypeOK, FullFlagAgrees
  <2> QED
    BY <1>2, <2>1, <2>2 DEF Reinit
<1>3. ASSUME NEW s \in Inputs, Put(s)
      PROVE  TypeOK' /\ FullFlagAgrees'
  <2>1. CASE Refuse(EUNKNOWN) \/ Refuse(ERANGE) \/ Refuse(EFULL)
    BY <1>1, <2>1 DEF EUNKNOWN, ERANGE, EFULL
  <2>2. CASE /\ s # NULL
             /\ NumLeft(buflen, rdidx, wridx, isfull) >= Len(s)
             /\ buf' = Stored(s)
             /\ PutIndex(Len(s))
             /\ ret' = EOK /\ UNCHANGED <<buflen, rdidx>>
    <3>1. Len(s) \in Nat /\ buf' \in [0..(MaxBufLen - 1) -> Byte]
      BY <2>2, StoredType
    <3>2. Wrap(wridx + Len(s), buflen) \in 0..(buflen - 1)
      BY <3>1, WrapRange
    <3>3. TypeOK'
      BY <2>2, <3>1, <3>2 DEF PutIndex, TypeOK, EOK
    <3>4. CASE isfull
      <4>1. NumLeft(buflen, rdidx, wridx, isfull) = 0
        <5>1. NumLeft(buflen, rdidx, wridx, isfull)
                = buflen - UsedOf(buflen, rdidx, wridx, isfull)
          BY NumLeftIsFree DEF TypeOK
        <5>2. UsedOf(buflen, rdidx, wridx, isfull) = buflen
          BY <3>4 DEF FullFlagAgrees, UsedOf
        <5> QED
          BY <5>1, <5>2
      <4>2. Len(s) = 0
        BY <2>2, <3>1, <4>1
      <4>3. Wrap(wridx + Len(s), buflen) = wridx
        BY <4>2, WrapOnce DEF TypeOK
      <4> QED
        BY <2>2, <3>3, <3>4, <4>3 DEF PutIndex, FullFlagAgrees
    <3>5. CASE ~isfull
      BY <2>2, <3>3, <3>5 DEF PutIndex, FullFlagAgrees
    <3> QED
      BY <3>4, <3>5 DEF TypeOK
  <2> QED
    BY <1>3, <2>1, <2>2 DEF Put
<1>4. ASSUME NEW b \in Pointer, NEW n \in 0..MaxLen, Get(b, n)
      PROVE  TypeOK' /\ FullFlagAgrees'
  <2>1. CASE Refuse(EUNKNOWN) \/ Refuse(0) \/ Refuse(EEMPTY)
    BY <1>1, <2>1 DEF EUNKNOWN, EEMPTY
  <2>2. CASE \E len \in Nat : GetIndex(len) /\ ret' = len /\ UNCHANGED <<buf, buflen, wridx>>
    <3>1. PICK len \in Nat : GetIndex(len) /\ ret' = len /\ UNCHANGED <<buf, buflen, wridx>>
      BY <2>2
    <3>2. Wrap(rdidx + len, buflen) \in 0..(buflen - 1)
      BY WrapRange
    <3> QED
      <4>1. ~isfull' /\ isfull' \in BOOLEAN
        BY <3>1 DEF GetIndex
      <4>2. rdidx' \in 0..(buflen' - 1) /\ ret' \in Int
        BY <3>1, <3>2 DEF GetIndex
      <4>3. buf' = buf /\ buflen' = buflen /\ wridx' = wridx
        BY <3>1
      <4> QED
        BY <4>1, <4>2, <4>3 DEF TypeOK, FullFlagAgrees
  <2>3. Used \in Nat /\ n \in Nat
    BY UsedInRange, BoundsAssumption DEF TypeOK
  <2> DEFINE len == IF n > Used THEN Used ELSE n
  <2>4. len \in Nat
    BY <2>3
  <2>5. \/ Refuse(EUNKNOWN) \/ Refuse(0) \/ Refuse(EEMPTY)
        \/ GetIndex(len) /\ ret' = len /\ UNCHANGED <<buf, buflen, wridx>>
    BY <1>4 DEF Get
  <2> HIDE DEF len
  <2> QED
    BY <2>1, <2>2, <2>4, <2>5
<1>5. CASE UNCHANGED vars
  BY <1>5 DEF vars, TypeOK, FullFlagAgrees
<1> QED
  BY <1>2, <1>3, <1>4, <1>5 DEF Next

\* No sequence of calls, of whatever lengths, takes an index out of the buffer.
THEOREM IndexesInside == Spec => []TypeOK
<1> QED
  BY SafeInit, SafeStep, PTL DEF Spec

\* The full flag is set only while the indexes are equal.
THEOREM FlagAgreement == Spec => []FullFlagAgrees
<1> QED
  BY SafeInit, SafeStep, PTL DEF Spec

-----------------------------------------------------------------------------
(* Refinement of BoundedQueue, for calls that put at least one byte (a put  *)
(* of none can set the flag of an empty fifo, which is another run's).      *)

\* A wrapped index plus an offset is wrapped once more as if it had not been.
LEMMA WrapTwice ==
    ASSUME NEW n \in Nat \ {0}, NEW a \in 0..n, NEW b \in 0..(n - 1), NEW c \in 0..n,
           a + b + c \in 0..(n + n - 1)
    PROVE  Wrap(Wrap(a + b, n) + c, n) = Wrap(a + b + c, n)
<1>1. Wrap(a + b, n) = IF a + b < n THEN a + b ELSE a + b - n
  BY WrapOnce
<1>2. Wrap(a + b + c, n) = IF a + b + c < n THEN a + b + c ELSE a + b + c - n
  BY WrapOnce
<1>3. CASE a + b < n
  BY <1>1, <1>3
<1>4. CASE a + b >= n
  <2>1. Wrap(a + b, n) + c = a + b + c - n /\ a + b + c - n \in 0..(n - 1)
    BY <1>1, <1>4
  <2>2. Wrap(a + b + c - n, n) = a + b + c - n
    BY <2>1, WrapOnce
  <2> QED
    BY <1>2, <1>4, <2>1, <2>2
<1> QED
  BY <1>3, <1>4

\* How far a slot is ahead of the write index, for an index behind or ahead.
LEMMA WrapBack ==
    ASSUME NEW n \in Nat \ {0}, NEW i \in (0 - n)..(n - 1)
    PROVE  Wrap(i, n) = IF i >= 0 THEN i ELSE i + n
BY DEF Wrap

\* The write index is as far ahead of the read index as bytes are used.
Counted ==
    /\ Used \in 0..buflen
    /\ wridx = Wrap(rdidx + Used, buflen)
    /\ NumLeft(buflen, rdidx, wridx, isfull) = buflen - Used
    /\ isfull <=> Used = buflen

LEMMA WriteIsAhead == TypeOK /\ FullFlagAgrees => Counted
<1> SUFFICES ASSUME TypeOK, FullFlagAgrees
             PROVE  Counted
  OBVIOUS
<1> buflen \in Nat \ {0} /\ rdidx \in 0..(buflen - 1) /\ wridx \in 0..(buflen - 1)
  BY BoundsAssumption DEF TypeOK
<1>1. /\ NumLeft(buflen, rdidx, wridx, isfull) = buflen - UsedOf(buflen, rdidx, wridx, isfull)
      /\ NumLeft(buflen, rdidx, wridx, isfull) \in 0..buflen
  BY NumLeftIsFree DEF TypeOK
<1>2. UsedOf(buflen, rdidx, wridx, isfull) \in 0..buflen
  BY DEF UsedOf
<1>3. Used = UsedOf(buflen, rdidx, wridx, isfull)
  BY <1>1, <1>2 DEF Used
<1>4. Wrap(rdidx + Used, buflen)
        = IF rdidx + Used < buflen THEN rdidx + Used ELSE rdidx + Used - buflen
  <2>1. Used < buflen \/ rdidx = wridx
    BY <1>3 DEF UsedOf
  <2>2. CASE rdidx + Used <= buflen + buflen - 1
    BY <2>2, <1>2, <1>3, WrapOnce
  <2> QED
    BY <1>2, <1>3, <2>2
<1>5. wridx = Wrap(rdidx + Used, buflen)
  BY <1>3, <1>4 DEF UsedOf
<1>6. isfull <=> Used = buflen
  BY <1>3 DEF UsedOf, FullFlagAgrees, TypeOK
<1> QED
  BY <1>1, <1>2, <1>3, <1>5, <1>6 DEF Counted

\* What a put that succeeds does to the count, and where its bytes go.
LEMMA PutCounts ==
    ASSUME TypeOK, FullFlagAgrees, NEW len \in 1..(buflen - Used),
           PutIndex(len), UNCHANGED <<buflen, rdidx>>
    PROVE  Used' = Used + len
<1> buflen \in Nat \ {0} /\ rdidx \in 0..(buflen - 1)
  BY BoundsAssumption DEF TypeOK
<1>1. Used \in 0..buflen /\ wridx = Wrap(rdidx + Used, buflen) /\ (isfull <=> Used = buflen)
  BY WriteIsAhead DEF Counted
<1>2. isfull = FALSE
  BY <1>1 DEF TypeOK
<1>3. wridx' = Wrap(rdidx + Used + len, buflen)
  <2>1. wridx = IF rdidx + Used < buflen THEN rdidx + Used ELSE rdidx + Used - buflen
    BY <1>1, WrapOnce
  <2>2. Wrap(wridx + len, buflen) = IF wridx + len < buflen THEN wridx + len ELSE wridx + len - buflen
    BY <1>1, <2>1, WrapOnce
  <2>3. Wrap(rdidx + Used + len, buflen) = IF rdidx + Used + len < buflen
           THEN rdidx + Used + len ELSE rdidx + Used + len - buflen
    BY <1>1, WrapOnce
  <2> QED
    BY <1>1, <2>1, <2>2, <2>3 DEF PutIndex
<1>4. wridx' = IF rdidx + Used + len < buflen
               THEN rdidx + Used + len ELSE rdidx + Used + len - buflen
  BY <1>1, <1>3, WrapOnce
<1>5. isfull' = (wridx' = rdidx)
  BY <1>2 DEF PutIndex
<1>6. wridx' \in 0..(buflen - 1)
  BY <1>1, <1>4
<1>7. UsedOf(buflen, rdidx, wridx', isfull') = Used + len
  <2>1. CASE Used + len = buflen
    <3>1. wridx' = rdidx
      BY <1>1, <1>4, <2>1
    <3>2. isfull'
      BY <1>5, <3>1
    <3> QED
      BY <2>1, <3>1, <3>2 DEF UsedOf
  <2>2. CASE Used + len < buflen
    BY <1>1, <1>4, <2>2 DEF UsedOf
  <2> QED
    BY <1>1, <2>1, <2>2
<1>8. NumLeft(buflen, rdidx, wridx', isfull') = buflen - (Used + len)
  BY <1>5, <1>6, <1>7, NumLeftIsFree
<1>9. Used' = buflen - NumLeft(buflen, rdidx, wridx', isfull')
  BY DEF Used
<1> QED
  BY <1>1, <1>8, <1>9

\* How far the slot of byte i is ahead of the write index.
LEMMA PutSlot ==
    ASSUME NEW n \in Nat \ {0}, NEW r \in 0..(n - 1), NEW u \in 0..n, NEW i \in 1..n
    PROVE  /\ Wrap(r + (i - 1), n) \in 0..(n - 1)
           /\ Wrap(Wrap(r + (i - 1), n) - Wrap(r + u, n), n)
                = IF i > u THEN i - 1 - u ELSE i - 1 - u + n
<1> DEFINE p == Wrap(r + (i - 1), n)
           w == Wrap(r + u, n)
<1>1. p = IF r + (i - 1) < n THEN r + (i - 1) ELSE r + (i - 1) - n
  BY WrapOnce
<1>2. w = IF r + u < n THEN r + u ELSE r + u - n
  BY WrapOnce
<1> HIDE DEF p, w
<1>3. p - w \in (0 - n)..(n - 1) /\ p \in 0..(n - 1)
  BY <1>1, <1>2
<1>4. Wrap(p - w, n) = IF p - w >= 0 THEN p - w ELSE p - w + n
  BY <1>3, WrapBack
<1>5. Wrap(p - w, n) = IF i > u THEN i - 1 - u ELSE i - 1 - u + n
  BY <1>1, <1>2, <1>4
<1> QED
  BY <1>3, <1>5 DEF p, w

\* The bytes in the fifo, one by one.
ContentsListed ==
    /\ Contents \in Seq(Byte) /\ Len(Contents) = Used
    /\ \A i \in 1..Used : Contents[i] = buf[Wrap(rdidx + (i - 1), buflen)]

LEMMA ContentsSeq == TypeOK /\ FullFlagAgrees => ContentsListed
<1> SUFFICES ASSUME TypeOK, FullFlagAgrees
             PROVE  ContentsListed
  OBVIOUS
<1> buflen \in Nat \ {0} /\ rdidx \in 0..(buflen - 1) /\ buflen <= MaxBufLen /\ MaxBufLen \in Nat
  BY BoundsAssumption DEF TypeOK
<1>1. Used \in 0..buflen
  BY WriteIsAhead DEF Counted
<1>2. ASSUME NEW i \in 1..Used
      PROVE  buf[Wrap(rdidx + (i - 1), buflen)] \in Byte
  <2>1. Wrap(rdidx + (i - 1), buflen) \in 0..(buflen - 1)
    BY WrapRange
  <2>2. Wrap(rdidx + (i - 1), buflen) \in 0..(MaxBufLen - 1)
    BY <2>1
  <2> QED
    BY <2>2 DEF TypeOK
<1> QED
  BY <1>1, <1>2 DEF Contents, ContentsListed

LEMMA SameItems ==
    ASSUME NEW S, NEW a \in Seq(S), NEW b \in Seq(S), Len(a) = Len(b),
           \A i \in 1..Len(a) : a[i] = b[i]
    PROVE  a = b
OBVIOUS

\* A put that succeeds appends its bytes, those before them unchanged.
LEMMA PutAppends ==
    ASSUME TypeOK, FullFlagAgrees, TypeOK', FullFlagAgrees',
           NEW s \in Seq(Byte), Len(s) \in 1..(buflen - Used),
           buf' = Stored(s), PutIndex(Len(s)), UNCHANGED <<buflen, rdidx>>
    PROVE  Contents' = Contents \o s
<1> DEFINE len == Len(s)
           Place(i) == Wrap(rdidx + (i - 1), buflen)
<1> buflen \in Nat \ {0} /\ rdidx \in 0..(buflen - 1) /\ buflen <= MaxBufLen /\ MaxBufLen \in Nat
  BY BoundsAssumption DEF TypeOK
<1>1. Used \in 0..buflen /\ wridx = Wrap(rdidx + Used, buflen)
  BY WriteIsAhead DEF Counted
<1>2. Used' = Used + len
  BY PutCounts
<1>3. /\ Contents \in Seq(Byte) /\ Len(Contents) = Used
      /\ \A i \in 1..Used : Contents[i] = buf[Place(i)]
  BY ContentsSeq DEF ContentsListed
<1>4. /\ Contents' \in Seq(Byte) /\ Len(Contents') = Used'
      /\ \A i \in 1..Used' : Contents'[i] = buf'[Wrap(rdidx' + (i - 1), buflen')]
  <2>1. ContentsListed'
    BY ContentsSeq, PTL
  <2> QED
    BY <2>1 DEF ContentsListed
<1>5. /\ Contents \o s \in Seq(Byte) /\ Len(Contents \o s) = Used + len
      /\ \A i \in 1..(Used + len) : (Contents \o s)[i] = IF i <= Used THEN Contents[i] ELSE s[i - Used]
  BY <1>3, ConcatProperties
<1>6. ASSUME NEW i \in 1..(Used + len)
      PROVE  Stored(s)[Place(i)] = IF i <= Used THEN buf[Place(i)] ELSE s[i - Used]
  <2> DEFINE ahead == Wrap(Place(i) - wridx, buflen)
  <2>1. Place(i) \in 0..(buflen - 1) /\ ahead = IF i > Used THEN i - 1 - Used ELSE i - 1 - Used + buflen
    <3>1. i \in 1..buflen
      BY <1>1
    <3> QED
      BY <1>1, <3>1, PutSlot
  <2>2. Place(i) \in DOMAIN buf
    BY <2>1 DEF TypeOK
  <2>3. Stored(s)[Place(i)] = IF Place(i) < buflen /\ ahead < len THEN s[ahead + 1] ELSE buf[Place(i)]
    BY <2>2 DEF Stored
  <2> HIDE DEF ahead, Place
  <2>4. CASE i <= Used
    BY <1>1, <2>1, <2>3, <2>4
  <2>5. CASE i > Used
    <3>1. ahead < len /\ ahead + 1 = i - Used /\ Place(i) < buflen
      BY <1>1, <2>1, <2>5
    <3> QED
      BY <2>3, <2>5, <3>1, <1>1
  <2> QED
    BY <1>1, <2>4, <2>5
<1>7. \A i \in 1..(Used + len) : Contents'[i] = (Contents \o s)[i]
  <2> TAKE i \in 1..(Used + len)
  <2>1. Contents'[i] = Stored(s)[Place(i)]
    BY <1>2, <1>4
  <2>2. CASE i <= Used
    <3>1. i \in 1..Used
      BY <1>1, <2>2
    <3> QED
      BY <1>3, <1>5, <1>6, <2>1, <2>2, <3>1
  <2>3. CASE i > Used
    <3>1. i \in (Used + 1)..(Used + len)
      BY <1>1, <2>3
    <3>2. i \in 1..(Used + len) /\ ~(i <= Used)
      BY <1>1, <3>1
    <3>3. (Contents \o s)[i] = s[i - Used]
      BY <1>5, <3>2, Zenon
    <3>4. Stored(s)[Place(i)] = s[i - Used]
      BY <1>6, <3>2, Zenon
    <3> QED
      BY <2>1, <3>3, <3>4, Zenon
  <2>4. i <= Used \/ i > Used
    BY <1>1
  <2> QED
    BY <2>2, <2>3, <2>4, Zenon
<1> QED
  BY ONLY <1>2, <1>4, <1>5, <1>7, SameItems

\* Reading on by len bytes leaves len bytes less.
LEMMA CountsDown ==
    ASSUME NEW n \in Nat \ {0}, NEW r \in 0..(n - 1), NEW r2 \in 0..(n - 1),
           NEW u \in 0..n, NEW u2 \in 0..(n - 1), NEW len \in 1..u,
           r2 = Wrap(r + len, n), Wrap(r + u, n) = Wrap(r2 + u2, n)
    PROVE  u2 = u - len
<1>1. r2 = IF r + len < n THEN r + len ELSE r + len - n
  BY WrapOnce
<1>2. Wrap(r + u, n) = IF r + u < n THEN r + u ELSE r + u - n
  BY WrapOnce
<1>3. Wrap(r2 + u2, n) = IF r2 + u2 < n THEN r2 + u2 ELSE r2 + u2 - n
  BY WrapOnce
<1> QED
  BY <1>1, <1>2, <1>3

LEMMA IsSeq ==
    ASSUME NEW S, NEW n \in Nat, NEW f \in [1..n -> S]
    PROVE  f \in Seq(S) /\ Len(f) = n
OBVIOUS

\* A get delivers the oldest bytes and leaves the others.
LEMMA GetTakes ==
    ASSUME TypeOK, FullFlagAgrees, TypeOK', FullFlagAgrees', NEW len \in 1..Used,
           out' = [i \in 1..len |-> buf[Wrap(rdidx + (i - 1), buflen)]],
           GetIndex(len), UNCHANGED <<buf, buflen, wridx>>
    PROVE  /\ out' = SubSeq(Contents, 1, len)
           /\ Contents' = SubSeq(Contents, len + 1, Len(Contents))
<1> buflen \in Nat \ {0} /\ rdidx \in 0..(buflen - 1) /\ rdidx' \in 0..(buflen - 1)
  BY BoundsAssumption DEF TypeOK
<1>1. Used \in 0..buflen /\ wridx = Wrap(rdidx + Used, buflen)
  BY WriteIsAhead DEF Counted
<1>2. Used' \in 0..buflen /\ wridx = Wrap(rdidx' + Used', buflen) /\ Used' # buflen
  <2>1. Counted'
    BY WriteIsAhead, PTL
  <2> QED
    BY <2>1 DEF Counted, GetIndex
<1>3. Used' = Used - len
  <2>1. rdidx' = Wrap(rdidx + len, buflen)
    BY DEF GetIndex
  <2>2. Used' \in 0..(buflen - 1)
    BY <1>2
  <2> QED
    BY <1>1, <1>2, <2>1, <2>2, CountsDown
<1>4. /\ Contents \in Seq(Byte) /\ Len(Contents) = Used
      /\ \A i \in 1..Used : Contents[i] = buf[Wrap(rdidx + (i - 1), buflen)]
  BY ContentsSeq DEF ContentsListed
<1>5. /\ Contents' \in Seq(Byte) /\ Len(Contents') = Used - len
      /\ \A i \in 1..(Used - len) : Contents'[i] = buf[Wrap(rdidx' + (i - 1), buflen)]
  <2>1. ContentsListed'
    BY ContentsSeq, PTL
  <2> QED
    BY <1>3, <2>1 DEF ContentsListed
<1>6. /\ SubSeq(Contents, len + 1, Used) \in Seq(Byte)
      /\ Len(SubSeq(Contents, len + 1, Used)) = Used - len
      /\ \A i \in 1..(Used - len) : SubSeq(Contents, len + 1, Used)[i] = Contents[len + i]
  BY <1>1, <1>4
<1>7. ASSUME NEW i \in 1..(Used - len)
      PROVE  Contents'[i] = SubSeq(Contents, len + 1, Used)[i]
  <2>1. rdidx' = Wrap(len + rdidx, buflen)
    BY <1>1 DEF GetIndex
  <2>2. Wrap(Wrap(len + rdidx, buflen) + (i - 1), buflen) = Wrap(len + rdidx + (i - 1), buflen)
    <3>1. len \in 0..buflen /\ i - 1 \in 0..buflen /\ len + rdidx + (i - 1) \in 0..(buflen + buflen - 1)
      BY <1>1
    <3> QED
      BY <3>1, WrapTwice
  <2>3. len + i \in 1..Used /\ len + rdidx + (i - 1) = rdidx + ((len + i) - 1)
    BY <1>1
  <2>4. Contents[len + i] = buf[Wrap(rdidx + ((len + i) - 1), buflen)]
    BY <1>4, <2>3
  <2> QED
    BY <1>5, <1>6, <2>1, <2>2, <2>3, <2>4
<1>8. out' = SubSeq(Contents, 1, len)
  <2>1. /\ SubSeq(Contents, 1, len) \in Seq(Byte) /\ Len(SubSeq(Contents, 1, len)) = len
        /\ \A i \in 1..len : SubSeq(Contents, 1, len)[i] = Contents[i]
    BY <1>1, <1>4
  <2>2. \A i \in 1..len : out'[i] = Contents[i]
    BY <1>1, <1>4
  <2>3. out' \in Seq(Byte) /\ Len(out') = len
    <3>1. \A i \in 1..len : i \in 1..Used /\ Contents[i] \in Byte
      BY <1>1, <1>4
    <3>2. out' \in [1..len -> Byte]
      BY <2>2, <3>1
    <3>3. len \in Nat
      BY <1>1
    <3> QED
      BY <3>2, <3>3, IsSeq
  <2> QED
    BY ONLY <2>1, <2>2, <2>3, SameItems
<1>9. Contents' = SubSeq(Contents, len + 1, Used)
  BY ONLY <1>5, <1>6, <1>7, SameItems
<1> QED
  BY <1>4, <1>8, <1>9

\* Nothing that Contents is made of moves when a call is refused.
LEMMA RefusedKeeps ==
    ASSUME NEW code, Refuse(code)
    PROVE  ABS!Refuse(code)
BY DEF Refuse, ABS!Refuse, Contents, Used, index

\* The bytes given to a put are a sequence.
LEMMA InputSeq ==
    ASSUME NEW s \in Inputs, s # NULL, MinPut # 0
    PROVE  /\ s \in Seq(Byte) /\ Len(s) \in Nat \ {0}
           /\ \E k \in 0..MaxLen : s \in [1..k -> Byte]
<1>1. s \in UNION {[1..k -> Byte] : k \in MinPut..MaxLen}
  BY DEF Inputs
<1>2. PICK k \in MinPut..MaxLen : s \in [1..k -> Byte]
  BY <1>1, Zenon
<1>3. k \in Nat \ {0} /\ k \in 0..MaxLen
  BY BoundsAssumption
<1> QED
  BY <1>2, <1>3, IsSeq

\* sk_bfifo_put is the abstract Put.
LEMMA PutMaps ==
    ASSUME TypeOK, FullFlagAgrees, TypeOK', FullFlagAgrees', MinPut # 0,
           NEW s \in Inputs, Put(s)
    PROVE  /\ \E k \in 0..MaxLen : \E t \in [1..k -> Byte] : ABS!Put(t)
           /\ Contents' = IF ret' = EOK THEN Contents \o s ELSE Contents
<1>1. CASE s = NULL
  <2>1. Refuse(EUNKNOWN) /\ call' = "put"
    BY <1>1 DEF Put
  <2>2. ABS!Put(<<>>)
    BY <2>1, RefusedKeeps DEF ABS!Put
  <2>3. <<>> \in [1..0 -> Byte] /\ 0 \in 0..MaxLen
    BY BoundsAssumption
  <2>4. ret' # EOK /\ Contents' = Contents
    BY <2>1, RefusedKeeps DEF Refuse, ABS!Refuse, EOK, EUNKNOWN
  <2> QED
    BY <2>2, <2>3, <2>4
<1>2. CASE s # NULL
  <2>1. s \in Seq(Byte) /\ Len(s) \in Nat \ {0} /\ \E k \in 0..MaxLen : s \in [1..k -> Byte]
    BY <1>2, InputSeq
  <2>2. /\ Used \in 0..buflen /\ NumLeft(buflen, rdidx, wridx, isfull) = buflen - Used
        /\ Len(Contents) = Used /\ buflen \in Nat
    BY WriteIsAhead, ContentsSeq, BoundsAssumption DEF Counted, ContentsListed, TypeOK
  <2>3. CASE Len(s) > buflen /\ Refuse(ERANGE) /\ call' = "put"
    BY <2>1, <2>3, RefusedKeeps DEF Refuse, ABS!Refuse, ABS!Put, EOK, ERANGE
  <2>4. CASE /\ Len(s) <= buflen /\ NumLeft(buflen, rdidx, wridx, isfull) < Len(s)
             /\ Refuse(EFULL) /\ call' = "put"
    BY <2>1, <2>2, <2>4, RefusedKeeps DEF Refuse, ABS!Refuse, ABS!Put, EOK, EFULL
  <2>5. CASE /\ Len(s) <= buflen /\ NumLeft(buflen, rdidx, wridx, isfull) >= Len(s)
             /\ buf' = Stored(s) /\ PutIndex(Len(s)) /\ ret' = EOK /\ out' = <<>>
             /\ UNCHANGED <<buflen, rdidx>> /\ call' = "put"
    <3>1. Contents' = Contents \o s
      BY <2>1, <2>2, <2>5, PutAppends
    <3>2. ABS!Put(s)
      BY <2>1, <2>2, <2>5, <3>1 DEF ABS!Put
    <3> QED
      BY <2>1, <2>5, <3>1, <3>2
  <2> QED
    BY <1>2, <2>3, <2>4, <2>5 DEF Put
<1> QED
  BY <1>1, <1>2

\* sk_bfifo_get is the abstract Get.
LEMMA GetMaps ==
    ASSUME TypeOK, FullFlagAgrees, TypeOK', FullFlagAgrees',
           NEW b \in Pointer, NEW n \in 0..MaxLen, Get(b, n)
    PROVE  ABS!Get(n)
<1>1. /\ Used \in 0..buflen /\ Len(Contents) = Used /\ Contents \in Seq(Byte)
      /\ buflen \in Nat /\ n \in Nat
  BY WriteIsAhead, ContentsSeq, BoundsAssumption DEF Counted, ContentsListed, TypeOK
<1>2. CASE call' = "get" /\ (Refuse(EUNKNOWN) \/ (n = 0 /\ Refuse(0)))
  BY <1>2, RefusedKeeps DEF ABS!Get
<1>3. CASE call' = "get" /\ n > 0 /\ Used = 0 /\ Refuse(EEMPTY)
  <2>1. Contents = <<>>
    BY <1>1, <1>3
  <2> QED
    BY <1>3, <2>1, RefusedKeeps DEF ABS!Get
<1>4. CASE b # NULL /\ n > 0 /\ Used > 0
  <2> DEFINE len == IF n > Used THEN Used ELSE n
  <2>1. /\ out' = [i \in 1..len |-> buf[Wrap(rdidx + (i - 1), buflen)]]
        /\ GetIndex(len) /\ ret' = len /\ UNCHANGED <<buf, buflen, wridx>> /\ call' = "get"
    BY <1>1, <1>4 DEF Get
  <2>2. /\ len \in 1..Used /\ len \in 1..n
        /\ len = IF n < Len(Contents) THEN n ELSE Len(Contents)
    BY <1>1, <1>4
  <2> HIDE DEF len
  <2>3. /\ out' = SubSeq(Contents, 1, len)
        /\ Contents' = SubSeq(Contents, len + 1, Len(Contents))
    BY <2>1, <2>2, GetTakes
  <2> QED
    BY <2>1, <2>2, <2>3 DEF ABS!Get
<1>5. /\ call' = "get"
      /\ \/ Refuse(EUNKNOWN)
         \/ n = 0 /\ Refuse(0)
         \/ n > 0 /\ Used = 0 /\ Refuse(EEMPTY)
         \/ b # NULL /\ n > 0 /\ Used > 0
  BY Zenon DEF Get
<1> QED
  BY <1>2, <1>3, <1>4, <1>5

\* sk_bfifo_init is the abstract Reset.
LEMMA InitMaps ==
    ASSUME TypeOK', FullFlagAgrees', NEW b \in Pointer, NEW n \in 0..MaxBufLen, Reinit(b, n)
    PROVE  ABS!Reset(n)
<1>1. CASE Refuse(EWRONGARG) /\ call' = "init"
  BY <1>1, RefusedKeeps DEF ABS!Reset
<1>2. CASE n # 0 /\ Fresh(n) /\ ret' = EOK /\ out' = <<>> /\ call' = "init"
  <2>1. Counted' /\ ContentsListed'
    BY WriteIsAhead, ContentsSeq, PTL
  <2>2. buflen' = n /\ rdidx' = 0 /\ wridx' = 0 /\ ~isfull' /\ n \in Nat \ {0}
    BY <1>2, BoundsAssumption DEF Fresh
  <2>3. Used' = 0
    <3>1. Used' \in 0..n /\ 0 = Wrap(0 + Used', n) /\ Used' # n
      BY <2>1, <2>2 DEF Counted
    <3> QED
      BY <2>2, <3>1, WrapOnce
  <2>4. Contents' = <<>>
    BY <2>1, <2>3 DEF ContentsListed
  <2> QED
    BY <1>2, <2>2, <2>4 DEF ABS!Reset
<1> QED
  BY <1>1, <1>2 DEF Reinit

\* The byte FIFO of sync.c implements a bounded queue of bytes, for every buffer
\* length and every length put (at least one) and asked for.
THEOREM FifoIsQueue ==
    ASSUME MinPut # 0
    PROVE  Spec => QueueSpec
<1>1. Init => ABS!Init
  <2> SUFFICES ASSUME Init
               PROVE  ABS!Init
    OBVIOUS
  <2>1. TypeOK /\ FullFlagAgrees
    BY SafeInit
  <2>2. Counted /\ ContentsListed
    BY <2>1, WriteIsAhead, ContentsSeq
  <2>3. buflen \in Nat \ {0}
    BY BoundsAssumption DEF Init
  <2>4. Used = 0
    <3>1. Used \in 0..buflen /\ 0 = Wrap(0 + Used, buflen) /\ Used # buflen
      BY <2>2 DEF Counted, Init
    <3> QED
      BY <2>3, <3>1, WrapOnce
  <2>5. Contents = <<>>
    BY <2>2, <2>4 DEF ContentsListed
  <2> QED
    BY <2>3, <2>5 DEF Init, ABS!Init
<1>2. TypeOK /\ FullFlagAgrees /\ TypeOK' /\ FullFlagAgrees' /\ [Next]_vars
        => [ABS!Next]_(ABS!vars)
  <2> SUFFICES ASSUME TypeOK, FullFlagAgrees, TypeOK', FullFlagAgrees', [Next]_vars
               PROVE  [ABS!Next]_(ABS!vars)
    OBVIOUS
  <2>1. CASE \E b \in Pointer, n \in 0..MaxBufLen : Reinit(b, n)
    BY <2>1, InitMaps DEF ABS!Next
  <2>2. CASE \E s \in Inputs : Put(s)
    BY <2>2, PutMaps DEF ABS!Next
  <2>3. CASE \E b \in Pointer, n \in 0..MaxLen : Get(b, n)
    BY <2>3, GetMaps DEF ABS!Next
  <2>4. CASE UNCHANGED vars
    BY <2>4 DEF vars, ABS!vars, Contents, Used
  <2> QED
    BY <2>1, <2>2, <2>3, <2>4 DEF Next
<1> QED
  BY IndexesInside, FlagAgreement, <1>1, <1>2, PTL DEF Spec, QueueSpec, ABS!Spec

\* Every put of at least one byte stores all of its bytes behind those that are
\* there, or, when it reports an error, none.
THEOREM PutsAllOrNothing ==
    ASSUME MinPut # 0
    PROVE  Spec => AllOrNothing
<1>1. TypeOK /\ FullFlagAgrees /\ TypeOK' /\ FullFlagAgrees'
        => \A s \in Inputs : Put(s) =>
              Contents' = IF ret' = EOK THEN Contents \o s ELSE Contents
  BY PutMaps
<1> QED
  BY IndexesInside, FlagAgreement, <1>1, PTL DEF AllOrNothing

=============================================================================
