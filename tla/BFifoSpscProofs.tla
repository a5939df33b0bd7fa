--------------------------- MODULE BFifoSpscProofs ---------------------------
(* The byte FIFO between one producer and one consumer, in every order of    *)
(* their accesses, for buffers of every length and any bytes put, used as it *)
(* can be used: a byte of the buffer kept free, or every call under a lock.  *)
EXTENDS BFifoSpsc, SequenceTheorems, TLAPS

\* The two ways to use the fifo from two contexts.
SafeUse == \A r \in Regimes : r.slack >= 1 \/ r.who = "exclusive"

-----------------------------------------------------------------------------
(* The invariant. *)

\* The bytes between the indexes, and those the put under way has stored behind.
Filled == sent - freed
Stored == IF ppc = "copy" THEN pi ELSE IF ppc \in {"compare", "flag", "index"} THEN plen ELSE 0
\* The bytes the get under way has copied out of slots it has not given back.
Taken == IF cpc \in {"copy", "index"} THEN ci ELSE 0

Typed ==
    /\ regime \in Regimes
    /\ buf \in [0..(BufLen - 1) -> Nat] /\ rdidx \in 0..(BufLen - 1)
    /\ isfull \in BOOLEAN
    /\ ppc \in {"idle", "left", "full", "copy", "compare", "flag", "index"}
    /\ cpc \in {"idle", "used", "full", "copy", "index", "clear"}
    /\ plen \in Nat /\ pi \in Nat /\ clen \in Nat /\ ci \in Nat
    /\ sent \in Nat /\ freed \in Nat /\ got \in Seq(Nat)

\* Where each call is in its loop.
InLoops ==
    /\ ppc # "idle" => plen \in 1..BufLen
    /\ ppc \in {"left", "full"} => pi = 0
    /\ ppc = "copy" => pi < plen
    /\ cpc # "idle" => clen > 0
    /\ cpc \in {"used", "full"} => ci = 0
    /\ cpc = "copy" => ci < clen
    /\ cpc = "index" => ci = clen
    /\ cpc \in {"copy", "index"} => clen <= Filled

\* One of them waits for the other, or a slot stays free.
Apart ==
    \/ regime.who = "exclusive" /\ (ppc = "idle" \/ cpc = "idle")
    \/ /\ regime.slack >= 1 /\ ~isfull /\ Filled < BufLen
       /\ ppc # "idle" => Filled + plen < BufLen

FlagAgrees ==
    /\ Filled \in 0..BufLen
    /\ ppc \in {"copy", "compare", "flag", "index"} => Filled + plen <= BufLen
    /\ ppc = "flag" => Filled + plen = BufLen
    /\ ppc = "index" => (isfull <=> Filled + plen = BufLen)
    /\ ppc # "index" /\ cpc # "clear" => (isfull <=> Filled = BufLen)
    /\ cpc = "clear" => Filled < BufLen

Numbered ==
    /\ wridx = Slot(rdidx + Filled)
    /\ \A i \in 0..(BufLen - 1) : i < Filled + Stored => buf[Slot(rdidx + i)] = freed + i + 1

Ordered == Len(got) = freed + Taken /\ InOrder

IInv == Typed /\ InLoops /\ Apart /\ FlagAgrees /\ Numbered /\ Ordered

-----------------------------------------------------------------------------
(* The ring: every sum that is wrapped is below twice the length. *)

LEMMA WrapOnce ==
    ASSUME NEW n \in Nat \ {0}, NEW i \in 0..(n + n - 1)
    PROVE  Wrap(i, n) = IF i < n THEN i ELSE i - n
BY DEF Wrap

LEMMA WrapInside ==
    ASSUME NEW n \in Nat \ {0}, NEW i \in Nat
    PROVE  Wrap(i, n) \in 0..(n - 1)
BY DEF Wrap

\* Places ahead of a place ahead of r.
LEMMA WrapTwice ==
    ASSUME NEW n \in Nat \ {0}, NEW r \in 0..(n - 1), NEW a \in 0..n, NEW b \in 0..n,
           a + b <= n
    PROVE  Wrap(Wrap(r + a, n) + b, n) = Wrap(r + (a + b), n)
<1>1. Wrap(r + a, n) = IF r + a < n THEN r + a ELSE r + a - n
  BY WrapOnce
<1>2. Wrap(r + (a + b), n) = IF r + (a + b) < n THEN r + (a + b) ELSE r + (a + b) - n
  BY WrapOnce
<1>3. CASE r + a < n
  BY <1>1, <1>3
<1>4. CASE r + a >= n
  <2>1. Wrap(r + a, n) + b = r + (a + b) - n /\ r + (a + b) - n \in 0..(n - 1)
    BY <1>1, <1>4
  <2>2. Wrap(r + (a + b) - n, n) = r + (a + b) - n
    BY <2>1, WrapOnce
  <2> QED
    BY <1>2, <1>4, <2>1, <2>2
<1> QED
  BY <1>3, <1>4

\* Different places within one lap are different slots.
LEMMA WrapApart ==
    ASSUME NEW n \in Nat \ {0}, NEW r \in 0..(n - 1),
           NEW a \in 0..(n - 1), NEW b \in 0..(n - 1), a # b
    PROVE  Wrap(r + a, n) # Wrap(r + b, n)
<1>1. Wrap(r + a, n) = IF r + a < n THEN r + a ELSE r + a - n
  BY WrapOnce
<1>2. Wrap(r + b, n) = IF r + b < n THEN r + b ELSE r + b - n
  BY WrapOnce
<1> QED
  BY <1>1, <1>2

\* The indexes are equal when nothing or a whole lap is between them.
LEMMA WrapMeets ==
    ASSUME NEW n \in Nat \ {0}, NEW r \in 0..(n - 1), NEW u \in 0..n
    PROVE  Wrap(r + u, n) = r <=> u = 0 \/ u = n
<1>1. Wrap(r + u, n) = IF r + u < n THEN r + u ELSE r + u - n
  BY WrapOnce
<1> QED
  BY <1>1

\* What _sk_bfifo_numleft makes of indexes u bytes apart, if the flag is right.
LEMMA NumLeftRight ==
    ASSUME NEW n \in Nat \ {0}, NEW r \in 0..(n - 1), NEW u \in 0..n,
           NEW full \in BOOLEAN, full <=> u = n
    PROVE  NumLeft(n, r, Wrap(r + u, n), full) = n - u
<1> DEFINE w == Wrap(r + u, n)
<1>1. w = IF r + u < n THEN r + u ELSE r + u - n
  BY WrapOnce
<1> HIDE DEF w
<1> DEFINE d == (n - w) + r
<1>2. d \in 0..(n + n - 1)
  BY <1>1
<1>3. Wrap(d, n) = IF d < n THEN d ELSE d - n
  BY <1>2, WrapOnce
<1>4. Wrap(d, n) = IF u = 0 \/ u = n THEN 0 ELSE n - u
  BY <1>1, <1>3
<1>5. ASSUME u = n PROVE NumLeft(n, r, w, full) = n - u
  BY <1>4, <1>5 DEF NumLeft
<1>6. ASSUME u # n PROVE NumLeft(n, r, w, full) = n - u
  BY <1>4, <1>6 DEF NumLeft
<1>7. NumLeft(n, r, w, full) = n - u
  BY <1>5, <1>6
<1> QED
  BY <1>7 DEF w

-----------------------------------------------------------------------------

LEMMA InitInv == SafeUse /\ Init => IInv
<1> SUFFICES ASSUME SafeUse, Init
             PROVE  IInv
  OBVIOUS
<1> BufLen \in Nat \ {0}
  BY BufAssumption
<1>1. Typed
  <2>1. buf \in [0..(BufLen - 1) -> Nat] /\ 0 \in 0..(BufLen - 1) /\ <<>> \in Seq(Nat)
    BY DEF Init
  <2> QED
    BY <2>1 DEF Init, Typed
<1>2. Filled = 0 /\ Stored = 0 /\ Taken = 0
  BY DEF Init, Filled, Stored, Taken
<1>3. regime.who = "exclusive" \/ regime.slack >= 1
  BY DEF Init, SafeUse
<1>4. Apart /\ FlagAgrees /\ InLoops
  BY <1>2, <1>3 DEF Init, Apart, FlagAgrees, InLoops
<1>5. Slot(rdidx + Filled) = 0
  BY <1>2, WrapOnce DEF Init, Slot
<1>6. Numbered
  BY <1>2, <1>5 DEF Init, Numbered
<1>7. Ordered
  BY <1>2 DEF Init, Ordered, InOrder
<1> QED
  BY <1>1, <1>4, <1>6, <1>7 DEF IInv

\* What the two calls compute from the indexes, between their steps.
LEMMA Indexes ==
    ASSUME IInv
    PROVE  /\ BufLen \in Nat \ {0} /\ rdidx \in 0..(BufLen - 1) /\ Filled \in 0..BufLen
           /\ wridx = Wrap(rdidx + Filled, BufLen) /\ wridx \in 0..(BufLen - 1)
           /\ rdidx = wridx <=> Filled = 0 \/ Filled = BufLen
           /\ \A full \in BOOLEAN :
                 (full <=> Filled = BufLen) => Left(full) = BufLen - Filled
<1>1. BufLen \in Nat \ {0} /\ rdidx \in 0..(BufLen - 1) /\ Filled \in 0..BufLen
  BY BufAssumption DEF IInv, Typed, FlagAgrees
<1>2. wridx = Wrap(rdidx + Filled, BufLen)
  BY DEF IInv, Numbered, Slot
<1>3. wridx \in 0..(BufLen - 1)
  BY <1>1, <1>2, WrapInside
<1>4. rdidx = wridx <=> Filled = 0 \/ Filled = BufLen
  BY <1>1, <1>2, WrapMeets
<1>5. ASSUME NEW full \in BOOLEAN, full <=> Filled = BufLen
      PROVE  Left(full) = BufLen - Filled
  BY <1>1, <1>2, <1>5, NumLeftRight DEF Left
<1> QED
  BY <1>1, <1>2, <1>3, <1>4, <1>5

\* What the fifo holds stays numbered while nothing of it moves.
LEMMA SameNumbers ==
    ASSUME Numbered, UNCHANGED <<shared, sent, freed>>, Stored' = Stored
    PROVE  Numbered'
BY DEF Numbered, Filled, Stored, Slot, shared

\* The steps of put.
LEMMA PutStep ==
    ASSUME IInv, Producer, UNCHANGED regime
    PROVE  IInv'
<1> USE DEF pvars, cvars, shared
<1>0. /\ BufLen \in Nat \ {0} /\ rdidx \in 0..(BufLen - 1) /\ Filled \in 0..BufLen
      /\ wridx = Wrap(rdidx + Filled, BufLen) /\ wridx \in 0..(BufLen - 1)
      /\ rdidx = wridx <=> Filled = 0 \/ Filled = BufLen
      /\ \A full \in BOOLEAN : (full <=> Filled = BufLen) => Left(full) = BufLen - Filled
  BY Indexes
<1>1. ASSUME UNCHANGED <<cvars, buf, rdidx, wridx, sent>>, Stored' = Stored,
             isfull' = isfull, Typed', InLoops', Apart', FlagAgrees'
      PROVE  IInv'
  <2>1. Ordered'
    BY <1>1 DEF IInv, Ordered, InOrder, Taken
  <2> QED
    BY <1>1, <2>1, SameNumbers DEF IInv
<1>2. ASSUME NEW n \in 1..MaxChunk, PStart(n)
      PROVE  IInv'
  <2>1. Filled' = Filled /\ Stored' = Stored
    BY <1>2 DEF PStart, Filled, Stored
  <2>2. Typed' /\ InLoops'
    BY <1>0, <1>2, <2>1, BufAssumption DEF IInv, Typed, InLoops, PStart
  <2>3. FlagAgrees'
    BY <1>2, <2>1 DEF IInv, FlagAgrees, PStart
  <2>4. Apart'
    <3>1. regime.slack \in 0..BufLen
      BY RegimeAssumption DEF IInv, Typed
    <3>2. CASE regime.who = "exclusive" /\ (ppc = "idle" \/ cpc = "idle")
      BY <1>2, <3>2 DEF Apart, PStart, ProducerRuns
    <3>3. CASE /\ regime.slack >= 1 /\ ~isfull /\ Filled < BufLen
               /\ ppc # "idle" => Filled + plen < BufLen
      <4>1. (sent - freed) + n <= BufLen - regime.slack
        BY <1>2, <3>1, <3>3 DEF PStart
      <4>2. Filled' + plen' < BufLen
        BY <1>0, <1>2, <2>1, <3>1, <3>3, <4>1 DEF PStart, Filled
      <4> QED
        BY <1>2, <2>1, <3>3, <4>2 DEF Apart, PStart
    <3> QED
      BY <3>2, <3>3 DEF IInv, Apart
  <2> QED
    BY <1>1, <1>2, <2>1, <2>2, <2>3, <2>4 DEF PStart
<1>3. ASSUME NEW full \in BOOLEAN, ppc \in {"left", "full"}, PDecide(Left(full)),
             full <=> Filled = BufLen,
             UNCHANGED <<shared, plen, pi, sent, cvars>>
      PROVE  IInv'
  <2>1. Left(full) = BufLen - Filled
    BY <1>0, <1>3
  <2>2. plen \in 1..BufLen /\ pi = 0
    BY <1>3 DEF IInv, InLoops
  <2>3. Filled' = Filled /\ Stored' = Stored
    BY <1>3, <2>2 DEF PDecide, Filled, Stored
  <2>4. ppc' = IF BufLen - Filled < plen THEN "idle" ELSE "copy"
    BY <1>3, <2>1 DEF PDecide
  <2>5. Typed' /\ InLoops'
    BY <1>3, <2>2, <2>3, <2>4 DEF IInv, Typed, InLoops
  <2>6. FlagAgrees'
    BY <1>0, <1>3, <2>2, <2>3, <2>4 DEF IInv, FlagAgrees
  <2>7. Apart'
    BY <1>3, <2>3, <2>4 DEF IInv, Apart
  <2> QED
    BY <1>1, <1>3, <2>3, <2>5, <2>6, <2>7
<1>4. CASE PLeft
  <2>1. CASE rdidx = wridx
    <3>1. Filled' = Filled /\ Stored' = Stored
      BY <1>4, <2>1 DEF PLeft, Filled, Stored
    <3>2. Typed' /\ InLoops' /\ FlagAgrees' /\ Apart'
      BY <1>4, <2>1, <3>1 DEF IInv, Typed, InLoops, FlagAgrees, Apart, PLeft
    <3> QED
      BY <1>1, <1>4, <3>1, <3>2 DEF PLeft
  <2>2. CASE rdidx # wridx
    BY <1>0, <1>3, <1>4, <2>2 DEF PLeft
  <2> QED
    BY <2>1, <2>2
<1>5. CASE PFull
  <2>1. isfull \in BOOLEAN /\ (isfull <=> Filled = BufLen)
    BY <1>5 DEF IInv, Typed, Apart, FlagAgrees, PFull
  <2> QED
    BY <1>3, <1>5, <2>1 DEF PFull
<1>6. CASE PCopy
  <2>1. /\ pi \in Nat /\ plen \in Nat /\ pi < plen /\ Filled + plen <= BufLen
        /\ Stored = pi /\ sent \in Nat /\ freed \in Nat /\ sent = freed + Filled
    BY <1>6 DEF IInv, Typed, InLoops, FlagAgrees, PCopy, Stored, Filled
  <2>2. Filled' = Filled /\ Stored' = Stored + 1
    BY <1>6, <2>1 DEF PCopy, Filled, Stored
  <2>3. Slot(wridx + pi) = Wrap(rdidx + (Filled + pi), BufLen)
    <3>1. pi \in 0..BufLen /\ Filled + pi <= BufLen
      BY <1>0, <2>1
    <3>2. Wrap(Wrap(rdidx + Filled, BufLen) + pi, BufLen) = Wrap(rdidx + (Filled + pi), BufLen)
      BY ONLY <1>0, <3>1, WrapTwice
    <3> QED
      BY <1>0, <3>2 DEF Slot
  <2>4. Slot(wridx + pi) \in 0..(BufLen - 1)
    BY <1>0, <2>1, <2>3, WrapInside
  <2>5. Typed'
    BY <1>6, <2>1, <2>4 DEF IInv, Typed, PCopy
  <2>6. InLoops' /\ FlagAgrees' /\ Apart'
    BY <1>6, <2>1, <2>2 DEF IInv, InLoops, FlagAgrees, Apart, PCopy
  <2>7. Ordered'
    BY <1>6 DEF IInv, Ordered, InOrder, Taken, PCopy
  <2>8. ASSUME NEW i \in 0..(BufLen - 1), i < Filled' + Stored'
        PROVE  buf'[Slot(rdidx + i)] = freed + i + 1
    <3>1. Slot(rdidx + i) \in 0..(BufLen - 1)
      BY <1>0, WrapInside DEF Slot
    <3>2. buf'[Slot(rdidx + i)]
            = IF Slot(rdidx + i) = Slot(wridx + pi) THEN sent + pi + 1 ELSE buf[Slot(rdidx + i)]
      BY <1>6, <3>1 DEF PCopy, IInv, Typed
    <3>3. CASE i = Filled + pi
      BY <1>0, <2>1, <2>3, <3>2, <3>3 DEF Slot
    <3>4. CASE i # Filled + pi
      <4>1. Filled + pi \in 0..(BufLen - 1) /\ i < Filled + Stored
        BY <1>0, <2>1, <2>2, <2>8, <3>4
      <4>2. Slot(rdidx + i) # Slot(wridx + pi)
        <5>1. /\ rdidx \in 0..(BufLen - 1) /\ BufLen \in Nat \ {0} /\ i # Filled + pi
              /\ i \in 0..(BufLen - 1) /\ Filled + pi \in 0..(BufLen - 1)
          BY <1>0, <3>4, <4>1
        <5>2. Wrap(rdidx + i, BufLen) # Wrap(rdidx + (Filled + pi), BufLen)
          BY ONLY <5>1, WrapApart
        <5> QED
          BY <2>3, <5>2 DEF Slot
      <4> QED
        BY <3>2, <4>1, <4>2 DEF IInv, Numbered
    <3> QED
      BY <3>3, <3>4
  <2>9. Numbered'
    BY <1>6, <2>2, <2>8 DEF IInv, Numbered, PCopy, Slot
  <2> QED
    BY <2>5, <2>6, <2>7, <2>9 DEF IInv
<1>7. ASSUME ppc \in {"compare", "flag", "index"}
      PROVE  /\ plen \in 1..BufLen /\ Filled + plen <= BufLen /\ Stored = plen
             /\ NewWr = Wrap(rdidx + (Filled + plen), BufLen)
             /\ NewWr = rdidx <=> Filled + plen = BufLen
  <2>1. plen \in 1..BufLen /\ Filled + plen <= BufLen /\ Stored = plen
    BY <1>7 DEF IInv, InLoops, FlagAgrees, Stored
  <2>2. NewWr = Wrap(rdidx + (Filled + plen), BufLen)
    <3>1. plen \in 0..BufLen /\ Filled + plen <= BufLen
      BY <1>0, <2>1
    <3>2. Wrap(Wrap(rdidx + Filled, BufLen) + plen, BufLen) = Wrap(rdidx + (Filled + plen), BufLen)
      BY ONLY <1>0, <3>1, WrapTwice
    <3> QED
      BY <1>0, <3>2 DEF NewWr, Slot
  <2>3. Filled + plen \in 1..BufLen
    BY <1>0, <2>1
  <2>4. NewWr = rdidx <=> Filled + plen = BufLen
    <3> DEFINE u == Filled + plen
    <3>1. u \in 0..BufLen /\ u # 0 /\ NewWr = Wrap(rdidx + u, BufLen)
      BY <2>2, <2>3
    <3> HIDE DEF u
    <3>2. NewWr = rdidx <=> u = BufLen
      <4>1. /\ BufLen \in Nat \ {0} /\ rdidx \in 0..(BufLen - 1) /\ u \in 0..BufLen
            /\ Wrap(rdidx + u, BufLen) = rdidx <=> u = 0 \/ u = BufLen
        BY <1>0, <3>1, WrapMeets
      <4> QED
        BY ONLY <3>1, <4>1
    <3> QED
      BY <3>2 DEF u
  <2> QED
    BY <2>1, <2>2, <2>4
<1>8. CASE PCompare
  <2>1. /\ Filled' = Filled /\ Stored' = Stored
        /\ ppc' = IF Filled + plen = BufLen THEN "flag" ELSE "index"
    BY <1>7, <1>8 DEF PCompare, Filled, Stored
  <2>2. Typed' /\ InLoops' /\ FlagAgrees' /\ Apart'
    <3>1. Typed' /\ InLoops'
      BY <1>7, <1>8, <2>1 DEF IInv, Typed, InLoops, PCompare
    <3>2. FlagAgrees'
      BY <1>0, <1>7, <1>8, <2>1, SMTT(30) DEF IInv, Typed, FlagAgrees, PCompare
    <3>3. Apart'
      BY <1>7, <1>8, <2>1 DEF IInv, Typed, Apart, PCompare
    <3> QED
      BY <3>1, <3>2, <3>3
  <2> QED
    BY <1>1, <1>8, <2>1, <2>2 DEF PCompare
<1>9. CASE PFlag
  <2>1. Filled' = Filled /\ Stored' = Stored
    BY <1>9 DEF PFlag, Filled, Stored
  <2>2. Typed' /\ InLoops' /\ FlagAgrees' /\ Apart'
    <3>1. Typed' /\ InLoops'
      BY <1>7, <1>9, <2>1 DEF IInv, Typed, InLoops, PFlag
    <3>2. FlagAgrees'
      BY <1>0, <1>7, <1>9, <2>1 DEF IInv, Typed, FlagAgrees, PFlag
    <3>3. Apart'
      <4>1. Filled + plen = BufLen /\ ppc = "flag"
        BY <1>9 DEF IInv, FlagAgrees, PFlag
      <4>2. regime.who = "exclusive" /\ cpc = "idle"
        BY <1>7, <4>1, BufAssumption DEF IInv, Apart
      <4> QED
        BY <1>9, <4>2 DEF Apart, PFlag, cvars
    <3> QED
      BY <3>1, <3>2, <3>3
  <2>3. Ordered'
    BY <1>9 DEF IInv, Ordered, InOrder, Taken, PFlag
  <2>4. Numbered'
    BY <1>9, <2>1 DEF IInv, Numbered, PFlag, Slot
  <2> QED
    BY <2>2, <2>3, <2>4 DEF IInv
<1>10. CASE PIndex
  <2>1. Filled' = Filled + plen /\ Stored' = 0 /\ wridx' = NewWr /\ sent' = sent + plen /\ Stored = plen
    BY <1>7, <1>10 DEF PIndex, Filled, Stored, IInv, Typed
  <2>2. NewWr \in 0..(BufLen - 1)
    BY <1>0, <1>7, <1>10, WrapInside DEF PIndex
  <2>3. Typed' /\ InLoops' /\ FlagAgrees' /\ Apart'
    <3>1. /\ ppc = "index" /\ ppc' = "idle" /\ UNCHANGED <<buf, rdidx, isfull, plen, pi, cvars>>
          /\ plen \in 1..BufLen /\ Filled + plen <= BufLen
      BY <1>7, <1>10 DEF PIndex
    <3>2. Typed'
      BY <2>1, <2>2, <3>1 DEF IInv, Typed
    <3>3. InLoops'
      BY <1>0, <2>1, <3>1 DEF IInv, Typed, InLoops
    <3>4. FlagAgrees'
      BY <1>0, <2>1, <3>1 DEF IInv, FlagAgrees, Apart
    <3>5. Apart'
      BY <2>1, <3>1 DEF IInv, Apart
    <3> QED
      BY <3>2, <3>3, <3>4, <3>5
  <2>4. Ordered'
    BY <1>10 DEF IInv, Ordered, InOrder, Taken, PIndex
  <2>5. Numbered'
    BY <1>0, <1>7, <1>10, <2>1 DEF IInv, Numbered, PIndex, Slot
  <2> QED
    BY <2>3, <2>4, <2>5 DEF IInv
<1> QED
  BY <1>2, <1>4, <1>5, <1>6, <1>8, <1>9, <1>10 DEF Producer

\* The steps of get.
LEMMA GetStep ==
    ASSUME IInv, Consumer, UNCHANGED regime
    PROVE  IInv'
<1> USE DEF pvars, cvars, shared
<1>0. /\ BufLen \in Nat \ {0} /\ rdidx \in 0..(BufLen - 1) /\ Filled \in 0..BufLen
      /\ wridx = Wrap(rdidx + Filled, BufLen) /\ wridx \in 0..(BufLen - 1)
      /\ rdidx = wridx <=> Filled = 0 \/ Filled = BufLen
      /\ \A full \in BOOLEAN : (full <=> Filled = BufLen) => Left(full) = BufLen - Filled
  BY Indexes
<1>1. ASSUME UNCHANGED <<pvars, shared, freed, got>>, Taken = 0, Taken' = 0,
             Typed', InLoops', Apart', FlagAgrees'
      PROVE  IInv'
  <2>1. Ordered'
    BY <1>1 DEF IInv, Ordered, InOrder
  <2>2. Stored' = Stored
    BY <1>1 DEF Stored
  <2> QED
    BY <1>1, <2>1, <2>2, SameNumbers DEF IInv
<1>2. ASSUME NEW n \in 1..MaxChunk, CStart(n)
      PROVE  IInv'
  <2>1. Filled' = Filled /\ Taken = 0 /\ Taken' = 0
    BY <1>2 DEF CStart, Filled, Taken
  <2>2. Typed' /\ InLoops' /\ FlagAgrees'
    BY <1>2, <2>1, BufAssumption DEF IInv, Typed, InLoops, FlagAgrees, CStart
  <2>3. Apart'
    BY <1>2, <2>1 DEF IInv, Apart, CStart, ConsumerRuns
  <2> QED
    BY <1>1, <1>2, <2>1, <2>2, <2>3 DEF CStart
<1>3. ASSUME NEW full \in BOOLEAN, cpc \in {"used", "full"}, CDecide(BufLen - Left(full)),
             full <=> Filled = BufLen,
             UNCHANGED <<shared, pvars, ci, freed, got>>
      PROVE  IInv'
  <2>1. BufLen - Left(full) = Filled
    BY <1>0, <1>3
  <2>2. clen > 0 /\ clen \in Nat /\ ci = 0
    BY <1>3 DEF IInv, InLoops, Typed
  <2>3. Filled' = Filled /\ Taken = 0
    BY <1>3, <2>2 DEF Filled, Taken
  <2>4. \/ Filled = 0 /\ cpc' = "idle" /\ clen' = clen
        \/ Filled > 0 /\ cpc' = "copy" /\ clen' = IF clen > Filled THEN Filled ELSE clen
    BY <1>0, <1>3, <2>1 DEF CDecide
  <2>5. Typed' /\ InLoops' /\ FlagAgrees' /\ Taken' = 0
    <3>1. /\ clen' \in Nat /\ clen' > 0 /\ cpc' \in {"idle", "copy"} /\ Taken' = 0
          /\ cpc' = "copy" => clen' <= Filled
      BY <1>0, <1>3, <2>2, <2>4 DEF Taken
    <3>2. Typed'
      BY <1>3, <3>1 DEF IInv, Typed
    <3>3. InLoops'
      BY <1>3, <2>2, <2>3, <3>1 DEF IInv, InLoops
    <3>4. FlagAgrees'
      BY <1>3, <2>3, <3>1 DEF IInv, FlagAgrees
    <3> QED
      BY <3>1, <3>2, <3>3, <3>4
  <2>6. Apart'
    BY <1>3, <2>3, <2>4 DEF IInv, Apart
  <2> QED
    BY <1>1, <1>3, <2>3, <2>5, <2>6
<1>4. CASE CUsed
  <2>1. CASE rdidx = wridx
    <3>1. Filled' = Filled /\ Taken = 0 /\ Taken' = 0
      BY <1>4, <2>1 DEF CUsed, Filled, Taken
    <3>2. Typed' /\ InLoops' /\ FlagAgrees' /\ Apart'
      BY <1>4, <2>1, <3>1 DEF IInv, Typed, InLoops, FlagAgrees, Apart, CUsed
    <3> QED
      BY <1>1, <1>4, <3>1, <3>2 DEF CUsed
  <2>2. CASE rdidx # wridx
    BY <1>0, <1>3, <1>4, <2>2 DEF CUsed
  <2> QED
    BY <2>1, <2>2
<1>5. CASE CFull
  <2>1. isfull \in BOOLEAN /\ (isfull <=> Filled = BufLen)
    BY <1>5 DEF IInv, Typed, Apart, FlagAgrees, CFull
  <2> QED
    BY <1>3, <1>5, <2>1 DEF CFull
<1>6. CASE CCopy
  <2>1. /\ ci \in Nat /\ clen \in Nat /\ ci < clen /\ clen <= Filled
        /\ Taken = ci /\ freed \in Nat /\ got \in Seq(Nat) /\ Len(got) = freed + ci
    BY <1>6 DEF IInv, Typed, InLoops, CCopy, Taken, Ordered
  <2>2. Filled' = Filled /\ Taken' = Taken + 1 /\ Stored' = Stored /\ Stored \in Nat
    BY <1>6, <2>1 DEF CCopy, Filled, Taken, Stored, IInv, Typed
  <2>3. buf[Slot(rdidx + ci)] = freed + ci + 1
    <3>1. ci \in 0..(BufLen - 1) /\ ci < Filled + Stored
      BY <1>0, <2>1, <2>2
    <3> QED
      BY <3>1 DEF IInv, Numbered
  <2>4. got' = Append(got, freed + ci + 1) /\ freed + ci + 1 \in Nat
    BY <1>6, <2>1, <2>3 DEF CCopy
  <2>5. /\ got' \in Seq(Nat) /\ Len(got') = freed + ci + 1
        /\ \A i \in 1..Len(got') : got'[i] = IF i <= Len(got) THEN got[i] ELSE freed + ci + 1
    BY <2>1, <2>4
  <2>6. Typed'
    BY <1>6, <2>1, <2>5 DEF IInv, Typed, CCopy
  <2>7. InLoops' /\ FlagAgrees' /\ Apart'
    BY <1>6, <2>1, <2>2 DEF IInv, InLoops, FlagAgrees, Apart, CCopy
  <2>8. Ordered'
    <3>1. Len(got') = freed' + Taken'
      BY <1>6, <2>1, <2>2, <2>5 DEF CCopy
    <3>2. \A i \in 1..Len(got') : got'[i] = i
      BY <2>1, <2>5 DEF IInv, Ordered, InOrder
    <3> QED
      BY <3>1, <3>2 DEF Ordered, InOrder
  <2>9. Numbered'
    BY <1>6, <2>2, SameNumbers DEF IInv, CCopy
  <2> QED
    BY <2>6, <2>7, <2>8, <2>9 DEF IInv
<1>7. CASE CIndex
  <2>1. /\ ci = clen /\ clen \in 1..Filled /\ freed \in Nat /\ sent \in Nat
        /\ Taken = clen /\ Taken' = 0 /\ Stored' = Stored /\ Stored \in Nat
    BY <1>0, <1>7 DEF IInv, Typed, InLoops, CIndex, Taken, Stored
  <2>2. Filled' = Filled - clen /\ freed' = freed + clen
    BY <1>7, <2>1 DEF CIndex, Filled
  <2>3. rdidx' = Wrap(rdidx + clen, BufLen) /\ rdidx' \in 0..(BufLen - 1)
    BY <1>0, <1>7, <2>1, WrapInside DEF CIndex, Slot
  <2>4. Typed'
    BY <1>7, <2>1, <2>2, <2>3 DEF IInv, Typed, CIndex
  <2>5. InLoops' /\ FlagAgrees' /\ Apart'
    <3>1. /\ cpc = "index" /\ cpc' = "clear"
          /\ UNCHANGED <<buf, wridx, isfull, pvars, clen, ci, got>>
      BY <1>7 DEF CIndex
    <3>2. InLoops'
      BY <1>0, <2>1, <2>2, <3>1 DEF IInv, InLoops
    <3>3. FlagAgrees'
      BY <1>0, <2>1, <2>2, <3>1 DEF IInv, FlagAgrees, Apart, Typed
    <3>4. Apart'
      BY <1>0, <2>1, <2>2, <3>1 DEF IInv, Apart, Typed
    <3> QED
      BY <3>2, <3>3, <3>4
  <2>6. Ordered'
    BY <1>7, <2>1, <2>2 DEF IInv, Ordered, InOrder, CIndex
  <2>7. \A i \in Nat : clen + i <= BufLen =>
           Wrap(rdidx' + i, BufLen) = Wrap(rdidx + (clen + i), BufLen)
    <3> SUFFICES ASSUME NEW i \in Nat, clen + i <= BufLen
                 PROVE  Wrap(rdidx' + i, BufLen) = Wrap(rdidx + (clen + i), BufLen)
      OBVIOUS
    <3>1. clen \in 0..BufLen /\ i \in 0..BufLen
      BY <1>0, <2>1
    <3>2. Wrap(Wrap(rdidx + clen, BufLen) + i, BufLen) = Wrap(rdidx + (clen + i), BufLen)
      BY <1>0, <3>1, WrapTwice
    <3> QED
      BY <2>3, <3>2
  <2>8. wridx' = Slot(rdidx' + Filled')
    <3>1. Filled - clen \in Nat /\ clen + (Filled - clen) = Filled /\ Filled <= BufLen
      BY <1>0, <2>1
    <3>2. Wrap(rdidx' + (Filled - clen), BufLen) = Wrap(rdidx + Filled, BufLen)
      BY <2>7, <3>1
    <3> QED
      BY <1>0, <1>7, <2>2, <3>2 DEF CIndex, Slot
  <2>9. ASSUME NEW i \in 0..(BufLen - 1), i < Filled' + Stored'
        PROVE  buf'[Wrap(rdidx' + i, BufLen)] = freed' + i + 1
    <3>1. Filled + Stored <= BufLen
      BY <1>0 DEF IInv, Typed, InLoops, FlagAgrees, Stored
    <3>2. clen + i \in 0..(BufLen - 1) /\ clen + i < Filled + Stored /\ i \in Nat
      BY <1>0, <2>1, <2>2, <2>9, <3>1
    <3>3. Wrap(rdidx' + i, BufLen) = Wrap(rdidx + (clen + i), BufLen)
      BY <1>0, <2>7, <3>2
    <3>4. buf[Wrap(rdidx + (clen + i), BufLen)] = freed + (clen + i) + 1
      BY <3>2 DEF IInv, Numbered, Slot
    <3> QED
      BY <1>7, <2>1, <2>2, <3>3, <3>4 DEF CIndex
  <2>10. Numbered'
    BY <2>8, <2>9 DEF Numbered, Slot
  <2> QED
    BY <2>4, <2>5, <2>6, <2>10 DEF IInv
<1>8. CASE CClear
  <2>1. Filled' = Filled /\ Stored' = Stored /\ Taken' = Taken /\ Taken = 0
    BY <1>8 DEF CClear, Filled, Stored, Taken
  <2>2. Typed' /\ InLoops' /\ FlagAgrees' /\ Apart'
    <3>1. /\ cpc = "clear" /\ cpc' = "idle" /\ ~isfull' /\ isfull' \in BOOLEAN
          /\ UNCHANGED <<buf, rdidx, wridx, pvars, clen, ci, freed, got>>
      BY <1>8 DEF CClear
    <3>2. Typed'
      BY <3>1 DEF IInv, Typed
    <3>3. InLoops'
      BY <2>1, <3>1 DEF IInv, InLoops
    <3>4. FlagAgrees'
      BY <1>0, <2>1, <3>1 DEF IInv, FlagAgrees, Apart
    <3>5. Apart'
      BY <2>1, <3>1 DEF IInv, Apart
    <3> QED
      BY <3>2, <3>3, <3>4, <3>5
  <2>3. Ordered'
    BY <1>8, <2>1 DEF IInv, Ordered, InOrder, CClear
  <2>4. Numbered'
    BY <1>8, <2>1 DEF IInv, Numbered, CClear, Slot
  <2> QED
    BY <2>2, <2>3, <2>4 DEF IInv
<1> QED
  BY <1>2, <1>4, <1>5, <1>6, <1>7, <1>8 DEF Consumer

LEMMA InvStep == IInv /\ [Next]_vars => IInv'
<1> SUFFICES ASSUME IInv, [Next]_vars
             PROVE  IInv'
  OBVIOUS
<1>1. CASE UNCHANGED vars
  BY <1>1 DEF vars, shared, pvars, cvars, IInv, Typed, InLoops, Apart, FlagAgrees, Numbered,
              Ordered, InOrder, Filled, Stored, Taken, Slot
<1> QED
  BY <1>1, PutStep, GetStep DEF Next

\* The invariant of the fifo between two contexts.
THEOREM Invariance ==
    ASSUME SafeUse
    PROVE  Spec => []IInv
<1> QED
  BY InitInv, InvStep, PTL DEF Spec

\* With a byte kept free, or a lock around each call, the consumer gets byte 1,
\* byte 2, and so on, whatever the interleaving: no byte is read from a slot
\* before it is stored there, none is overwritten before it is read.
THEOREM OrderKept ==
    ASSUME SafeUse
    PROVE  Spec => []InOrder
<1>1. IInv => InOrder
  BY DEF IInv, Ordered
<1> QED
  BY Invariance, <1>1, PTL

\* In the same uses the indexes and the flag account, between calls, for every
\* byte put and not yet got.
THEOREM NothingLost ==
    ASSUME SafeUse
    PROVE  Spec => []NoLoss
<1>1. IInv => NoLoss
  <2> SUFFICES ASSUME IInv, ppc = "idle", cpc = "idle"
               PROVE  BufLen - Left(isfull) = sent - Len(got)
    BY DEF NoLoss
  <2>1. isfull \in BOOLEAN /\ (isfull <=> Filled = BufLen) /\ Taken = 0
    BY DEF IInv, Typed, FlagAgrees, Taken
  <2>2. Left(isfull) = BufLen - Filled /\ BufLen \in Nat /\ Filled \in Nat
    BY <2>1, Indexes
  <2>3. Len(got) = freed /\ freed \in Nat /\ sent \in Nat
    BY <2>1 DEF IInv, Ordered, Typed
  <2> QED
    BY <2>2, <2>3 DEF Filled
<1> QED
  BY Invariance, <1>1, PTL

=============================================================================
