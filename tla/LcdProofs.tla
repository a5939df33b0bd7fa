------------------------------ MODULE LcdProofs ------------------------------
(* The driver of the display keeps mode, phase and timing right, for every   *)
(* configuration and all calls, whatever state the controller is in when the *)
(* MCU comes up and wherever the MCU alone restarts.                         *)
EXTENDS Lcd, SequenceTheorems, TLAPS

-----------------------------------------------------------------------------
(* The invariant. *)

Instructions == {Decode(rs, byte) : rs \in BOOLEAN, byte \in 0..255}

Typed ==
    /\ eight \in BOOLEAN /\ half \in 0..NoHalf /\ busy \in Nat
    /\ ran \in Seq(Instructions)
    /\ pc \in {"idle", "raise", "set", "drop", "wait"} /\ isinitialized \in BOOLEAN
    /\ lines \in 0..15 /\ found \in BOOLEAN

\* The states of the controller: in 8-bit mode and while it executes it waits
\* for no second half.
Possible ==
    /\ eight => half = NoHalf
    /\ busy > 0 => half = NoHalf
    /\ busy <= 1530

\* The half bytes of sk_lcd_init and of a command that are still to come.
InitRest(j)   == SubSeq(InitHalves, 10 - j, 9)
CmdRest(a, j) == SubSeq(CmdHalves(a), 3 - j, 2)

\* 4-bit mode, and the next half byte is a first one.
InStep == ~eight /\ half = NoHalf

\* The controller when sk_lcd_init, begun before a receptive one, has j half
\* bytes still to send.
InitReady(j) ==
    /\ j = 8 => ~eight /\ half \in {3, NoHalf}
    /\ j = 7 => IF eight THEN half = NoHalf ELSE half = 2
    /\ j \in {6, 4, 2, 0} => InStep
    /\ j \in {5, 3, 1} => ~eight /\ half = 0
    /\ j <= 4 => on
    /\ j <= 2 => Clear \in {ran[i] : i \in 1..Len(ran)}
    /\ j = 0 => entry = Increment

\* And when it has begun before any other: the first half byte leads to 8-bit
\* mode, the second out of it, and no later one is a 3.
Recovering(j) ==
    /\ j = 9 => ~Receptive
    /\ j = 8 => eight
    /\ j <= 7 => Receptive

\* The controller when a command has.
CmdReady(j) ==
    /\ j = 2 => InStep /\ ran = <<>>
    /\ j = 1 => ~eight /\ half = Byte(asked) \div 16 /\ ran = <<>>
    /\ j = 0 => InStep /\ ran = <<asked>>

\* What the controller executes, the driver waits for.
Awaited == busy <= Head(todo).wait

\* When its strobe comes.
Ready(j) == IF j = 9 THEN Receptive ELSE InitReady(j) /\ busy = 0
Late(j)  == Recovering(j) /\ (j = 8 => busy = 0)

Strobe == {"raise", "set", "drop"}

InInit ==
    pc # "idle" /\ asked = Sync =>
        \E j \in 1..9 :
            /\ isinitialized /\ todo = InitRest(j)
            /\ pc \in Strobe => IF found THEN Ready(j) ELSE Late(j)
            /\ pc = "wait" => IF found THEN InitReady(j - 1) /\ Awaited ELSE Recovering(j - 1)

InCmd ==
    pc # "idle" /\ asked # Sync =>
        /\ isinitialized /\ asked \in Asks /\ Legal(asked)
        /\ \E j \in 1..2 :
            /\ todo = CmdRest(asked, j)
            /\ found /\ pc \in Strobe => CmdReady(j) /\ busy = 0
            /\ found /\ pc = "wait" => CmdReady(j - 1) /\ Awaited

AtRest ==
    pc = "idle" =>
        /\ found => InStep /\ busy = 0
        /\ ret = "EOK" /\ asked = Sync => Receptive /\ (found => InitReady(0))
        /\ ret = "EOK" /\ asked \notin {Nothing, Sync} /\ found => ran = <<asked>>

Edges ==
    /\ en => pc \in {"set", "drop"}
    /\ pc = "drop" => lines = Head(todo).nibble

IInv == Typed /\ Possible /\ InInit /\ InCmd /\ AtRest /\ Edges

-----------------------------------------------------------------------------
(* Bytes and halves. *)

LEMMA Nibbles ==
    ASSUME NEW b \in 0..255
    PROVE  b \div 16 \in 0..15 /\ b % 16 \in 0..15 /\ 16 * (b \div 16) + (b % 16) = b
OBVIOUS

\* What the driver encodes, the controller decodes: the instruction asked for.
LEMMA DecodesBack ==
    ASSUME NEW a \in Calls, Legal(a)
    PROVE  Byte(a) \in 0..255 /\ Decode(a.op = "data", Byte(a)) = a
<1> USE DEF Byte, Decode, Bit, IsSet
<1>1. CASE a = [op |-> "clear"] \/ a = [op |-> "home"]
  <2>1. CASE a = [op |-> "clear"]
    BY <2>1
  <2>2. CASE a = [op |-> "home"]
    BY <2>2
  <2> QED
    BY <1>1, <2>1, <2>2
<1>2. CASE a \in [op : {"entry"}, right : BOOLEAN, shift : BOOLEAN]
  <2>1. ASSUME NEW b \in 4..7
        PROVE  Decode(FALSE, b)
                 = [op |-> "entry", right |-> (b \div 2) % 2 = 1, shift |-> (b \div 1) % 2 = 1]
    OBVIOUS
  <2> DEFINE b == Byte(a)
  <2>2. /\ b \in 4..7 /\ a.op = "entry"
        /\ (b \div 2) % 2 = 1 <=> a.right
        /\ (b \div 1) % 2 = 1 <=> a.shift
    BY <1>2
  <2> HIDE DEF b
  <2>3. Decode(FALSE, b) = a
    BY ONLY <1>2, <2>1, <2>2
  <2> QED
    BY <2>2, <2>3 DEF b
<1>3. CASE a \in [op : {"onoff"}, on : BOOLEAN, cursor : BOOLEAN, blink : BOOLEAN]
  <2>1. ASSUME NEW b \in 8..15
        PROVE  Decode(FALSE, b)
                 = [op |-> "onoff", on |-> (b \div 4) % 2 = 1, cursor |-> (b \div 2) % 2 = 1,
                    blink |-> (b \div 1) % 2 = 1]
    OBVIOUS
  <2> DEFINE b == Byte(a)
  <2>2. /\ b \in 8..15 /\ a.op = "onoff"
        /\ (b \div 4) % 2 = 1 <=> a.on
        /\ (b \div 2) % 2 = 1 <=> a.cursor
        /\ (b \div 1) % 2 = 1 <=> a.blink
    BY <1>3
  <2> HIDE DEF b
  <2>3. Decode(FALSE, b) = a
    BY ONLY <1>3, <2>1, <2>2
  <2> QED
    BY <2>2, <2>3 DEF b
<1>4. CASE a \in [op : {"shift"}, display : BOOLEAN, right : BOOLEAN]
  <2>1. ASSUME NEW b \in 16..31
        PROVE  Decode(FALSE, b)
                 = [op |-> "shift", display |-> (b \div 8) % 2 = 1, right |-> (b \div 4) % 2 = 1]
    OBVIOUS
  <2> DEFINE b == Byte(a)
  <2>2. /\ b \in 16..31 /\ a.op = "shift"
        /\ (b \div 8) % 2 = 1 <=> a.display
        /\ (b \div 4) % 2 = 1 <=> a.right
    BY <1>4
  <2> HIDE DEF b
  <2>3. Decode(FALSE, b) = a
    BY ONLY <1>4, <2>1, <2>2
  <2> QED
    BY <2>2, <2>3 DEF b
<1>5. CASE a \in [op : {"address"}, cgram : BOOLEAN, addr : 0..255]
  <2>1. CASE a.cgram
    <3>1. a.op = "address" /\ a.addr \in Nat /\ Byte(a) \in 64..127 /\ Byte(a) - 64 = a.addr
      BY <1>5, <2>1 DEF Legal, Base
    <3>2. \A b \in 64..127 : Decode(FALSE, b) = [op |-> "address", cgram |-> TRUE, addr |-> b - 64]
      OBVIOUS
    <3>3. a = [op |-> "address", cgram |-> TRUE, addr |-> a.addr]
      BY <1>5, <2>1
    <3>4. (a.op = "data") = FALSE
      BY <3>1
    <3> HIDE DEF Decode, Byte
    <3>5. Decode(FALSE, Byte(a)) = a
      BY <3>1, <3>2, <3>3
    <3>6. Decode(a.op = "data", Byte(a)) = a
      BY <3>4, <3>5, Zenon
    <3> QED
      BY <3>1, <3>6
  <2>2. CASE ~a.cgram
    <3>1. a.op = "address" /\ a.addr \in Nat /\ Byte(a) \in 128..255 /\ Byte(a) - 128 = a.addr
      BY <1>5, <2>2 DEF Legal, Base
    <3>2. \A b \in 128..255 : Decode(FALSE, b) = [op |-> "address", cgram |-> FALSE, addr |-> b - 128]
      OBVIOUS
    <3>3. a = [op |-> "address", cgram |-> FALSE, addr |-> a.addr]
      BY <1>5, <2>2
    <3>4. (a.op = "data") = FALSE
      BY <3>1
    <3> HIDE DEF Decode, Byte
    <3>5. Decode(FALSE, Byte(a)) = a
      BY <3>1, <3>2, <3>3
    <3>6. Decode(a.op = "data", Byte(a)) = a
      BY <3>4, <3>5, Zenon
    <3> QED
      BY <3>1, <3>6
  <2> QED
    BY <2>1, <2>2
<1>6. CASE a \in [op : {"data"}, byte : 0..255]
  BY <1>6
<1> QED
  BY <1>1, <1>2, <1>3, <1>4, <1>5, <1>6 DEF Calls

\* The bytes 0x30 to 0x3F, which ask for 8-bit mode.
AsksEight(b) == b \in 48..63

\* Only a function set can change the mode.
LEMMA FunctionSets ==
    ASSUME NEW rs \in BOOLEAN, NEW b \in 0..255, Decode(rs, b).op = "function"
    PROVE  Decode(rs, b).eight \in BOOLEAN /\ (Decode(rs, b).eight => AsksEight(b))
<1>1. CASE rs
  BY <1>1 DEF Decode
<1>2. CASE ~rs
  <2>1. b \in 32..63
    BY <1>2 DEF Decode, Nothing
  <2>2. Decode(rs, b).eight = IsSet(b, 16)
    BY <1>2, <2>1 DEF Decode
  <2>3. IsSet(b, 16) \in BOOLEAN /\ (IsSet(b, 16) => AsksEight(b))
    BY ONLY <2>1, SMTT(30) DEF IsSet, AsksEight
  <2> QED
    BY <2>2, <2>3, Zenon
<1> QED
  BY <1>1, <1>2

\* A delay is never shorter than asked for.
LEMMA DelayedEnough ==
    ASSUME NEW us \in Nat
    PROVE  Delayed(us) \in Nat /\ Delayed(us) >= us
BY DEF Delayed

-----------------------------------------------------------------------------
(* The half bytes, one by one. *)

Halves == [rs : BOOLEAN, nibble : 0..15, wait : Nat]

LEMMA CmdList ==
    ASSUME NEW a \in Calls, Legal(a)
    PROVE  /\ CmdHalves(a) \in Seq(Halves) /\ Len(CmdHalves(a)) = 2
           /\ CmdHalves(a)[1] = Half(a.op = "data", Byte(a) \div 16, 0)
           /\ CmdHalves(a)[2] = Half(a.op = "data", Byte(a) % 16, Wait(a))
<1>1. Byte(a) \div 16 \in 0..15 /\ Byte(a) % 16 \in 0..15
  BY DecodesBack, Nibbles
<1>2. Wait(a) \in Nat
  BY DEF Wait
<1>3. /\ Half(a.op = "data", Byte(a) \div 16, 0) \in Halves
      /\ Half(a.op = "data", Byte(a) % 16, Wait(a)) \in Halves
  BY <1>1, <1>2 DEF Half, Halves
<1> QED
  BY <1>3 DEF CmdHalves

LEMMA CmdWaits ==
    ASSUME NEW a \in Calls, Legal(a)
    PROVE  CmdHalves(a)[1].wait = 0 /\ CmdHalves(a)[2].wait = Wait(a)
<1>1. CmdHalves(a)[1].wait = Half(a.op = "data", Byte(a) \div 16, 0).wait
  BY CmdList
<1>2. CmdHalves(a)[2].wait = Half(a.op = "data", Byte(a) % 16, Wait(a)).wait
  BY CmdList
<1>3. Half(a.op = "data", Byte(a) \div 16, 0).wait = 0
  BY DEF Half
<1>4. Half(a.op = "data", Byte(a) % 16, Wait(a)).wait = Wait(a)
  BY DEF Half
<1> QED
  BY ONLY <1>1, <1>2, <1>3, <1>4, Zenon

\* The halves of a command that is not data.
CmdPair(a, n, m, w) ==
    /\ CmdHalves(a) \in Seq(Halves) /\ Len(CmdHalves(a)) = 2
    /\ CmdHalves(a)[1] = Half(FALSE, n, 0) /\ CmdHalves(a)[2] = Half(FALSE, m, w)

LEMMA CmdPairs ==
    ASSUME NEW a \in Calls, Legal(a), a.op # "data"
    PROVE  CmdPair(a, Byte(a) \div 16, Byte(a) % 16, Wait(a))
<1>1. (a.op = "data") = FALSE
  OBVIOUS
<1>2. /\ CmdHalves(a)[1] = Half(FALSE, Byte(a) \div 16, 0)
      /\ CmdHalves(a)[2] = Half(FALSE, Byte(a) % 16, Wait(a))
  <2>1. CmdHalves(a)[1] = Half(FALSE, Byte(a) \div 16, 0)
    BY <1>1, CmdList, Zenon
  <2>2. CmdHalves(a)[2] = Half(FALSE, Byte(a) % 16, Wait(a))
    BY <1>1, CmdList, Zenon
  <2> QED
    BY <2>1, <2>2
<1> QED
  BY <1>2, CmdList DEF CmdPair

\* Two more half bytes behind n.
Joined(c, s, d, n) ==
    /\ c \in Seq(Halves) /\ Len(c) = n + 2
    /\ \A k \in 1..n : c[k] = s[k]
    /\ c[n + 1] = d[1] /\ c[n + 2] = d[2]

LEMMA JoinTwo ==
    ASSUME NEW s \in Seq(Halves), NEW d \in Seq(Halves), NEW n \in Nat, Len(s) = n, Len(d) = 2
    PROVE  Joined(s \o d, s, d, n)
<1> DEFINE c == s \o d
<1>1. /\ c \in Seq(Halves) /\ Len(c) = Len(s) + Len(d)
      /\ \A i \in 1..(Len(s) + Len(d)) : c[i] = IF i <= Len(s) THEN s[i] ELSE d[i - Len(s)]
  BY ConcatProperties
<1> HIDE DEF c
<1>2. /\ Len(c) = n + 2
      /\ \A i \in 1..(n + 2) : c[i] = IF i <= n THEN s[i] ELSE d[i - n]
  BY <1>1
<1>3. c[n + 1] = d[1] /\ c[n + 2] = d[2] /\ \A k \in 1..n : c[k] = s[k]
  BY <1>2
<1> QED
  BY <1>1, <1>2, <1>3 DEF c, Joined

LEMMA InitList ==
    /\ InitHalves \in Seq(Halves) /\ Len(InitHalves) = 9
    /\ InitHalves[1] = Half(FALSE, 3, 4100)
    /\ InitHalves[2] = Half(FALSE, 2, 100) /\ InitHalves[3] = Half(FALSE, 2, 39)
    /\ InitHalves[4] = Half(FALSE, 0, 0)   /\ InitHalves[5] = Half(FALSE, 12, 39)
    /\ InitHalves[6] = Half(FALSE, 0, 0)   /\ InitHalves[7] = Half(FALSE, 1, 1530)
    /\ InitHalves[8] = Half(FALSE, 0, 0)   /\ InitHalves[9] = Half(FALSE, 6, 39)
<1> DEFINE f == <<Half(FALSE, 3, 4100), Half(FALSE, 2, 100), Half(FALSE, 2, 39)>>
           a == CmdHalves(DisplayOn)
           b == CmdHalves(Clear)
           d == CmdHalves(Increment)
           fa == f \o a
           fab == fa \o b
<1>1. /\ DisplayOn \in Calls /\ Legal(DisplayOn) /\ Byte(DisplayOn) = 12 /\ Wait(DisplayOn) = 39
      /\ Clear \in Calls /\ Legal(Clear) /\ Byte(Clear) = 1 /\ Wait(Clear) = 1530
      /\ Increment \in Calls /\ Legal(Increment) /\ Byte(Increment) = 6 /\ Wait(Increment) = 39
  BY DEF DisplayOn, Clear, Increment, Calls, Legal, Byte, Bit, Wait
<1>2. a \in Seq(Halves) /\ Len(a) = 2 /\ a[1] = Half(FALSE, 0, 0) /\ a[2] = Half(FALSE, 12, 39)
  <2>1. DisplayOn.op # "data"
    BY DEF DisplayOn
  <2>2. CmdPair(DisplayOn, Byte(DisplayOn) \div 16, Byte(DisplayOn) % 16, Wait(DisplayOn))
    BY <1>1, <2>1, CmdPairs
  <2>3. CmdPair(DisplayOn, 0, 12, 39)
    BY <1>1, <2>2
  <2> QED
    BY <2>3 DEF CmdPair
<1>3. b \in Seq(Halves) /\ Len(b) = 2 /\ b[1] = Half(FALSE, 0, 0) /\ b[2] = Half(FALSE, 1, 1530)
  <2>1. Clear.op # "data"
    BY DEF Clear
  <2>2. CmdPair(Clear, Byte(Clear) \div 16, Byte(Clear) % 16, Wait(Clear))
    BY <1>1, <2>1, CmdPairs
  <2>3. CmdPair(Clear, 0, 1, 1530)
    BY <1>1, <2>2
  <2> QED
    BY <2>3 DEF CmdPair
<1>4. d \in Seq(Halves) /\ Len(d) = 2 /\ d[1] = Half(FALSE, 0, 0) /\ d[2] = Half(FALSE, 6, 39)
  <2>1. Increment.op # "data"
    BY DEF Increment
  <2>2. CmdPair(Increment, Byte(Increment) \div 16, Byte(Increment) % 16, Wait(Increment))
    BY <1>1, <2>1, CmdPairs
  <2>3. CmdPair(Increment, 0, 6, 39)
    BY <1>1, <2>2
  <2> QED
    BY <2>3 DEF CmdPair
<1>5. InitHalves = fab \o d
  BY DEF InitHalves
<1>6. /\ f \in Seq(Halves) /\ Len(f) = 3 /\ f[1] = Half(FALSE, 3, 4100)
      /\ f[2] = Half(FALSE, 2, 100) /\ f[3] = Half(FALSE, 2, 39)
  BY DEF Half, Halves
<1> HIDE DEF f, a, b, d
<1>7. Joined(fa, f, a, 3)
  <2>1. Joined(f \o a, f, a, 3)
    <3>1. f \in Seq(Halves) /\ a \in Seq(Halves) /\ Len(f) = 3 /\ Len(a) = 2 /\ 3 \in Nat
      BY <1>2, <1>6
    <3> QED
      BY ONLY <3>1, JoinTwo
  <2> QED
    BY <2>1 DEF fa
<1>8. fa \in Seq(Halves) /\ Len(fa) = 5
  BY <1>7 DEF Joined
<1> HIDE DEF fa
<1>9. Joined(fab, fa, b, 5)
  <2>1. Joined(fa \o b, fa, b, 5)
    <3>1. fa \in Seq(Halves) /\ b \in Seq(Halves) /\ Len(fa) = 5 /\ Len(b) = 2 /\ 5 \in Nat
      BY <1>3, <1>8
    <3> QED
      BY ONLY <3>1, JoinTwo
  <2> QED
    BY <2>1 DEF fab
<1>10. fab \in Seq(Halves) /\ Len(fab) = 7
  BY <1>9 DEF Joined
<1> HIDE DEF fab
<1>11. Joined(InitHalves, fab, d, 7)
  <2>1. Joined(fab \o d, fab, d, 7)
    BY <1>4, <1>10, JoinTwo, 7 \in Nat
  <2> QED
    BY <2>1, <1>5
<1>12. /\ fa[1] = f[1] /\ fa[2] = f[2] /\ fa[3] = f[3] /\ fa[4] = a[1] /\ fa[5] = a[2]
  BY <1>7 DEF Joined
<1>13. /\ fab[1] = fa[1] /\ fab[2] = fa[2] /\ fab[3] = fa[3] /\ fab[4] = fa[4] /\ fab[5] = fa[5]
       /\ fab[6] = b[1] /\ fab[7] = b[2]
  BY <1>9 DEF Joined
<1>14. /\ InitHalves \in Seq(Halves) /\ Len(InitHalves) = 9
       /\ InitHalves[1] = fab[1] /\ InitHalves[2] = fab[2] /\ InitHalves[3] = fab[3]
       /\ InitHalves[4] = fab[4] /\ InitHalves[5] = fab[5] /\ InitHalves[6] = fab[6]
       /\ InitHalves[7] = fab[7] /\ InitHalves[8] = d[1] /\ InitHalves[9] = d[2]
  BY <1>11 DEF Joined
<1> QED
  BY <1>2, <1>3, <1>4, <1>6, <1>12, <1>13, <1>14

\* What is left of a sequence after its head.
LEMMA Rest ==
    ASSUME NEW S, NEW s \in Seq(S), NEW j \in 1..Len(s)
    PROVE  LET rest(n) == SubSeq(s, Len(s) + 1 - n, Len(s))
           IN  /\ Len(rest(j)) = j /\ Head(rest(j)) = s[Len(s) + 1 - j]
               /\ Tail(rest(j)) = rest(j - 1)
<1> DEFINE m == Len(s) + 1 - j
<1>1. m \in 1..Len(s) /\ Len(s) \in Nat
  OBVIOUS
<1>2. Len(SubSeq(s, m, Len(s))) = j
  BY <1>1
<1>3. /\ Head(SubSeq(s, m, Len(s))) = s[m]
      /\ Tail(SubSeq(s, m, Len(s))) = SubSeq(s, m + 1, Len(s))
  BY <1>1, HeadTailOfSubSeq
<1> QED
  BY <1>1, <1>2, <1>3

LEMMA InitRests ==
    /\ InitRest(9) = InitHalves
    /\ \A j \in 1..9 : /\ Len(InitRest(j)) = j /\ Head(InitRest(j)) = InitHalves[10 - j]
                       /\ Tail(InitRest(j)) = InitRest(j - 1)
<1>1. InitRest(9) = InitHalves
  BY InitList, SubSeqFull DEF InitRest
<1>2. ASSUME NEW j \in 1..9
      PROVE  /\ Len(InitRest(j)) = j /\ Head(InitRest(j)) = InitHalves[10 - j]
             /\ Tail(InitRest(j)) = InitRest(j - 1)
  BY InitList, Rest DEF InitRest
<1> QED
  BY <1>1, <1>2

LEMMA CmdRests ==
    ASSUME NEW a \in Calls, Legal(a)
    PROVE  /\ CmdRest(a, 2) = CmdHalves(a)
           /\ \A j \in 1..2 : /\ Len(CmdRest(a, j)) = j /\ Head(CmdRest(a, j)) = CmdHalves(a)[3 - j]
                              /\ Tail(CmdRest(a, j)) = CmdRest(a, j - 1)
<1>1. CmdRest(a, 2) = CmdHalves(a)
  BY CmdList, SubSeqFull DEF CmdRest
<1>2. ASSUME NEW j \in 1..2
      PROVE  /\ Len(CmdRest(a, j)) = j /\ Head(CmdRest(a, j)) = CmdHalves(a)[3 - j]
             /\ Tail(CmdRest(a, j)) = CmdRest(a, j - 1)
  BY CmdList, Rest DEF CmdRest
<1> QED
  BY <1>1, <1>2

-----------------------------------------------------------------------------
(* What the controller does with a half byte. *)

LEMMA Decodes ==
    /\ Decode(FALSE, 34).op = "function" /\ ~Decode(FALSE, 34).eight
    /\ Decode(FALSE, 47).op = "function" /\ ~Decode(FALSE, 47).eight
    /\ Decode(FALSE, 50).op = "function" /\ Decode(FALSE, 50).eight
    /\ Decode(FALSE, 12) = DisplayOn /\ Decode(FALSE, 1) = Clear
    /\ Decode(FALSE, 6) = Increment
<1>1. ~IsSet(34, 16) /\ ~IsSet(47, 16) /\ IsSet(50, 16)
  BY DEF IsSet
<1>2. \A b \in 32..63 : Decode(FALSE, b).op = "function" /\ Decode(FALSE, b).eight = IsSet(b, 16)
  BY DEF Decode
<1>3. Decode(FALSE, 12) = DisplayOn
  <2>1. DisplayOn \in Calls /\ Legal(DisplayOn) /\ Byte(DisplayOn) = 12
    BY DEF DisplayOn, Calls, Legal, Byte, Bit
  <2>2. (DisplayOn.op = "data") = FALSE
    BY DEF DisplayOn
  <2> QED
    BY <2>1, <2>2, DecodesBack, Zenon
<1>4. Decode(FALSE, 1) = Clear
  <2>1. Clear \in Calls /\ Legal(Clear) /\ Byte(Clear) = 1
    BY DEF Clear, Calls, Legal, Byte, Bit
  <2>2. (Clear.op = "data") = FALSE
    BY DEF Clear
  <2> QED
    BY <2>1, <2>2, DecodesBack, Zenon
<1>5. Decode(FALSE, 6) = Increment
  <2>1. Increment \in Calls /\ Legal(Increment) /\ Byte(Increment) = 6
    BY DEF Increment, Calls, Legal, Byte, Bit
  <2>2. (Increment.op = "data") = FALSE
    BY DEF Increment
  <2> QED
    BY <2>1, <2>2, DecodesBack, Zenon
<1>6. 34 \in 32..63 /\ 47 \in 32..63 /\ 50 \in 32..63
  OBVIOUS
<1>7. /\ Decode(FALSE, 34).op = "function" /\ ~Decode(FALSE, 34).eight
      /\ Decode(FALSE, 47).op = "function" /\ ~Decode(FALSE, 47).eight
      /\ Decode(FALSE, 50).op = "function" /\ Decode(FALSE, 50).eight
  BY <1>1, <1>2, <1>6, Zenon
<1> QED
  BY <1>3, <1>4, <1>5, <1>7

LEMMA ExecutedTyped ==
    ASSUME NEW rs \in BOOLEAN, NEW byte \in 0..255, Typed, Execute(Decode(rs, byte))
    PROVE  eight' \in BOOLEAN /\ busy' \in Nat /\ ran' \in Seq(Instructions)
<1> DEFINE i == Decode(rs, byte)
<1>1. i \in Instructions
  BY DEF Instructions
<1>2. i.op = "function" => i.eight \in BOOLEAN
  BY FunctionSets
<1> HIDE DEF i
<1>3. ran' = Append(ran, i) /\ eight' = IF i.op = "function" THEN i.eight ELSE eight
  BY DEF Execute, i
<1>4. busy' \in Nat
  BY DEF Execute, i
<1>5. ran' \in Seq(Instructions)
  BY <1>1, <1>3 DEF Typed
<1>6. eight' \in BOOLEAN
  BY <1>2, <1>3 DEF Typed
<1> QED
  BY <1>4, <1>5, <1>6

\* No instruction takes longer than a clear.
Soon == busy \in 0..1530

LEMMA ExecutedSoon ==
    ASSUME NEW i, Execute(i)
    PROVE  Soon'
BY DEF Execute, Soon

\* Only the bytes 0x30 to 0x3F lead back to 8-bit mode.
LEMMA StaysFourBit ==
    ASSUME NEW rs \in BOOLEAN, NEW byte \in 0..255, ~AsksEight(byte), ~eight,
           Execute(Decode(rs, byte))
    PROVE  ~eight'
<1> DEFINE i == Decode(rs, byte)
<1>1. i.op = "function" => i.eight \in BOOLEAN /\ (i.eight => AsksEight(byte))
  BY FunctionSets, Zenon
<1> HIDE DEF i
<1>2. eight' = IF i.op = "function" THEN i.eight ELSE eight
  BY DEF Execute, i
<1>3. CASE i.op = "function"
  <2>1. i.eight \in BOOLEAN /\ ~i.eight /\ eight' = i.eight
    BY <1>1, <1>2, <1>3, Zenon
  <2> QED
    BY ONLY <2>1, Zenon
<1>4. CASE i.op # "function"
  BY <1>2, <1>4, Zenon
<1> QED
  BY <1>3, <1>4

LEMMA TwoHalves ==
    ASSUME NEW n \in 0..15, NEW m \in 0..15
    PROVE  16 * n + m \in 0..255
OBVIOUS

LEMMA LatchTyped ==
    ASSUME NEW rs \in BOOLEAN, NEW n \in 0..15, Typed, Latch(rs, n)
    PROVE  /\ eight' \in BOOLEAN /\ half' \in 0..NoHalf /\ busy' \in Nat
           /\ ran' \in Seq(Instructions)
<1>2. CASE busy > 0
  BY <1>2 DEF Latch, Typed, controller
<1>3. CASE ~(busy > 0) /\ eight
  <2>1. Execute(Decode(rs, 16 * n + 15)) /\ half' = half
    BY <1>3 DEF Latch
  <2>2. 16 * n + 15 \in 0..255
    BY TwoHalves, 15 \in 0..15
  <2>3. eight' \in BOOLEAN /\ busy' \in Nat /\ ran' \in Seq(Instructions)
    BY <2>1, <2>2, ExecutedTyped
  <2> QED
    BY <2>1, <2>3 DEF Typed
<1>4. CASE ~(busy > 0) /\ ~eight /\ half = NoHalf
  BY <1>4 DEF Latch, Typed, NoHalf
<1>5. CASE ~(busy > 0) /\ ~eight /\ half # NoHalf
  <2>1. Execute(Decode(rs, 16 * half + n)) /\ half' = NoHalf
    BY <1>5 DEF Latch
  <2>2. half \in 0..15
    BY <1>5 DEF Typed, NoHalf
  <2>3. 16 * half + n \in 0..255
    BY <2>2, TwoHalves
  <2>4. eight' \in BOOLEAN /\ busy' \in Nat /\ ran' \in Seq(Instructions)
    BY <2>1, <2>3, ExecutedTyped
  <2> QED
    BY <2>1, <2>4 DEF NoHalf
<1> QED
  BY <1>2, <1>3, <1>4, <1>5

\* The controller stays in one of its states, whatever it is handed.
LEMMA LatchPossible ==
    ASSUME NEW rs \in BOOLEAN, NEW n \in 0..15, Typed, Possible, Latch(rs, n)
    PROVE  Possible'
<1>1. CASE busy > 0
  BY <1>1 DEF Latch, Possible, controller
<1>2. CASE ~(busy > 0) /\ eight
  <2>1. Execute(Decode(rs, 16 * n + 15)) /\ half' = NoHalf
    BY <1>2 DEF Latch, Possible
  <2>2. Soon'
    BY ONLY <2>1, ExecutedSoon, Zenon
  <2> QED
    BY <2>1, <2>2 DEF Possible, Soon
<1>3. CASE ~(busy > 0) /\ ~eight /\ half = NoHalf
  BY <1>3 DEF Latch, Possible
<1>4. CASE ~(busy > 0) /\ ~eight /\ half # NoHalf
  <2>1. Execute(Decode(rs, 16 * half + n)) /\ half' = NoHalf
    BY <1>4 DEF Latch
  <2>2. Soon'
    BY ONLY <2>1, ExecutedSoon, Zenon
  <2> QED
    BY <2>1, <2>2 DEF Possible, Soon
<1> QED
  BY <1>1, <1>2, <1>3, <1>4

\* A half byte that opens a byte is kept and nothing else happens.
LEMMA LatchFirst ==
    ASSUME NEW h, InStep, busy = 0, Latch(h.rs, h.nibble)
    PROVE  /\ ~eight' /\ half' = h.nibble /\ busy' = 0
           /\ on' = on /\ entry' = entry /\ ran' = ran
BY DEF InStep, Latch

\* A half byte that closes one has it executed.
LEMMA LatchSecond ==
    ASSUME NEW h, ~eight, half # NoHalf, busy = 0, Latch(h.rs, h.nibble)
    PROVE  Execute(Decode(h.rs, 16 * half + h.nibble)) /\ half' = NoHalf
BY DEF Latch

-----------------------------------------------------------------------------
(* sk_lcd_init, half byte by half byte.  The first one meets the controller *)
(* as the restart left it; after the third it is in 4-bit mode, in step.    *)

LEMMA FunctionExecuted ==
    ASSUME NEW i, i.op = "function", Execute(i)
    PROVE  eight' = i.eight /\ busy' = 39
BY DEF Execute

\* After the first half byte: it was the first one of a byte, or the second.
Resynced == ~eight /\ half \in {3, NoHalf} /\ Soon

LEMMA ResyncFirst ==
    ASSUME NEW h, h.rs = FALSE, h.nibble = 3, Typed, Receptive, Possible, Latch(h.rs, h.nibble)
    PROVE  Resynced'
<1> USE DEF Resynced
<1>2. CASE busy > 0
  BY <1>2 DEF Latch, Receptive, Possible, controller, Typed, Soon
<1>3. CASE busy = 0 /\ half = NoHalf
  BY <1>3, LatchFirst DEF Receptive, Possible, InStep, Soon
<1>4. CASE busy = 0 /\ half # NoHalf
  <2>1. Execute(Decode(h.rs, 16 * half + h.nibble)) /\ half' = NoHalf
    BY <1>4, LatchSecond DEF Receptive, Possible
  <2>2. Execute(Decode(FALSE, 16 * half + 3))
    <3>1. 16 * half + h.nibble = 16 * half + 3
      OBVIOUS
    <3> QED
      BY <2>1, <3>1, Zenon
  <2>3. half \in 0..15 /\ half # 3
    BY <1>4 DEF Typed, NoHalf, Receptive, Possible
  <2>4. 16 * half + 3 \in 0..255 /\ ~AsksEight(16 * half + 3)
    BY <2>3 DEF AsksEight
  <2>5. ~eight /\ FALSE \in BOOLEAN
    BY DEF Receptive, Possible
  <2>6. ~eight'
    BY <2>2, <2>4, <2>5, StaysFourBit, Zenon
  <2>7. Soon'
    BY ONLY <2>2, ExecutedSoon, Zenon
  <2> QED
    BY ONLY <2>1, <2>6, <2>7 DEF Resynced
<1> QED
  BY <1>2, <1>3, <1>4 DEF Typed

LEMMA ResyncSecond ==
    ASSUME NEW h, h.rs = FALSE, h.nibble = 2, Typed, ~eight, half \in {3, NoHalf}, busy = 0,
           Latch(h.rs, h.nibble)
    PROVE  (IF eight' THEN half' = NoHalf ELSE half' = 2) /\ busy' \in 0..39
<1>2. CASE half = NoHalf
  BY <1>2, LatchFirst DEF InStep
<1>3. CASE half = 3
  <2>1. Execute(Decode(h.rs, 16 * half + h.nibble)) /\ half' = NoHalf
    BY <1>3, LatchSecond DEF NoHalf
  <2>2. 16 * half + h.nibble = 50
    BY <1>3
  <2>3. Execute(Decode(FALSE, 50))
    BY <2>1, <2>2, Zenon
  <2>4. eight' = Decode(FALSE, 50).eight /\ busy' = 39
    BY <2>3, Decodes, FunctionExecuted
  <2>5. eight'
    BY <2>4, Decodes, Zenon
  <2>6. busy' \in 0..39
    BY <2>4
  <2> QED
    BY <2>1, <2>5, <2>6
<1> QED
  BY <1>2, <1>3

LEMMA ResyncThird ==
    ASSUME NEW h, h.rs = FALSE, h.nibble = 2, Typed,
           IF eight THEN half = NoHalf ELSE half = 2, busy = 0, Latch(h.rs, h.nibble)
    PROVE  InStep' /\ busy' \in 0..39
<1>2. CASE eight
  <2>1. Execute(Decode(h.rs, 16 * h.nibble + 15)) /\ half' = half
    BY <1>2 DEF Latch
  <2>2. 16 * h.nibble + 15 = 47
    OBVIOUS
  <2>3. Execute(Decode(FALSE, 47))
    BY <2>1, <2>2, Zenon
  <2>4. eight' = Decode(FALSE, 47).eight /\ busy' = 39
    BY <2>3, Decodes, FunctionExecuted
  <2>5. ~eight'
    BY <2>4, Decodes, Zenon
  <2>6. busy' \in 0..39
    BY <2>4
  <2> QED
    BY <1>2, <2>1, <2>5, <2>6 DEF InStep
<1>3. CASE ~eight
  <2>1. Execute(Decode(h.rs, 16 * half + h.nibble)) /\ half' = NoHalf
    BY <1>3, LatchSecond DEF NoHalf
  <2>2. 16 * half + h.nibble = 34
    BY <1>3
  <2>3. Execute(Decode(FALSE, 34))
    BY <2>1, <2>2, Zenon
  <2>4. eight' = Decode(FALSE, 34).eight /\ busy' = 39
    BY <2>3, Decodes, FunctionExecuted
  <2>5. ~eight'
    BY <2>4, Decodes, Zenon
  <2>6. busy' \in 0..39
    BY <2>4
  <2> QED
    BY <2>1, <2>5, <2>6 DEF InStep
<1> QED
  BY <1>2, <1>3

\* The second half of a byte 0x00 to 0x0F, in 4-bit mode.
LEMMA SecondHalf ==
    ASSUME NEW h, NEW n \in 0..15, h.rs = FALSE, h.nibble = n, ~eight, half = 0, busy = 0, Latch(h.rs, h.nibble)
    PROVE  Execute(Decode(FALSE, n)) /\ half' = NoHalf
<1>2. Execute(Decode(h.rs, 16 * half + h.nibble)) /\ half' = NoHalf
  BY LatchSecond DEF NoHalf
<1>3. 16 * half + h.nibble = n
  OBVIOUS
<1> QED
  BY <1>2, <1>3, Zenon

\* Its first half.
LEMMA FirstHalf ==
    ASSUME NEW h, h.nibble = 0, InStep, busy = 0, Latch(h.rs, h.nibble)
    PROVE  ~eight' /\ half' = 0 /\ busy' = 0 /\ on' = on /\ entry' = entry /\ ran' = ran
BY LatchFirst

LEMMA LatchInit ==
    ASSUME NEW j \in 1..9, Typed, Possible, Ready(j), Latch(InitHalves[10 - j].rs, InitHalves[10 - j].nibble)
    PROVE  InitReady(j - 1)' /\ busy' <= InitHalves[10 - j].wait
<1> USE DEF InitReady
<1> DEFINE h == InitHalves[10 - j]
<1>0. Latch(h.rs, h.nibble)
  OBVIOUS
<1> HIDE DEF h
<1> SUFFICES InitReady(j - 1)' /\ busy' <= h.wait
  BY DEF h
<1>9. CASE j = 9
  <2>1. h.rs = FALSE /\ h.nibble = 3 /\ h.wait = 4100
    <3>1. 10 - j = 1
      BY <1>9
    <3> QED
      BY <3>1, InitList DEF Half, h
  <2>2. Receptive
    BY <1>9, Zenon DEF Ready
  <2>3. Resynced'
    <3>1. Typed /\ Receptive /\ Possible /\ h.rs = FALSE /\ h.nibble = 3
      BY <2>1, <2>2
    <3> QED
      BY ONLY <1>0, <3>1, ResyncFirst, Zenon
  <2> QED
    BY <1>9, <2>1, <2>3 DEF Resynced, Soon
<1>8. CASE j = 8
  <2>1. h.rs = FALSE /\ h.nibble = 2 /\ h.wait = 100
    <3>1. 10 - j = 2
      BY <1>8
    <3> QED
      BY <3>1, InitList DEF Half, h
  <2>3. ~eight /\ half \in {3, NoHalf} /\ busy = 0
    BY <1>8 DEF Ready
  <2>4. (IF eight' THEN half' = NoHalf ELSE half' = 2) /\ busy' \in 0..39
    BY <1>0, <2>1, <2>3, ResyncSecond
  <2> QED
    BY <1>8, <2>1, <2>4
<1>7. CASE j = 7
  <2>1. h.rs = FALSE /\ h.nibble = 2 /\ h.wait = 39
    <3>1. 10 - j = 3
      BY <1>7
    <3> QED
      BY <3>1, InitList DEF Half, h
  <2>3. (IF eight THEN half = NoHalf ELSE half = 2) /\ busy = 0
    BY <1>7 DEF Ready
  <2>4. InStep' /\ busy' \in 0..39
    BY <1>0, <2>1, <2>3, ResyncThird
  <2> QED
    BY <1>7, <2>1, <2>4
<1>6. CASE j \in {6, 4, 2}
  <2>1. h.rs = FALSE /\ h.nibble = 0 /\ h.wait = 0
    <3>1. 10 - j \in {4, 6, 8}
      BY <1>6
    <3> QED
      BY <3>1, InitList DEF Half, h
  <2>3. InStep /\ busy = 0
    BY <1>6 DEF Ready
  <2>4. ~eight' /\ half' = 0 /\ busy' = 0 /\ on' = on /\ entry' = entry /\ ran' = ran
    BY <1>0, <2>1, <2>3, FirstHalf
  <2> QED
    BY <1>6, <2>1, <2>4 DEF Ready
<1>5. CASE j = 5
  <2>1. h.rs = FALSE /\ h.nibble = 12 /\ h.wait = 39
    <3>1. 10 - j = 5
      BY <1>5
    <3> QED
      BY <3>1, InitList DEF Half, h
  <2>3. ~eight /\ half = 0 /\ busy = 0
    BY <1>5 DEF Ready
  <2>4. Execute(Decode(FALSE, 12)) /\ half' = NoHalf
    BY <1>0, <2>1, <2>3, SecondHalf, 12 \in 0..15
  <2>5. Execute(DisplayOn)
    BY <2>4, Decodes, Zenon
  <2>6. ~eight' /\ on' /\ busy' = 39
    BY <2>3, <2>5 DEF Execute, DisplayOn
  <2> QED
    BY <1>5, <2>1, <2>4, <2>6 DEF InStep
<1>3. CASE j = 3
  <2>1. h.rs = FALSE /\ h.nibble = 1 /\ h.wait = 1530
    <3>1. 10 - j = 7
      BY <1>3
    <3> QED
      BY <3>1, InitList DEF Half, h
  <2>3. ~eight /\ half = 0 /\ busy = 0 /\ on
    BY <1>3 DEF Ready
  <2>4. Execute(Decode(FALSE, 1)) /\ half' = NoHalf
    <3>1. ~eight /\ half = 0 /\ busy = 0 /\ h.rs = FALSE /\ h.nibble = 1 /\ 1 \in 0..15
      BY <2>1, <2>3
    <3> QED
      BY ONLY <1>0, <3>1, SecondHalf, Zenon
  <2>5. Execute(Clear)
    BY <2>4, Decodes, Zenon
  <2>6. ~eight' /\ on' = on /\ busy' = 1530 /\ ran' = Append(ran, Clear)
    BY <2>3, <2>5 DEF Execute, Clear
  <2>7. Clear \in {ran'[i] : i \in 1..Len(ran')}
    BY <2>6 DEF Typed
  <2> QED
    BY <1>3, <2>1, <2>3, <2>4, <2>6, <2>7 DEF InStep
<1>1. CASE j = 1
  <2>1. h.rs = FALSE /\ h.nibble = 6 /\ h.wait = 39
    <3>1. 10 - j = 9
      BY <1>1
    <3> QED
      BY <3>1, InitList DEF Half, h
  <2>3. /\ ~eight /\ half = 0 /\ busy = 0 /\ on
        /\ Clear \in {ran[i] : i \in 1..Len(ran)}
    BY <1>1 DEF Ready
  <2>4. Execute(Decode(FALSE, 6)) /\ half' = NoHalf
    BY <1>0, <2>1, <2>3, SecondHalf, 6 \in 0..15
  <2>5. Execute(Increment)
    BY <2>4, Decodes, Zenon
  <2>6. ~eight' /\ on' = on /\ busy' = 39 /\ entry' = Increment /\ ran' = Append(ran, Increment)
    BY <2>3, <2>5 DEF Execute, Increment
  <2>7. Clear \in {ran'[i] : i \in 1..Len(ran')}
    BY <2>3, <2>6 DEF Typed
  <2> QED
    BY <1>1, <2>1, <2>3, <2>4, <2>6, <2>7 DEF InStep
<1> QED
  BY <1>1, <1>3, <1>5, <1>6, <1>7, <1>8, <1>9

-----------------------------------------------------------------------------
(* sk_lcd_init before a controller that it cannot synchronise. *)

\* A half byte other than 3 keeps a receptive controller receptive.
LEMMA StaysReceptive ==
    ASSUME NEW rs \in BOOLEAN, NEW n \in 0..15, n # 3, Typed, Receptive, Latch(rs, n)
    PROVE  Receptive'
<1> USE DEF Receptive
<1>1. CASE busy > 0
  BY <1>1 DEF Latch, controller
<1>2. CASE ~(busy > 0) /\ half = NoHalf
  BY <1>2 DEF Latch
<1>3. CASE ~(busy > 0) /\ half # NoHalf
  <2>1. Execute(Decode(rs, 16 * half + n)) /\ half' = NoHalf
    BY <1>3 DEF Latch
  <2>2. half \in 0..15 /\ half # 3
    BY <1>3 DEF Typed, NoHalf
  <2>3. 16 * half + n \in 0..255 /\ ~AsksEight(16 * half + n)
    BY <2>2 DEF AsksEight
  <2>4. ~eight'
    BY <2>1, <2>3, StaysFourBit
  <2> QED
    BY <2>1, <2>4 DEF NoHalf
<1> QED
  BY <1>1, <1>2, <1>3

\* The bytes 0x33 and 0x3F select 8-bit mode.
LEMMA SelectsEight ==
    ASSUME NEW b \in {51, 63}, Execute(Decode(FALSE, b))
    PROVE  eight'
<1>1. b \in 32..63 /\ IsSet(b, 16)
  BY DEF IsSet
<1>2. Decode(FALSE, b).op = "function" /\ Decode(FALSE, b).eight = IsSet(b, 16)
  BY <1>1 DEF Decode
<1>3. eight' = IsSet(b, 16)
  BY <1>2, FunctionExecuted
<1> QED
  BY <1>1, <1>3

LEMMA RecoverFirst ==
    ASSUME NEW h, h.rs = FALSE, h.nibble = 3, Typed, ~Receptive, Possible, Latch(h.rs, h.nibble)
    PROVE  eight'
<1>1. CASE eight /\ busy > 0
  BY <1>1 DEF Latch, controller
<1>2. CASE eight /\ ~(busy > 0)
  <2>1. Execute(Decode(h.rs, 16 * h.nibble + 15)) /\ 16 * h.nibble + 15 = 63
    BY <1>2 DEF Latch
  <2>2. Execute(Decode(FALSE, 63))
    BY <2>1, Zenon
  <2> QED
    BY <2>2, SelectsEight
<1>3. CASE ~eight
  <2>1. half = 3 /\ ~(busy > 0)
    BY <1>3 DEF Receptive, Possible, NoHalf
  <2>2. Execute(Decode(h.rs, 16 * half + h.nibble)) /\ 16 * half + h.nibble = 51
    BY <1>3, <2>1 DEF Latch, NoHalf
  <2>3. Execute(Decode(FALSE, 51))
    BY <2>2, Zenon
  <2> QED
    BY <2>3, SelectsEight
<1> QED
  BY <1>1, <1>2, <1>3

LEMMA RecoverSecond ==
    ASSUME NEW h, h.rs = FALSE, h.nibble = 2, eight, Possible, busy = 0, Latch(h.rs, h.nibble)
    PROVE  Receptive'
<1>1. Execute(Decode(h.rs, 16 * h.nibble + 15)) /\ half' = NoHalf /\ 16 * h.nibble + 15 = 47
  BY DEF Latch, Possible
<1>2. Execute(Decode(FALSE, 47))
  BY <1>1, Zenon
<1>3. eight' = Decode(FALSE, 47).eight
  BY <1>2, Decodes, FunctionExecuted
<1>4. ~eight'
  BY <1>3, Decodes, Zenon
<1> QED
  BY <1>1, <1>4 DEF Receptive, NoHalf

LEMMA LatchRecovering ==
    ASSUME NEW j \in 1..9, Typed, Possible, Late(j),
           Latch(InitHalves[10 - j].rs, InitHalves[10 - j].nibble)
    PROVE  Recovering(j - 1)'
<1> DEFINE h == InitHalves[10 - j]
<1>1. Latch(h.rs, h.nibble)
  OBVIOUS
<1> HIDE DEF h
<1>2. CASE j = 9
  <2>1. h.rs = FALSE /\ h.nibble = 3
    <3>1. 10 - j = 1
      BY <1>2
    <3> QED
      BY <3>1, InitList DEF Half, h
  <2>2. eight'
    BY <1>1, <1>2, <2>1, RecoverFirst DEF Late, Recovering
  <2> QED
    BY <1>2, <2>2 DEF Recovering
<1>3. CASE j = 8
  <2>1. h.rs = FALSE /\ h.nibble = 2
    <3>1. 10 - j = 2
      BY <1>3
    <3> QED
      BY <3>1, InitList DEF Half, h
  <2>2. Receptive'
    BY <1>1, <1>3, <2>1, RecoverSecond DEF Late, Recovering
  <2> QED
    BY <1>3, <2>2 DEF Recovering
<1>4. CASE j <= 7
  <2>1. h.rs = FALSE /\ h.nibble \in {0, 1, 2, 6, 12}
    <3>1. 10 - j \in 3..9
      BY <1>4
    <3> QED
      BY <3>1, InitList, SMTT(30) DEF Half, h
  <2>2. h.nibble \in 0..15 /\ h.nibble # 3
    BY <2>1
  <2>5. h.rs \in BOOLEAN
    BY <2>1
  <2>3. Receptive
    BY <1>4 DEF Late, Recovering
  <2>4. Receptive'
    BY ONLY <1>1, <2>2, <2>3, <2>5, Typed, StaysReceptive
  <2> QED
    BY <1>4, <2>4 DEF Recovering
<1> QED
  BY <1>2, <1>3, <1>4

-----------------------------------------------------------------------------
(* A command: its first half is kept, its second has the instruction asked  *)
(* for executed.                                                            *)

LEMMA CallsDiffer ==
    ASSUME NEW a \in Calls
    PROVE  a # Sync /\ a # Nothing /\ a.op # "function"
BY DEF Calls, Sync, Nothing

LEMMA LatchCmdFirst ==
    ASSUME asked \in Calls, Legal(asked), InStep, busy = 0, Latch(CmdHalves(asked)[1].rs, CmdHalves(asked)[1].nibble)
    PROVE  ~eight' /\ half' = Byte(asked) \div 16 /\ busy' = 0 /\ ran' = ran
<1>1. CmdHalves(asked)[1] = Half(asked.op = "data", Byte(asked) \div 16, 0)
  BY CmdList
<1>2. CmdHalves(asked)[1].nibble = Byte(asked) \div 16
  BY <1>1 DEF Half
<1> QED
  BY <1>2, LatchFirst

LEMMA LatchCmdSecond ==
    ASSUME asked \in Calls, Legal(asked), ~eight, half = Byte(asked) \div 16, busy = 0,
           ran = <<>>, Latch(CmdHalves(asked)[2].rs, CmdHalves(asked)[2].nibble)
    PROVE  InStep' /\ busy' \in 0..Wait(asked) /\ ran' = <<asked>>
<1> DEFINE b == Byte(asked)
           h == CmdHalves(asked)[2]
<1>1. b \in 0..255 /\ Decode(asked.op = "data", b) = asked
  BY DecodesBack
<1>2. half \in 0..15 /\ 16 * half + (b % 16) = b
  BY <1>1, Nibbles
<1>3. h = Half(asked.op = "data", b % 16, Wait(asked))
  BY CmdList
<1>4. h.rs = (asked.op = "data") /\ h.nibble = b % 16
  BY <1>3 DEF Half
<1> HIDE DEF b, h
<1>5. Execute(Decode(h.rs, 16 * half + h.nibble)) /\ half' = NoHalf
  BY <1>2, LatchSecond DEF h, NoHalf
<1>6. 16 * half + h.nibble = b
  BY <1>2, <1>4
<1>7. Execute(asked)
  BY <1>1, <1>4, <1>5, <1>6, Zenon
<1>8. ran' = <<asked>>
  BY <1>7 DEF Execute
<1>9. ~eight'
  BY <1>7, CallsDiffer DEF Execute
<1>10. busy' \in 0..Wait(asked)
  BY <1>7 DEF Execute, Wait
<1> QED
  BY <1>5, <1>8, <1>9, <1>10 DEF InStep

-----------------------------------------------------------------------------
(* The steps. *)

\* A half byte that is sent is one of these two.
LEMMA HeadIsHalf ==
    ASSUME IInv, pc # "idle"
    PROVE  Head(todo) \in Halves
<1>1. CASE asked = Sync
  <2>1. PICK j \in 1..9 : todo = InitRest(j)
    BY <1>1 DEF IInv, InInit
  <2>2. Head(todo) = InitHalves[10 - j]
    BY <2>1, InitRests
  <2>3. 10 - j \in 1..9
    OBVIOUS
  <2>4. InitHalves \in Seq(Halves) /\ Len(InitHalves) = 9
    BY InitList
  <2>5. InitHalves[10 - j] \in Halves
    BY <2>3, <2>4, ElementOfSeq
  <2> QED
    BY <2>2, <2>5
<1>2. CASE asked # Sync
  <2>1. PICK j \in 1..2 : todo = CmdRest(asked, j)
    BY <1>2 DEF IInv, InCmd
  <2>2. asked \in Calls /\ Legal(asked)
    BY <1>2, AskAssumption DEF IInv, InCmd
  <2>3. Head(todo) = CmdHalves(asked)[3 - j] /\ 3 - j \in 1..2
    BY <2>1, <2>2, CmdRests
  <2> QED
    BY <2>2, <2>3, CmdList
<1> QED
  BY <1>1, <1>2

LEMMA InitHolds == Init => IInv
<1> SUFFICES ASSUME Init PROVE IInv
  OBVIOUS
<1>1. eight \in BOOLEAN /\ half \in 0..NoHalf /\ (eight => half = NoHalf)
  <2>1. PICK s \in Starts : eight = s.eight /\ half = s.half
    BY DEF Init
  <2>2. NoHalf \in 0..NoHalf
    BY DEF NoHalf
  <2> QED
    BY <2>1, <2>2, ControllerAssumption
<1>2. ran \in Seq(Instructions) /\ busy = 0 /\ pc = "idle" /\ ~isinitialized
      /\ isinitialized \in BOOLEAN /\ lines = 0 /\ ~found /\ found \in BOOLEAN /\ ret = "none" /\ ~en
  BY EmptySeq DEF Init
<1>3. Typed /\ Possible
  BY <1>1, <1>2 DEF Typed, Possible
<1> QED
  BY <1>2, <1>3 DEF IInv, InInit, InCmd, AtRest, Edges

LEMMA AnswerStep ==
    ASSUME NEW a, NEW r, IInv, pc = "idle", r # "EOK", Answer(a, r), UNCHANGED isinitialized
    PROVE  IInv'
<1>1. Typed' /\ Possible' /\ Edges'
  BY DEF IInv, Typed, Possible, Edges, Answer
<1>2. AtRest'
  BY DEF IInv, AtRest, Answer, InStep
<1> QED
  BY <1>1, <1>2 DEF IInv, InInit, InCmd, Answer

LEMMA InitStep == IInv /\ LcdInit => IInv'
<1> SUFFICES ASSUME IInv, LcdInit PROVE IInv'
  OBVIOUS
<1>1. pc = "idle"
  BY DEF LcdInit
<1>2. CASE Answer(Sync, "ENENARG") \/ Answer(Sync, "ENOTIMPLEMENTED")
  BY <1>1, <1>2, AnswerStep DEF Answer
<1>3. CASE isinitialized' = TRUE /\ lines' = 0 /\ Begin(Sync, InitHalves) /\ found' = Receptive
  <2>1. Receptive' = Receptive /\ Receptive \in BOOLEAN
    BY <1>3 DEF Receptive, Begin
  <2>2. Typed' /\ Possible' /\ Edges'
    BY <1>1, <1>3, <2>1, EmptySeq DEF IInv, Typed, Possible, Edges, Begin
  <2>3. IF found' THEN Ready(9)' ELSE Late(9)'
    BY <1>3, <2>1 DEF Ready, Late, Recovering
  <2>4. pc' = "raise" /\ asked' = Sync /\ todo' = InitRest(9) /\ isinitialized'
    BY <1>3, InitRests DEF Begin
  <2>5. InInit'
    BY <2>3, <2>4, 9 \in 1..9 DEF InInit
  <2> QED
    BY <2>2, <2>4, <2>5 DEF IInv, InCmd, AtRest
<1> QED
  BY <1>2, <1>3 DEF LcdInit

LEMMA CmdStep ==
    ASSUME NEW a \in Asks, IInv, LcdCmd(a)
    PROVE  IInv'
<1>1. pc = "idle"
  BY DEF LcdCmd
<1>2. CASE Answer(a, "EWRONGARG") \/ Answer(a, "EUNKNOWN")
  BY <1>1, <1>2, AnswerStep DEF Answer
<1>3. CASE /\ Legal(a) /\ isinitialized /\ Begin(a, CmdHalves(a))
           /\ UNCHANGED <<isinitialized, lines, found>>
  <2>1. a \in Calls /\ a # Sync
    BY AskAssumption, CallsDiffer
  <2>2. found' => CmdReady(2)' /\ busy' = 0
    BY <1>1, <1>3 DEF IInv, AtRest, InStep, Begin, CmdReady
  <2>3. Typed' /\ Possible' /\ Edges'
    BY <1>1, <1>3, EmptySeq DEF IInv, Typed, Possible, Edges, Begin
  <2>4. asked' = a /\ todo' = CmdRest(a, 2) /\ pc' = "raise" /\ isinitialized'
    BY <1>3, <2>1, CmdRests DEF Begin
  <2>5. InCmd'
    BY <1>3, <2>2, <2>4 DEF InCmd
  <2> QED
    BY <2>1, <2>3, <2>4, <2>5 DEF IInv, InInit, AtRest
<1> QED
  BY <1>2, <1>3 DEF LcdCmd

\* E up and data set: the controller sees nothing of it yet.
LEMMA StrobeStep ==
    ASSUME IInv, pc \in Strobe, pc' \in Strobe, todo' = todo, Typed', Edges',
           UNCHANGED <<isinitialized, asked, ret, eight, half, busy, on, entry, ran, found>>
    PROVE  IInv'
<1>1. Possible'
  BY DEF IInv, Possible
<1>2. ASSUME NEW j \in 1..9
      PROVE  Ready(j)' = Ready(j) /\ Late(j)' = Late(j)
  BY DEF Ready, Late, Recovering, Receptive, InitReady, InStep
<1>3. pc # "idle" /\ pc' # "idle" /\ pc # "wait" /\ pc' # "wait"
  BY DEF Strobe
<1>4. InInit'
  BY <1>2, <1>3 DEF IInv, InInit
<1>5. ASSUME NEW j \in 1..2, CmdReady(j) PROVE CmdReady(j)'
  BY <1>5 DEF CmdReady, InStep
<1>6. InCmd'
  BY <1>3, <1>5 DEF IInv, InCmd
<1> QED
  BY <1>1, <1>3, <1>4, <1>6 DEF IInv, AtRest

LEMMA RaiseStep == IInv /\ Raise => IInv'
<1> SUFFICES ASSUME IInv, Raise PROVE IInv'
  OBVIOUS
<1>1. /\ pc = "raise" /\ pc' = "set" /\ en' = TRUE /\ todo' = todo
      /\ UNCHANGED <<isinitialized, asked, ret, lines, eight, half, busy, on, entry, ran, found>>
  BY DEF Raise, driver, controller
<1>2. Typed' /\ Edges'
  BY <1>1 DEF IInv, Typed, Edges
<1> QED
  BY <1>1, <1>2, StrobeStep DEF Strobe

LEMMA SetDataStep == IInv /\ SetData => IInv'
<1> SUFFICES ASSUME IInv, SetData PROVE IInv'
  OBVIOUS
<1>1. /\ pc = "set" /\ pc' = "drop" /\ lines' = Head(todo).nibble /\ todo' = todo
      /\ UNCHANGED <<isinitialized, asked, ret, en, eight, half, busy, on, entry, ran, found>>
  BY DEF SetData, driver, controller
<1>2. lines' \in 0..15
  BY <1>1, HeadIsHalf DEF Halves
<1>3. Typed' /\ Edges'
  BY <1>1, <1>2 DEF IInv, Typed, Edges
<1> QED
  BY <1>1, <1>3, StrobeStep DEF Strobe

LEMMA DropStep == IInv /\ Drop => IInv'
<1> SUFFICES ASSUME IInv, Drop PROVE IInv'
  OBVIOUS
<1> DEFINE h == Head(todo)
<1>1. /\ pc = "drop" /\ pc' = "wait" /\ en' = FALSE /\ todo' = todo /\ Latch(h.rs, lines)
      /\ UNCHANGED <<isinitialized, asked, ret, lines, found>>
  BY DEF Drop, driver
<1>2. h \in Halves /\ lines = h.nibble
  BY <1>1, HeadIsHalf DEF IInv, Edges
<1>3. Latch(h.rs, h.nibble)
  BY <1>1, <1>2
<1>4. h.rs \in BOOLEAN /\ h.nibble \in 0..15
  BY <1>2 DEF Halves
<1> HIDE DEF h
<1>5. Possible' /\ Typed' /\ Edges'
  <2>1. /\ eight' \in BOOLEAN /\ half' \in 0..NoHalf /\ busy' \in Nat
        /\ ran' \in Seq(Instructions)
    BY <1>3, <1>4, LatchTyped DEF IInv
  <2>2. Possible'
    BY <1>3, <1>4, LatchPossible DEF IInv
  <2> QED
    BY <1>1, <2>1, <2>2 DEF IInv, Typed, Edges
<1>6. CASE asked = Sync
  <2>1. PICK j \in 1..9 : /\ isinitialized /\ todo = InitRest(j)
                          /\ IF found THEN Ready(j) ELSE Late(j)
    BY <1>1, <1>6 DEF IInv, InInit, Strobe
  <2>2. h = InitHalves[10 - j]
    BY <2>1, InitRests DEF h
  <2>3. CASE found
    <3>1. Latch(InitHalves[10 - j].rs, InitHalves[10 - j].nibble)
      BY <1>3, <2>2
    <3>2. Ready(j) /\ Typed /\ Possible
      BY <2>1, <2>3 DEF IInv
    <3>3. InitReady(j - 1)' /\ busy' <= InitHalves[10 - j].wait
      BY ONLY <3>1, <3>2, LatchInit
    <3>4. Awaited'
      BY <1>1, <2>2, <3>3 DEF Awaited, h
    <3> QED
      BY <1>1, <1>5, <1>6, <2>1, <2>3, <3>3, <3>4 DEF IInv, InInit, InCmd, AtRest, Strobe
  <2>4. CASE ~found
    <3>1. Latch(InitHalves[10 - j].rs, InitHalves[10 - j].nibble)
      BY <1>3, <2>2
    <3>2. Late(j) /\ Typed /\ Possible
      BY <2>1, <2>4 DEF IInv
    <3>3. Recovering(j - 1)'
      BY ONLY <3>1, <3>2, LatchRecovering
    <3> QED
      BY <1>1, <1>5, <1>6, <2>1, <2>4, <3>3 DEF IInv, InInit, InCmd, AtRest, Strobe
  <2> QED
    BY <2>3, <2>4
<1>7. CASE asked # Sync
  <2>1. PICK j \in 1..2 : /\ isinitialized /\ todo = CmdRest(asked, j)
                          /\ found => CmdReady(j) /\ busy = 0
    BY <1>1, <1>7 DEF IInv, InCmd, Strobe
  <2>2. asked \in Asks /\ asked \in Calls /\ Legal(asked)
    BY <1>1, <1>7, AskAssumption DEF IInv, InCmd
  <2>3. h = CmdHalves(asked)[3 - j]
    BY <2>1, <2>2, CmdRests DEF h
  <2>4. ASSUME found PROVE CmdReady(j - 1)' /\ Awaited'
    <3>1. CASE j = 2
      <4>1. h = CmdHalves(asked)[1] /\ h.wait = 0
        <5>1. 3 - j = 1
          BY <3>1
        <5>2. h = CmdHalves(asked)[1]
          BY <2>3, <5>1
        <5>3. CmdHalves(asked)[1].wait = 0
          BY <2>2, CmdWaits
        <5> QED
          BY <5>2, <5>3
      <4>2. ~eight' /\ half' = Byte(asked) \div 16 /\ busy' = 0 /\ ran' = ran
        BY <1>3, <2>1, <2>2, <2>4, <3>1, <4>1, LatchCmdFirst DEF CmdReady
      <4> QED
        BY <1>1, <2>1, <2>4, <3>1, <4>1, <4>2 DEF CmdReady, Awaited, h
    <3>2. CASE j = 1
      <4>1. h = CmdHalves(asked)[2] /\ h.wait = Wait(asked)
        <5>1. 3 - j = 2
          BY <3>2
        <5>2. h = CmdHalves(asked)[2]
          BY <2>3, <5>1
        <5>3. CmdHalves(asked)[2].wait = Wait(asked)
          BY <2>2, CmdWaits
        <5> QED
          BY <5>2, <5>3
      <4>2. InStep' /\ busy' \in 0..Wait(asked) /\ ran' = <<asked>>
        BY <1>3, <2>1, <2>2, <2>4, <3>2, <4>1, LatchCmdSecond DEF CmdReady
      <4> QED
        BY <1>1, <2>1, <3>2, <4>1, <4>2 DEF CmdReady, Awaited, h
    <3> QED
      BY <3>1, <3>2
  <2>5. InCmd'
    BY <1>1, <2>1, <2>2, <2>4 DEF InCmd, Strobe
  <2> QED
    BY <1>1, <1>5, <1>7, <2>5 DEF IInv, InInit, AtRest
<1> QED
  BY <1>6, <1>7

\* The pause is over before the next half byte or the next call.
LEMMA PausedEnough ==
    ASSUME NEW w \in Nat, busy \in Nat, busy <= w
    PROVE  LET us == Delayed(1) + Delayed(w) IN (IF busy > us THEN busy - us ELSE 0) = 0
<1>1. Delayed(1) \in Nat /\ Delayed(w) \in Nat /\ Delayed(w) >= w
  BY DelayedEnough, 1 \in Nat
<1> HIDE DEF Delayed
<1> QED
  BY <1>1

\* A pause only makes the controller less busy.
LEMMA PausedLess ==
    ASSUME NEW w \in Nat, busy \in Nat
    PROVE  LET us == Delayed(1) + Delayed(w)
           IN  (IF busy > us THEN busy - us ELSE 0) \in 0..busy
<1>1. Delayed(1) \in Nat /\ Delayed(w) \in Nat
  BY DelayedEnough, 1 \in Nat
<1> HIDE DEF Delayed
<1> QED
  BY <1>1

LEMMA PauseStep == IInv /\ Pause => IInv'
<1> SUFFICES ASSUME IInv, Pause PROVE IInv'
  OBVIOUS
<1>1. /\ pc = "wait" /\ todo' = Tail(todo) /\ pc' = IF Len(todo) = 1 THEN "idle" ELSE "raise"
      /\ UNCHANGED <<isinitialized, asked, ret, en, lines, eight, half, on, entry, ran, found>>
  BY DEF Pause, driver
<1>2. Head(todo).wait \in Nat
  BY <1>1, HeadIsHalf DEF Halves
<1>3. busy \in Nat /\ busy' = LET us == Delayed(1) + Delayed(Head(todo).wait)
                              IN  IF busy > us THEN busy - us ELSE 0
  BY DEF Pause, IInv, Typed
<1>4. busy' \in 0..busy /\ (busy <= Head(todo).wait => busy' = 0)
  BY <1>2, <1>3, PausedLess, PausedEnough
<1>5. Typed' /\ Possible' /\ Edges'
  BY <1>1, <1>4 DEF IInv, Typed, Possible, Edges
<1>6. CASE asked = Sync
  <2>1. PICK j \in 1..9 :
            /\ isinitialized /\ todo = InitRest(j)
            /\ IF found THEN InitReady(j - 1) /\ Awaited ELSE Recovering(j - 1)
    BY <1>1, <1>6 DEF IInv, InInit, Strobe
  <2>2. Len(todo) = j /\ todo' = InitRest(j - 1) /\ Head(todo) = InitHalves[10 - j]
    BY <1>1, <2>1, InitRests
  <2>3. ASSUME found PROVE InitReady(j - 1)' /\ busy' = 0
    BY <1>1, <1>4, <2>1, <2>3 DEF InitReady, InStep, Awaited
  <2>4. ASSUME ~found PROVE Recovering(j - 1)' /\ (j = 9 => busy' = 0)
    <3>1. Recovering(j - 1)'
      BY <1>1, <2>1, <2>4 DEF Recovering, Receptive
    <3>2. CASE j = 9
      <4>1. Head(todo).wait = 4100
        <5>1. 10 - j = 1
          BY <3>2
        <5> QED
          BY <2>2, <5>1, InitList DEF Half
      <4> QED
        BY <1>4, <3>1, <4>1 DEF IInv, Possible, Typed
    <3> QED
      BY <3>1, <3>2
  <2>5. CASE j = 1
    <3>1. pc' = "idle" /\ (found' => InitReady(0)' /\ InStep' /\ busy' = 0) /\ Receptive'
      <4>1. CASE found
        <5>1. InitReady(0)' /\ busy' = 0
          BY <2>3, <2>5, <4>1
        <5>2. InStep'
          BY <5>1 DEF InitReady
        <5> QED
          BY <1>1, <2>2, <2>5, <5>1, <5>2 DEF InStep, Receptive, NoHalf
      <4>2. CASE ~found
        <5>1. Recovering(0)'
          BY <2>4, <2>5, <4>2
        <5> QED
          BY <1>1, <2>2, <2>5, <4>2, <5>1 DEF Recovering
      <4> QED
        BY <4>1, <4>2
    <3> QED
      BY <1>1, <1>5, <1>6, <3>1 DEF IInv, InInit, InCmd, AtRest
  <2>6. CASE j # 1
    <3>1. pc' = "raise" /\ j - 1 \in 1..9
      BY <1>1, <2>2, <2>6
    <3>2. IF found' THEN Ready(j - 1)' ELSE Late(j - 1)'
      <4>1. CASE found
        BY <1>1, <2>3, <4>1 DEF Ready
      <4>2. CASE ~found
        BY <1>1, <2>4, <4>2 DEF Late
      <4> QED
        BY <4>1, <4>2
    <3>3. InInit'
      BY <1>1, <2>1, <2>2, <3>1, <3>2 DEF InInit
    <3> QED
      BY <1>1, <1>5, <1>6, <3>1, <3>3 DEF IInv, InCmd, AtRest
  <2> QED
    BY <2>5, <2>6
<1>7. CASE asked # Sync
  <2>1. PICK j \in 1..2 : /\ isinitialized /\ todo = CmdRest(asked, j)
                          /\ found => CmdReady(j - 1) /\ Awaited
    BY <1>1, <1>7 DEF IInv, InCmd
  <2>2. asked \in Asks /\ asked \in Calls /\ Legal(asked)
    BY <1>1, <1>7, AskAssumption DEF IInv, InCmd
  <2>3. Len(todo) = j /\ todo' = CmdRest(asked, j - 1)
    BY <1>1, <2>1, <2>2, CmdRests
  <2>4. ASSUME found PROVE CmdReady(j - 1)' /\ busy' = 0
    BY <1>1, <1>4, <2>1, <2>4 DEF CmdReady, InStep, Awaited
  <2>5. CASE j = 1
    <3>1. pc' = "idle" /\ (found' => InStep' /\ busy' = 0 /\ ran' = <<asked'>>)
      BY <1>1, <2>3, <2>4, <2>5 DEF CmdReady
    <3> QED
      BY <1>1, <1>5, <1>7, <3>1 DEF IInv, InInit, InCmd, AtRest
  <2>6. CASE j = 2
    <3>1. pc' = "raise" /\ j - 1 = 1
      BY <1>1, <2>3, <2>6
    <3>2. InCmd'
      BY <1>1, <2>1, <2>2, <2>3, <2>4, <3>1 DEF InCmd
    <3> QED
      BY <1>1, <1>5, <1>7, <3>1, <3>2 DEF IInv, InInit, AtRest
  <2> QED
    BY <2>5, <2>6
<1> QED
  BY <1>6, <1>7

\* Wherever a restart interrupts, it leaves the controller in one of its states.
LEMMA RestartStep == IInv /\ Restart => IInv'
<1> SUFFICES ASSUME IInv, Restart PROVE IInv'
  OBVIOUS
<1>1. /\ isinitialized' = FALSE /\ found' = FALSE /\ asked' = Nothing /\ ret' = "none"
      /\ pc' = "idle" /\ en' = FALSE /\ lines' = 0
  BY DEF Restart
<1>3. isinitialized' \in BOOLEAN /\ found' \in BOOLEAN
  BY <1>1
<1>4. pc' \in {"idle", "raise", "set", "drop", "wait"} /\ lines' \in 0..15
  BY <1>1
<1>2. Typed' /\ Possible'
  <2>1. CASE UNCHANGED controller
    BY <1>3, <1>4, <2>1 DEF IInv, Typed, Possible, controller
  <2>2. ASSUME NEW rs \in BOOLEAN, NEW n \in Floating \cup {lines}, Latch(rs, n)
        PROVE  Typed' /\ Possible'
    <3>1. n \in 0..15
      BY ControllerAssumption DEF IInv, Typed
    <3>2. /\ eight' \in BOOLEAN /\ half' \in 0..NoHalf /\ busy' \in Nat
          /\ ran' \in Seq(Instructions)
      BY <2>2, <3>1, LatchTyped DEF IInv
    <3>3. Possible'
      BY <2>2, <3>1, LatchPossible DEF IInv
    <3> QED
      BY <1>3, <1>4, <3>2, <3>3 DEF Typed
  <2> QED
    BY <2>1, <2>2 DEF Restart
<1> QED
  BY <1>1, <1>2 DEF IInv, InInit, InCmd, AtRest, Edges

\* The invariant is inductive.
THEOREM Invariance == Spec => []IInv
<1>1. IInv /\ [Next]_vars => IInv'
  <2> SUFFICES ASSUME IInv, [Next]_vars PROVE IInv'
    OBVIOUS
  <2>1. CASE UNCHANGED vars
    BY <2>1 DEF IInv, Typed, Possible, InInit, InCmd, AtRest, Edges, Receptive, InitReady,
                CmdReady, Ready, Late, Recovering, InStep, Awaited, vars, driver, controller
  <2>2. CASE LcdInit
    BY <2>2, InitStep
  <2>3. ASSUME NEW a \in Asks, LcdCmd(a) PROVE IInv'
    BY <2>3, CmdStep
  <2>4. CASE Raise
    BY <2>4, RaiseStep
  <2>5. CASE SetData
    BY <2>5, SetDataStep
  <2>6. CASE Drop
    BY <2>6, DropStep
  <2>7. CASE Pause
    BY <2>7, PauseStep
  <2>8. CASE Restart
    BY <2>8, RestartStep
  <2> QED
    BY <2>1, <2>2, <2>3, <2>4, <2>5, <2>6, <2>7, <2>8 DEF Next
<1> QED
  BY InitHolds, <1>1, PTL DEF Spec

\* sk_lcd_init synchronises mode and phase of every controller in 4-bit mode
\* that is not behind a first half 3, and makes every other one such: whatever
\* state the controller is in, wherever the MCU restarts and whatever is on the
\* lines then, the second of two sk_lcd_init in a row has synchronised it.
THEOREM Synchronises == Spec => []InitResynchronises
<1>1. IInv => InitResynchronises
  BY DEF IInv, AtRest, InitReady, InStep, InitResynchronises, Synchronised, Returned
<1> QED
  BY <1>1, Invariance, PTL

\* The controller executes exactly what is asked for.
THEOREM Arrives == Spec => []CommandArrives
<1>1. IInv => CommandArrives
  BY DEF IInv, AtRest, CommandArrives, Returned
<1> QED
  BY <1>1, Invariance, PTL

\* No half byte meets a busy controller but the first of sk_lcd_init.
THEOREM NotWhileBusy == Spec => []NeverBusy
<1>1. ASSUME IInv PROVE NeverBusy
  <2>1. SUFFICES ASSUME pc = "drop", found, ~(asked = Sync /\ Len(todo) = Len(InitHalves))
                 PROVE  busy = 0
    BY DEF NeverBusy
  <2>2. CASE asked = Sync
    <3>1. PICK j \in 1..9 : todo = InitRest(j) /\ Ready(j)
      BY <1>1, <2>1, <2>2 DEF IInv, InInit, Strobe
    <3>2. Len(todo) = j
      BY <3>1, InitRests
    <3>3. Len(InitHalves) = 9
      BY InitList
    <3> QED
      BY <2>1, <2>2, <3>1, <3>2, <3>3 DEF Ready
  <2>3. CASE asked # Sync
    BY <1>1, <2>1, <2>3 DEF IInv, InCmd, Strobe
  <2> QED
    BY <2>2, <2>3
<1>2. IInv => NeverBusy
  BY <1>1
<1> QED
  BY <1>2, Invariance, PTL

=============================================================================
