--------------------------------- MODULE Lcd ---------------------------------
(***************************************************************************)
(* src/src/lcd_hd44780.c, the driver of the display, with the controller it *)
(* drives over four data lines.  The driver writes half bytes; a falling    *)
(* edge of E hands one to the controller, which puts two together while it  *)
(* is in 4-bit mode and is deaf while it executes.  Nothing is read back,   *)
(* so mode, phase and timing must be right by construction, also after the  *)
(* MCU alone has restarted.                                                 *)
(***************************************************************************)
EXTENDS Integers, Sequences

CONSTANTS
    Configs,      \* struct sk_lcd as the user fills it in
    Asks,         \* the calls made
    Starts,       \* the controller as the first sk_lcd_init finds it
    Floating      \* what data lines nobody drives may read as

\* pins: the mandatory pins are given; us, ms: the delay functions are.
ASSUME ConfigAssumption ==
    Configs \subseteq [pins : BOOLEAN, us : BOOLEAN, ms : BOOLEAN, four : BOOLEAN]

\* The calls, with what the types of their parameters (bool, uint8_t) allow.
Calls ==
    {[op |-> "clear"], [op |-> "home"]}
    \cup [op : {"entry"}, right : BOOLEAN, shift : BOOLEAN]
    \cup [op : {"onoff"}, on : BOOLEAN, cursor : BOOLEAN, blink : BOOLEAN]
    \cup [op : {"shift"}, display : BOOLEAN, right : BOOLEAN]
    \cup [op : {"address"}, cgram : BOOLEAN, addr : 0..255]
    \cup [op : {"data"}, byte : 0..255]

ASSUME AskAssumption == Asks \subseteq Calls

NoHalf == 16

ASSUME ControllerAssumption ==
    /\ Starts \subseteq [eight : {FALSE}, half : 0..NoHalf] \cup [eight : {TRUE}, half : {NoHalf}]
    /\ Floating \subseteq 0..15

VARIABLES
    cfg,                \* struct sk_lcd
    isinitialized,      \* lcd->__isinitialized
    asked, ret,         \* the last call and its result
    pc, todo,           \* where it is: the half bytes it still has to send
    en, lines,          \* pin_en, pin_group_data
    eight, half, busy,  \* the controller: 8-bit mode, first half, time left
    on, entry,          \* the controller: display on, entry mode
    ran,                \* the instructions executed since the call began
    found               \* the last sk_lcd_init began from where it can synchronise

driver     == <<cfg, isinitialized, asked, ret>>
controller == <<eight, half, busy, on, entry, ran>>
vars       == <<driver, pc, todo, en, lines, controller, found>>

Bit(b) == IF b THEN 1 ELSE 0
IsSet(byte, bit) == (byte \div bit) % 2 = 1

Nothing == [op |-> "none"]
Sync    == [op |-> "init"]

-----------------------------------------------------------------------------
(* The commands. *)

\* The address is not or-ed with the bit of its kind.
Base_Same(a) == 128

Base(a) == IF a.cgram THEN 64 ELSE 128

\* data of sk_lcd_cmd_clear, rethome, emodeset, onoffctl, shift, setaddr.
Byte(a) ==
    CASE a.op = "clear"   -> 1
      [] a.op = "home"    -> 2
      [] a.op = "entry"   -> 4 + 2 * Bit(a.right) + Bit(a.shift)
      [] a.op = "onoff"   -> 8 + 4 * Bit(a.on) + 2 * Bit(a.cursor) + Bit(a.blink)
      [] a.op = "shift"   -> 16 + 8 * Bit(a.display) + 4 * Bit(a.right)
      [] a.op = "address" -> Base(a) + a.addr
      [] a.op = "data"    -> a.byte

\* The range check of sk_lcd_cmd_setaddr.
Legal(a) == a.op = "address" => a.addr < Base(a)

Wait_Short(a) == IF a.op = "data" THEN 43 ELSE 39

\* The delay after the command, in microseconds.
Wait(a) == CASE a.op \in {"clear", "home"} -> 1530
             [] a.op = "data" -> 43
             [] OTHER -> 39

\* lcd_delay_us: what the delay functions given make of it.
Delayed(us) ==
    IF cfg.ms /\ ~cfg.us /\ us % 1000 # 0 THEN 1000 * (1 + us \div 1000) ELSE us

Half(rs, nibble, wait) == [rs |-> rs, nibble |-> nibble, wait |-> wait]

\* lcd_data_set_byte, and the delay of the command.
CmdHalves(a) ==
    <<Half(a.op = "data", Byte(a) \div 16, 0), Half(a.op = "data", Byte(a) % 16, Wait(a))>>

DisplayOn == [op |-> "onoff", on |-> TRUE, cursor |-> FALSE, blink |-> FALSE]
Clear     == [op |-> "clear"]
Increment == [op |-> "entry", right |-> TRUE, shift |-> FALSE]

\* Function set is sent as to a controller that has just been powered on.
InitHalves_NoResync ==
    <<Half(FALSE, 2, 100), Half(FALSE, 2, 39)>>
        \o CmdHalves(DisplayOn) \o CmdHalves(Clear) \o CmdHalves(Increment)

\* lcd_init_4bit
InitHalves ==
    <<Half(FALSE, 3, 4100), Half(FALSE, 2, 100), Half(FALSE, 2, 39)>>
        \o CmdHalves(DisplayOn) \o CmdHalves(Clear) \o CmdHalves(Increment)

-----------------------------------------------------------------------------
(* The controller. *)

Decode(rs, byte) ==
    CASE rs          -> [op |-> "data", byte |-> byte]
      [] ~rs /\ byte >= 128 -> [op |-> "address", cgram |-> FALSE, addr |-> byte - 128]
      [] ~rs /\ byte \in 64..127 -> [op |-> "address", cgram |-> TRUE, addr |-> byte - 64]
      [] ~rs /\ byte \in 32..63 -> [op |-> "function", eight |-> IsSet(byte, 16)]
      [] ~rs /\ byte \in 16..31 ->
            [op |-> "shift", display |-> IsSet(byte, 8), right |-> IsSet(byte, 4)]
      [] ~rs /\ byte \in 8..15 ->
            [op |-> "onoff", on |-> IsSet(byte, 4), cursor |-> IsSet(byte, 2), blink |-> IsSet(byte, 1)]
      [] ~rs /\ byte \in 4..7 ->
            [op |-> "entry", right |-> IsSet(byte, 2), shift |-> IsSet(byte, 1)]
      [] ~rs /\ byte \in 2..3 -> [op |-> "home"]
      [] ~rs /\ byte = 1 -> [op |-> "clear"]
      [] ~rs /\ byte = 0 -> Nothing

Execute(i) ==
    /\ ran'   = Append(ran, i)
    /\ eight' = IF i.op = "function" THEN i.eight ELSE eight
    /\ on'    = IF i.op = "onoff" THEN i.on ELSE on
    /\ entry' = CASE i.op = "entry" -> i
                  [] i.op = "clear" -> [entry EXCEPT !.right = TRUE]
                  [] OTHER -> entry
    /\ busy'  = CASE i.op \in {"clear", "home"} -> 1530
                  [] i.op = "data" -> 43
                  [] OTHER -> 39

\* E falls.  The lower four data lines are not connected and read as ones.
Latch(rs, nibble) ==
    IF busy > 0 THEN UNCHANGED controller
    ELSE IF eight THEN Execute(Decode(rs, 16 * nibble + 15)) /\ UNCHANGED half
    ELSE IF half = NoHalf THEN half' = nibble /\ UNCHANGED <<eight, busy, on, entry, ran>>
    ELSE Execute(Decode(rs, 16 * half + nibble)) /\ half' = NoHalf

-----------------------------------------------------------------------------
(* The driver. *)

Answer(a, r) ==
    /\ asked' = a /\ ret' = r
    /\ ran' = <<>>
    /\ UNCHANGED <<cfg, isinitialized, pc, todo, en, lines, eight, half, busy, on, entry, found>>

Begin(a, halves) ==
    /\ asked' = a /\ ret' = "EOK"
    /\ pc' = "raise" /\ todo' = halves
    /\ ran' = <<>>
    /\ UNCHANGED <<cfg, en, eight, half, busy, on, entry>>

Complete == cfg.pins /\ (cfg.us \/ cfg.ms)

\* Where the half bytes of sk_lcd_init can synchronise the controller: in
\* 4-bit mode, unless it is behind a first half 3, which with the next 3 is a
\* function set to 8-bit mode.
Receptive == ~eight /\ half # 3

\* sk_lcd_init
LcdInit ==
    /\ pc = "idle"
    /\ \/ ~Complete /\ Answer(Sync, "ENENARG")
       \/ Complete /\ ~cfg.four /\ Answer(Sync, "ENOTIMPLEMENTED")
       \/ /\ Complete /\ cfg.four
          /\ isinitialized' = TRUE
          /\ lines' = 0
          /\ Begin(Sync, InitHalves)
          /\ found' = Receptive

\* sk_lcd_cmd_clear ... sk_lcd_cmd_setaddr and sk_lcd_write_byte.
LcdCmd(a) ==
    /\ pc = "idle"
    /\ \/ ~Legal(a) /\ Answer(a, "EWRONGARG")
       \/ Legal(a) /\ ~isinitialized /\ Answer(a, "EUNKNOWN")
       \/ /\ Legal(a) /\ isinitialized
          /\ Begin(a, CmdHalves(a))
          /\ UNCHANGED <<isinitialized, lines, found>>

\* lcd_data_set_halfbyte: E goes up over what was on the data lines before ...
Raise ==
    /\ pc = "raise"
    /\ en' = TRUE
    /\ pc' = "set"
    /\ UNCHANGED <<driver, todo, lines, controller, found>>

\* ... the half byte is put on them ...
SetData ==
    /\ pc = "set"
    /\ lines' = Head(todo).nibble
    /\ pc' = "drop"
    /\ UNCHANGED <<driver, todo, en, controller, found>>

\* ... E goes down ...
Drop ==
    /\ pc = "drop"
    /\ en' = FALSE
    /\ Latch(Head(todo).rs, lines)
    /\ pc' = "wait"
    /\ UNCHANGED <<driver, todo, lines, found>>

\* ... and the delays of the strobe and of the command pass.
Pause ==
    /\ pc = "wait"
    /\ LET us == Delayed(1) + Delayed(Head(todo).wait)
       IN  busy' = IF busy > us THEN busy - us ELSE 0
    /\ todo' = Tail(todo)
    /\ pc' = IF Len(todo) = 1 THEN "idle" ELSE "raise"
    /\ UNCHANGED <<driver, en, lines, eight, half, on, entry, ran, found>>

\* The MCU restarts and the display does not: RAM is lost and the pins are
\* inputs again.  E falls, if it was up, and may hand over what is on the data
\* lines or what they read as when nobody drives them.
Restart ==
    /\ isinitialized
    /\ isinitialized' = FALSE /\ found' = FALSE
    /\ asked' = Nothing /\ ret' = "none"
    /\ pc' = "idle" /\ todo' = <<>>
    /\ en' = FALSE /\ lines' = 0
    /\ \/ UNCHANGED controller
       \/ en /\ \E rs \in BOOLEAN, nibble \in Floating \cup {lines} : Latch(rs, nibble)
    /\ UNCHANGED cfg

Init ==
    /\ cfg \in Configs
    /\ isinitialized = FALSE
    /\ asked = Nothing /\ ret = "none"
    /\ pc = "idle" /\ todo = <<>> /\ en = FALSE /\ lines = 0
    /\ \E s \in Starts : eight = s.eight /\ half = s.half
    /\ busy = 0
    /\ on = FALSE /\ entry = Increment
    /\ ran = <<>> /\ found = FALSE

Next ==
    \/ LcdInit
    \/ \E a \in Asks : LcdCmd(a)
    \/ Raise \/ SetData \/ Drop \/ Pause
    \/ Restart

Spec == Init /\ [][Next]_vars

-----------------------------------------------------------------------------
(* Properties. *)

Returned == pc = "idle" /\ ret = "EOK"

\* The documented initialisation: 4-bit mode, waiting for a first half, the
\* display on and cleared and the cursor moving to the right.
Synchronised ==
    ~eight /\ half = NoHalf /\ on /\ entry = Increment /\ Clear \in {ran[i] : i \in 1..Len(ran)}

\* sk_lcd_init "Performs initalization of LCD" (lcd_hd44780.h:153).
InitSynchronises == Returned /\ asked = Sync => Synchronised

\* What holds of it: wherever the MCU restarted, and whatever the lines then
\* read as, sk_lcd_init synchronises a receptive controller, and makes any
\* other receptive, so that the second of two in a row synchronises it.
InitResynchronises ==
    Returned /\ asked = Sync => Receptive /\ (found => Synchronised)

\* A call that returns SK_EOK after that has made the controller execute the
\* instruction asked for, once, and nothing else: no half byte goes astray.
CommandArrives == Returned /\ asked \notin {Nothing, Sync} /\ found => ran = <<asked>>

\* The controller is never handed anything while it is still executing, but
\* for the first half of sk_lcd_init after a restart.
NeverBusy ==
    pc = "drop" /\ found /\ ~(asked = Sync /\ Len(todo) = Len(InitHalves)) => busy = 0

=============================================================================
