-------------------------------- MODULE MCLcd --------------------------------
(* Displays, calls and starts for the runs of Lcd.                          *)
EXTENDS Lcd

\* The boards: delays in microseconds, in milliseconds or both; incomplete ones.
MCConfigs ==
    {c \in [pins : BOOLEAN, us : BOOLEAN, ms : BOOLEAN, four : BOOLEAN] :
        (c.pins /\ c.four) \/ (c.us /\ c.ms)}

\* Legal and illegal addresses at both ends of their ranges, all other commands.
MCAsks ==
    {[op |-> "clear"], [op |-> "home"]}
    \cup [op : {"entry"}, right : BOOLEAN, shift : BOOLEAN]
    \cup [op : {"onoff"}, on : BOOLEAN, cursor : BOOLEAN, blink : {FALSE}]
    \cup [op : {"shift"}, display : BOOLEAN, right : BOOLEAN]
    \cup [op : {"address"}, cgram : BOOLEAN, addr : {0, 63, 64, 127, 128}]
    \cup [op : {"data"}, byte : {0, 50, 255}]

\* The MCU restarts beside a display it has used before.
Warm == {[eight |-> FALSE, half |-> NoHalf]}

\* Display and MCU are powered on together.
PowerOn == {[eight |-> TRUE, half |-> NoHalf]}

\* Either, or behind a first half of any kind.
Anyhow == Warm \cup PowerOn \cup {[eight |-> FALSE, half |-> n] : n \in {0, 3, 15}}

\* The half bytes lines nobody drives may read as: all; the lines keep theirs.
AnyHalf == 0..15

=============================================================================
