--------------------------------- MODULE Pin ---------------------------------
(***************************************************************************)
(* One GPIO port used through src/src/pin.c by several contexts: main,      *)
(* handlers, tasks.  sk_pin_set is one store to BSRR.  The other calls read *)
(* ODR first and store later, and other contexts may run in between.       *)
(* sk_pin_toggle stores only its own pin (BSRR); the group calls store the  *)
(* whole port (ODR), so they are made with the other users of the port     *)
(* locked out, which src/inc/pin.h leaves to the caller: "Access to the     *)
(* corresponding GPIO registers is not atomic."                            *)
(***************************************************************************)
EXTENDS PinGroup

CONSTANTS
    Pins,      \* the pins of the port
    Ctx,       \* the contexts that use it
    PinsOf,    \* the pins each context sets and toggles one by one
    Groups,    \* sk_pin_group values: [pins |-> ..., inversions |-> ...]
    Values,    \* the dense values given to the group calls
    Idle       \* no call under way

ASSUME PinAssumption == Pins \subseteq 0..15
ASSUME OwnerAssumption ==
    /\ PinsOf \in [Ctx -> SUBSET Pins]
    /\ \A c, d \in Ctx : c # d => PinsOf[c] \cap PinsOf[d] = {}
ASSUME GroupAssumption ==
    /\ \A g \in Groups : g \in [pins : SUBSET Pins, inversions : SUBSET Pins]
    /\ \A g \in Groups : g.inversions \subseteq g.pins

VARIABLES
    odr,      \* the output data register
    call,     \* the call of each context that has read ODR and not stored yet
    level     \* the levels the completed calls leave, had each been one step

vars == <<odr, call, level>>

Ops == {"toggle", "group_set", "group_toggle"}

\* mask: the pins of the call; bits: what it makes of them; reg: what it read.
Calls == [op : Ops, mask : SUBSET Pins, bits : SUBSET Pins, reg : SUBSET Pins]

ASSUME IdleAssumption == Idle \notin Calls

In(c, op) == call[c] # Idle /\ call[c].op = op

\* No other context is inside a group call.
NotLockedOut(c) ==
    \A d \in Ctx \ {c} : ~In(d, "group_set") /\ ~In(d, "group_toggle")

\* Nobody uses the port.
Quiet == \A d \in Ctx : call[d] = Idle

-----------------------------------------------------------------------------

\* sk_pin_set: v is the level, after sk_pin.isinverse.
PinSet(c, p, v) ==
    /\ call[c] = Idle /\ NotLockedOut(c)
    /\ p \in PinsOf[c]
    /\ odr'   = IF v THEN odr \cup {p} ELSE odr \ {p}
    /\ level' = IF v THEN level \cup {p} ELSE level \ {p}
    /\ UNCHANGED call

\* A call reads ODR.
Read(c, op, mask, bits) ==
    /\ call[c] = Idle
    /\ call' = [call EXCEPT ![c] =
                   [op |-> op, mask |-> mask, bits |-> bits, reg |-> odr]]
    /\ UNCHANGED <<odr, level>>

\* sk_pin_toggle
ToggleRead(c, p) ==
    /\ NotLockedOut(c)
    /\ p \in PinsOf[c]
    /\ Read(c, "toggle", {p}, {p})

SetBits_Uninverted(g, v) == Sparsify(g.pins, v)

\* What sk_pin_group_set makes of the pins of its group.
SetBits(g, v) == Xor(Sparsify(g.pins, v), g.inversions)

GroupSetRead(c, g, v) ==
    Quiet /\ Read(c, "group_set", g.pins, SetBits(g, v))

GroupToggleRead(c, g, v) ==
    Quiet /\ Read(c, "group_toggle", g.pins, Sparsify(g.pins, v))

Return(c) == call' = [call EXCEPT ![c] = Idle]

\* The whole port is stored, as the group calls do.
ToggleStore_Odr(c) ==
    /\ In(c, "toggle") /\ NotLockedOut(c)
    /\ odr'   = Xor(call[c].reg, call[c].mask)
    /\ level' = Xor(level, call[c].mask)
    /\ Return(c)

\* gpio_toggle sets or resets the pin through BSRR by what was read of it.
ToggleStore(c) ==
    /\ In(c, "toggle") /\ NotLockedOut(c)
    /\ odr'   = (odr \ call[c].mask) \cup (call[c].mask \ call[c].reg)
    /\ level' = Xor(level, call[c].mask)
    /\ Return(c)

\* sk_pin_group_set stores.
GroupSetStore(c) ==
    /\ In(c, "group_set")
    /\ odr'   = (call[c].reg \ call[c].mask) \cup call[c].bits
    /\ level' = (level \ call[c].mask) \cup call[c].bits
    /\ Return(c)

\* sk_pin_group_toggle stores.
GroupToggleStore(c) ==
    /\ In(c, "group_toggle")
    /\ odr'   = Xor(call[c].reg, call[c].bits)
    /\ level' = Xor(level, call[c].bits)
    /\ Return(c)

\* sk_pin_group_read of output pins, whose input follows ODR.
GroupRead(g) == Densify(g.pins, Xor(odr, g.inversions))

-----------------------------------------------------------------------------

Init ==
    /\ odr \in SUBSET Pins
    /\ level = odr
    /\ call = [c \in Ctx |-> Idle]

Step(c) ==
    \/ \E p \in PinsOf[c], v \in BOOLEAN : PinSet(c, p, v)
    \/ \E p \in PinsOf[c] : ToggleRead(c, p)
    \/ \E g \in Groups, v \in Values : GroupSetRead(c, g, v)
    \/ \E g \in Groups, v \in Values : GroupToggleRead(c, g, v)
    \/ ToggleStore(c)
    \/ GroupSetStore(c)
    \/ GroupToggleStore(c)

Next == \E c \in Ctx : Step(c)

Spec == Init /\ [][Next]_vars

-----------------------------------------------------------------------------
(* Proved in PinProofs. *)

\* What a call has read is still there on the pins it stores by it.
ReadsFresh ==
    \A c \in Ctx : call[c] # Idle =>
        IF call[c].op = "toggle"
        THEN /\ call[c].mask \subseteq PinsOf[c]
             /\ call[c].reg \cap call[c].mask = odr \cap call[c].mask
        ELSE /\ call[c].reg = odr
             /\ \A d \in Ctx \ {c} : call[d] = Idle

-----------------------------------------------------------------------------
(* Properties. *)

\* The values the variables range over.
TypeOK ==
    /\ odr \subseteq Pins
    /\ level \subseteq Pins
    /\ call \in [Ctx -> Calls \cup {Idle}]

\* Every pin has the level the completed calls gave it: a toggle interrupted
\* between its read and its store by calls for other pins takes none of them
\* back, and a group call touches the pins of its group only.
LevelsKept == odr = level

\* What sk_pin_group_set stores is what sk_pin_group_read then returns, for
\* the bits the group has, whatever its pins and inversions are.
SetReadsBack ==
    [][\A c \in Ctx, g \in Groups, v \in Values :
          In(c, "group_set") /\ call'[c] = Idle
            /\ call[c].mask = g.pins /\ call[c].bits = SetBits(g, v)
          => GroupRead(g)' = v \cap 0..(Cardinality(g.pins) - 1)]_vars

=============================================================================
