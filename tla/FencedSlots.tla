------------------------------ MODULE FencedSlots ------------------------------
(***************************************************************************)
(* What the store promises to those who run operations, without its        *)
(* tables.  An operation asks for the slot of its kind, gets it at most    *)
(* once per asking, under a token that was never used before, and only     *)
(* when nobody has it.  The slot comes back with the end of the operation, *)
(* or with its interruption, and by nothing else.  What has ended never    *)
(* asks again.                                                             *)
(***************************************************************************)
EXTENDS Naturals, Sequences

CONSTANTS
    Ops, SlotNames,
    SlotOf  \* the slot each operation needs

VARIABLES
    phase,    \* how far each operation is
    holder,   \* the token that is valid for each slot, 0 if the slot is free
    granted   \* whom each token was given to

slotVars == <<phase, holder, granted>>

Phases == {"new", "waiting", "granted", "idle", "over"}

Init ==
    /\ phase = [o \in Ops |-> "new"]
    /\ holder = [s \in SlotNames |-> 0]
    /\ granted = <<>>

Move(S, target) == phase' = [o \in Ops |-> IF o \in S THEN target[o] ELSE phase[o]]

Ask(S) ==
    /\ S # {} /\ \A o \in S : phase[o] \in {"new", "idle"}
    /\ Move(S, [o \in S |-> "waiting"])
    /\ UNCHANGED <<holder, granted>>

Leave(o) ==
    /\ phase[o] \in {"waiting", "idle"}
    /\ Move({o}, [x \in {o} |-> "over"])
    /\ UNCHANGED <<holder, granted>>

Grant(o) ==
    /\ phase[o] = "waiting" /\ holder[SlotOf[o]] = 0
    /\ Move({o}, [x \in {o} |-> "granted"])
    /\ granted' = Append(granted, o)
    /\ holder' = [holder EXCEPT ![SlotOf[o]] = Len(granted) + 1]

\* Of all slots that S holds at once, as recovery does.
Yield(S) ==
    /\ S # {} /\ \A o \in S : phase[o] = "granted"
    /\ \E target \in [S -> {"idle", "over"}] : Move(S, target)
    /\ holder' = [s \in SlotNames |->
           IF holder[s] # 0 /\ granted[holder[s]] \in S THEN 0 ELSE holder[s]]
    /\ UNCHANGED granted

Next ==
    \/ \E S \in SUBSET Ops : Ask(S) \/ Yield(S)
    \/ \E o \in Ops : Leave(o) \/ Grant(o)

Spec == Init /\ [][Next]_slotVars
===============================================================================
