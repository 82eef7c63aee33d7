--------------------------- MODULE FiringSchedule ---------------------------
(***************************************************************************)
(* What the signal engine is promised about the cycles of a merchant: a    *)
(* cycle fires once one of its scrapes has landed, or, without any, only   *)
(* after its deadline; then it is quiet for interval + grace, unless it    *)
(* was swept after its deadline.  CycleBarrier implements it.              *)
(***************************************************************************)
EXTENDS Integers

CONSTANTS Cycles, Interval, Grace

VARIABLES
    clock,
    landed,    \* how many scrapes of each cycle have landed
    fires,     \* how often each cycle has fired
    quiet      \* until when each cycle may not fire

vars == <<clock, landed, fires, quiet>>

Overdue(c) == clock > (c + 1) * Interval + Grace

Init ==
    /\ clock = 0
    /\ landed = [c \in Cycles |-> 0]
    /\ fires = [c \in Cycles |-> 0]
    /\ quiet = [c \in Cycles |-> 0]

Land(c) ==
    /\ landed' = [landed EXCEPT ![c] = @ + 1]
    /\ UNCHANGED <<clock, fires, quiet>>

Fire(c) ==
    /\ landed[c] > 0 \/ Overdue(c)
    /\ clock >= quiet[c]
    /\ fires' = [fires EXCEPT ![c] = @ + 1]
    /\ quiet' = [quiet EXCEPT ![c] = clock + Interval + Grace]
    /\ UNCHANGED <<clock, landed>>

Sweep(c) ==
    /\ Overdue(c)
    /\ quiet' = [quiet EXCEPT ![c] = 0]
    /\ UNCHANGED <<clock, landed, fires>>

Tick ==
    /\ clock' = clock + 1
    /\ UNCHANGED <<landed, fires, quiet>>

Next ==
    \/ \E c \in Cycles : Land(c) \/ Fire(c) \/ Sweep(c)
    \/ Tick

Spec == Init /\ [][Next]_vars
=============================================================================
