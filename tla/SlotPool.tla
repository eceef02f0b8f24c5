------------------------------ MODULE SlotPool -------------------------------
(***************************************************************************)
(* What an accept loop promises of its slots: no more than Slots           *)
(* connections are served at once, and each gives its slot back.           *)
(***************************************************************************)
EXTENDS Naturals, FiniteSets

CONSTANTS Conns, Slots

VARIABLE held  \* the connections that hold a slot

Acquire(c) ==
    /\ c \notin held
    /\ Cardinality(held) < Slots
    /\ held' = held \cup {c}

Release(c) ==
    /\ c \in held
    /\ held' = held \ {c}

Init == held = {}
Next == \E c \in Conns : Acquire(c) \/ Release(c)

Bounded == Init /\ [][Next]_held
Spec == Bounded /\ \A c \in Conns : WF_held(Release(c))
=============================================================================
