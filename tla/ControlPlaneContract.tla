------------------------ MODULE ControlPlaneContract ------------------------
(***************************************************************************)
(* What a ManagedControlPlane's status promises, without caches, queues or *)
(* reconciles: which generations the user declared, which of them child    *)
(* objects still come from, and what the Ready condition claims.           *)
(***************************************************************************)
EXTENDS Integers

VARIABLES
    phase,      \* "live", "deleting" or "absent"
    declared,   \* the generation of the object
    children,   \* generations the child objects were rendered from
    reported,   \* the generation the Ready condition was observed for
    ready       \* the condition is True

vars == <<phase, declared, children, reported, ready>>

Init ==
    /\ phase = "live"
    /\ declared = 1
    /\ children = {}
    /\ reported = 0
    /\ ready = FALSE

Declare ==
    /\ phase = "live"
    /\ declared' = declared + 1
    /\ UNCHANGED <<phase, children, reported, ready>>

\* Some objects are rendered, from a generation that is not older than the last
\* one reported; others may disappear.
Render ==
    /\ \E g \in reported..declared : children' \subseteq children \union {g}
    /\ UNCHANGED <<phase, declared, reported, ready>>

\* Ready is claimed only for a generation no object is older than, and no
\* report is about an older generation than the one before it.
Report ==
    /\ phase # "absent"
    /\ reported' \in reported..declared
    /\ ready' \in BOOLEAN
    /\ ready' => \A g \in children : g >= reported'
    /\ UNCHANGED <<phase, declared, children>>

\* Deletion raises the generation.  It has no way back.
Delete ==
    /\ phase = "live"
    /\ phase' \in {"deleting", "absent"}
    /\ declared' = declared + 1
    /\ UNCHANGED <<children, reported, ready>>

Disappear ==
    /\ phase = "deleting"
    /\ phase' = "absent"
    /\ UNCHANGED <<declared, children, reported, ready>>

Next == Declare \/ Render \/ Report \/ Delete \/ Disappear

Spec == Init /\ [][Next]_vars
=============================================================================
